--------------------------- MODULE KafkaComponent ---------------------------
(***************************************************************************)
(* The stage processes of one kafka component and the listener they leave  *)
(* running between them.  configure starts kafka_listener.py in a session  *)
(* of its own and writes its pid to a file whose name depends only on the  *)
(* experiment, the component and its metadata; configure does nothing when *)
(* that file exists, and cleanup reads the pid, removes the file and kills *)
(* the pid.  Stages, runs and loops follow one another in any order.       *)
(***************************************************************************)
EXTENDS Integers

CONSTANTS
    Pids,         \* process ids the host has to give
    MaxStages,    \* bound: stage processes started
    MaxFaults     \* bound: stage processes killed, writes refused

ASSUME KafkaAssumption ==
    Pids \subseteq Nat \ {0} /\ MaxStages \in Nat /\ MaxFaults \in Nat

NoFile  == 0 - 1      \* there is no pid file
NoPid   == 0          \* the file holds no pid; _consume_pid_file's pid

VARIABLES
    procs,     \* the host's processes: "free", "listener", "other"
    pidFile,   \* the pid in the file, NoPid when it is empty, or NoFile
    stage,     \* the stage under way: "none", "configure", "cleanup"
    pc,        \* what it does next
    pid,       \* the pid it holds
    status,    \* what the stage's status file says: "none", "ok", "error"
    ended,     \* how the last stage ended: "none", "exit0", "exit1", "killed"
    stages, faults,
    strays,    \* history: listeners whose pid could not be recorded
    unread     \* history: the pid in a file the stage under way, or the last, could not read

vars == <<procs, pidFile, stage, pc, pid, status, ended, stages, faults, strays, unread>>

Listeners == {p \in Pids : procs[p] = "listener"}

Init ==
    /\ procs = [p \in Pids |-> "free"]
    /\ pidFile = NoFile
    /\ stage = "none" /\ pc = "none" /\ pid = NoPid
    /\ status = "none" /\ ended = "none"
    /\ stages = 0 /\ faults = 0 /\ strays = {} /\ unread = {}

StartStage(s) ==
    /\ stage = "none" /\ stages < MaxStages
    /\ stage' = s /\ stages' = stages + 1
    /\ pc' = IF s = "configure" THEN "test" ELSE "read"
    /\ pid' = NoPid /\ status' = "none" /\ ended' = "none" /\ unread' = {}
    /\ UNCHANGED <<procs, pidFile, faults, strays>>

Goto(next) == pc' = next /\ UNCHANGED <<stage, status, ended, stages>>

Fault == faults < MaxFaults /\ faults' = faults + 1

\* The listener whose pid the stage holds, if it still runs, is lost.
Lose == strays' = strays \cup ({pid} \cap Listeners)

(***************************************************************************)
(* configure.                                                              *)
(***************************************************************************)
\* Mutant: configure starts a listener whatever the pid file says.
TestPidFileIgnored ==
    /\ pc = "test"
    /\ Goto("spawn")
    /\ UNCHANGED <<procs, pidFile, pid, faults, strays, unread>>

TestPidFile ==
    /\ pc = "test"
    /\ Goto(IF pidFile # NoFile THEN "status" ELSE "spawn")
    /\ UNCHANGED <<procs, pidFile, pid, faults, strays, unread>>

SpawnListener ==
    /\ pc = "spawn"
    /\ \/ \E p \in Pids :
            /\ procs[p] = "free"
            /\ procs' = [procs EXCEPT ![p] = "listener"]
            /\ pid' = p /\ Goto("open") /\ UNCHANGED faults
       \/ Fault /\ Goto("status") /\ UNCHANGED <<procs, pid>>   \* Popen raises: logged
    /\ UNCHANGED <<pidFile, strays, unread>>

\* _create_pid_file opens the file, which empties it, and then writes the pid; what
\* fails is logged, the stage goes on and the listener stays.
OpenPidFile ==
    /\ pc = "open"
    /\ \/ pidFile' = NoPid /\ Goto("write") /\ UNCHANGED <<faults, strays>>
       \/ Fault /\ Goto("status") /\ Lose /\ UNCHANGED pidFile
    /\ UNCHANGED <<procs, pid, unread>>

WritePid ==
    /\ pc = "write"
    /\ \/ pidFile' = pid /\ UNCHANGED <<faults, strays>>
       \/ Fault /\ Lose /\ UNCHANGED pidFile
    /\ Goto("status")
    /\ UNCHANGED <<procs, pid, unread>>

(***************************************************************************)
(* cleanup.                                                                *)
(***************************************************************************)
\* _consume_pid_file; a file without a number, or that cannot be opened or read, is left
\* where it is, and the pid stays 0.
ReadPidFile ==
    /\ pc = "read"
    /\ \/ /\ pid' = IF pidFile = NoFile THEN NoPid ELSE pidFile
          /\ Goto(IF pid' = NoPid THEN "exit" ELSE "remove")
          /\ UNCHANGED <<faults, unread>>
       \/ /\ pidFile \in Pids /\ Fault
          /\ pid' = NoPid /\ unread' = {pidFile}
          /\ Goto("exit")
    /\ UNCHANGED <<procs, pidFile, strays>>

\* A file that cannot be removed is logged; the pid is killed all the same.
RemovePidFile ==
    /\ pc = "remove"
    /\ \/ pidFile' = NoFile /\ UNCHANGED faults
       \/ Fault /\ UNCHANGED pidFile
    /\ Goto("kill")
    /\ UNCHANGED <<procs, pid, strays, unread>>

\* Mutant: the pid read is not the one killed.
KillNothing ==
    /\ pc = "kill"
    /\ procs' = procs
    /\ Goto("status")
    /\ UNCHANGED <<pidFile, pid, faults, strays, unread>>

\* os.kill: whatever has the pid now; nobody there is logged.
KillPid ==
    /\ pc = "kill"
    /\ procs' = [procs EXCEPT ![pid] = "free"]
    /\ strays' = strays \ {pid}
    /\ Goto("status")
    /\ UNCHANGED <<pidFile, pid, faults, unread>>

(***************************************************************************)
(* How a stage process ends.                                               *)
(***************************************************************************)
EndStage(how, st) ==
    /\ ended' = how /\ status' = st
    /\ stage' = "none" /\ pc' = "none"
    /\ UNCHANGED <<procs, pidFile, pid, stages, unread>>

\* execute_stage writes the status file.
WriteStatus ==
    /\ pc = "status"
    /\ EndStage("exit0", "ok")
    /\ UNCHANGED <<faults, strays>>

\* Metadata configure cannot use: an exception, caught and raised again.
BadMetadata ==
    /\ pc = "spawn"
    /\ EndStage("exit1", "error")
    /\ UNCHANGED <<faults, strays>>

\* exit() raises SystemExit, which execute_stage does not catch.
ExitProcess ==
    /\ pc = "exit"
    /\ EndStage("exit0", "none")
    /\ UNCHANGED <<faults, strays>>

Killed ==
    /\ stage # "none" /\ Fault
    /\ EndStage("killed", "none")
    /\ IF pc \in {"open", "write", "kill"} THEN Lose ELSE UNCHANGED strays

(***************************************************************************)
(* The host: a listener that finds no broker ends by itself, and a pid     *)
(* that is free may be given to another program.                           *)
(***************************************************************************)
ListenerDies(p) ==
    /\ procs[p] = "listener"
    /\ procs' = [procs EXCEPT ![p] = "free"]
    /\ strays' = strays \ {p}
    /\ UNCHANGED <<pidFile, stage, pc, pid, status, ended, stages, faults, unread>>

OtherProcess(p) ==
    /\ procs[p] = "free" \/ procs[p] = "other"
    /\ procs' = [procs EXCEPT ![p] = IF @ = "free" THEN "other" ELSE "free"]
    /\ UNCHANGED <<pidFile, stage, pc, pid, status, ended, stages, faults, strays, unread>>

-----------------------------------------------------------------------------
StageStep ==
    \/ TestPidFile \/ SpawnListener \/ OpenPidFile \/ WritePid
    \/ ReadPidFile \/ RemovePidFile \/ KillPid
    \/ WriteStatus \/ BadMetadata \/ ExitProcess

Next ==
    \/ \E s \in {"configure", "cleanup"} : StartStage(s)
    \/ StageStep \/ Killed
    \/ \E p \in Pids : ListenerDies(p) \/ OtherProcess(p)

Spec == Init /\ [][Next]_vars

-----------------------------------------------------------------------------
TypeOK ==
    /\ procs \in [Pids -> {"free", "listener", "other"}]
    /\ pidFile \in Pids \cup {NoPid, NoFile}
    /\ stage \in {"none", "configure", "cleanup"}
    /\ pc \in {"none", "test", "spawn", "open", "write", "status",
               "read", "remove", "kill", "exit"}
    /\ pid \in Pids \cup {NoPid}
    /\ status \in {"none", "ok", "error"}
    /\ ended \in {"none", "exit0", "exit1", "killed"}
    /\ stages \in Nat /\ faults \in Nat
    /\ strays \subseteq Pids
    /\ unread \subseteq Pids

\* Every listener can be found again: its pid is in the file, or the stage under way
\* holds it, unless recording it failed or the stage process was killed while it held it.
EveryListenerIsFound ==
    \A p \in Listeners \ strays : pidFile = p \/ (pc \in {"open", "write", "kill"} /\ pid = p)

\* A cleanup stage that has ended by itself leaves no listener but the lost ones and, when
\* it could not read the pid file, the one the file names; the file is still there for the
\* next cleanup.
CleanupLeavesNoListener ==
    [][(stage = "cleanup" /\ ended' = "exit0") => Listeners \subseteq strays \cup unread]_vars

\* "This ensures that the execute_stage method can catch the error, write the JSON status
\* file, and log the traceback" (apps/scorch/app.py): a stage process that ends by itself
\* has written its status file.
EndedHasStatus == ended \in {"exit0", "exit1"} => status # "none"
=============================================================================
