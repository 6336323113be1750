---------------------------- MODULE KafkaProofs ----------------------------
(***************************************************************************)
(* Proofs about KafkaComponent, for any set of process ids and any number  *)
(* of stages and faults.                                                   *)
(***************************************************************************)
EXTENDS KafkaComponent, TLAPS

\* The stage a point of its code belongs to; a stage under way has not ended.
StageOfPc ==
    /\ stage = "none" <=> pc = "none"
    /\ stage = "configure" => pc \in {"test", "spawn", "open", "write", "status"}
    /\ stage = "cleanup" => pc \in {"read", "remove", "kill", "exit", "status"}
    /\ stage # "none" => ended = "none"

\* What the file holds while a stage is between two of its calls: only the stage under way
\* touches it.
FileFollowsStage ==
    /\ pc \in {"spawn", "open"} => pidFile = NoFile
    /\ pc = "write" => pidFile = NoPid
    /\ pc \in {"open", "write", "remove", "kill"} => pid \in Pids
    /\ pc = "remove" => pidFile = pid
    /\ pc = "kill" => pidFile \in {pid, NoFile}
    /\ pc = "exit" => pidFile \in {NoFile, NoPid} \cup unread

\* What cleanup is about to end with.
CleanedUp == stage = "cleanup" /\ pc = "status" => Listeners \subseteq strays

FoundInv ==
    /\ TypeOK /\ StageOfPc /\ FileFollowsStage /\ CleanedUp
    /\ strays \subseteq Listeners
    /\ EveryListenerIsFound

-----------------------------------------------------------------------------
LEMMA NoFileIsNoPid == NoFile \notin Pids /\ NoPid \notin Pids /\ NoFile # NoPid
  BY KafkaAssumption DEF NoFile, NoPid

LEMMA KafkaTypeInit == Init => TypeOK
  BY DEF Init, TypeOK

LEMMA KafkaTypeStep == TypeOK /\ [Next]_vars => TypeOK'
  <1> SUFFICES ASSUME TypeOK, [Next]_vars PROVE TypeOK'
    OBVIOUS
  <1> USE DEF TypeOK, Goto, Fault, Lose, Listeners, EndStage
  <1>1. ASSUME NEW s \in {"configure", "cleanup"}, StartStage(s) PROVE TypeOK'
    BY <1>1 DEF StartStage
  <1>2. CASE TestPidFile
    BY <1>2 DEF TestPidFile
  <1>3. CASE SpawnListener
    BY <1>3 DEF SpawnListener
  <1>4. CASE OpenPidFile
    BY <1>4 DEF OpenPidFile
  <1>5. CASE WritePid
    BY <1>5 DEF WritePid
  <1>6. CASE ReadPidFile
    BY <1>6 DEF ReadPidFile
  <1>7. CASE RemovePidFile
    BY <1>7 DEF RemovePidFile
  <1>8. CASE KillPid
    BY <1>8 DEF KillPid
  <1>9. CASE WriteStatus \/ BadMetadata \/ ExitProcess
    BY <1>9 DEF WriteStatus, BadMetadata, ExitProcess
  <1>10. CASE Killed
    BY <1>10 DEF Killed
  <1>11. ASSUME NEW p \in Pids, ListenerDies(p) \/ OtherProcess(p) PROVE TypeOK'
    BY <1>11 DEF ListenerDies, OtherProcess
  <1>12. CASE UNCHANGED vars
    BY <1>12 DEF vars
  <1>. QED
    BY <1>1, <1>2, <1>3, <1>4, <1>5, <1>6, <1>7, <1>8, <1>9, <1>10, <1>11, <1>12
    DEF Next, StageStep

\* Every state of the component and its host is of its type.
THEOREM KafkaTypeCorrect == Spec => []TypeOK
  BY KafkaTypeInit, KafkaTypeStep, PTL DEF Spec

-----------------------------------------------------------------------------
LEMMA FoundInvInit == Init => FoundInv
  BY KafkaTypeInit
  DEF Init, FoundInv, StageOfPc, FileFollowsStage, CleanedUp, EveryListenerIsFound, Listeners

LEMMA FoundInvStep == FoundInv /\ [Next]_vars => FoundInv'
  <1> SUFFICES ASSUME FoundInv, [Next]_vars PROVE FoundInv'
    OBVIOUS
  <1>0. TypeOK /\ TypeOK'
    BY KafkaTypeStep DEF FoundInv
  <1> USE DEF FoundInv, StageOfPc, FileFollowsStage, CleanedUp, EveryListenerIsFound,
              Listeners, Goto, Lose
  <1>1. ASSUME NEW s \in {"configure", "cleanup"}, StartStage(s) PROVE FoundInv'
    BY <1>0, <1>1 DEF StartStage
  <1>2. CASE TestPidFile
    BY <1>0, <1>2 DEF TestPidFile
  <1>3. CASE SpawnListener
    <2>1. ASSUME NEW p \in Pids, procs[p] = "free", Goto("open"), pid' = p,
                 procs' = [procs EXCEPT ![p] = "listener"], pc = "spawn",
                 UNCHANGED <<pidFile, strays>>
          PROVE  FoundInv'
      <3>1. Listeners' = Listeners \cup {p}
        BY <1>0, <2>1 DEF TypeOK
      <3>2. Listeners \subseteq strays
        BY <2>1, NoFileIsNoPid
      <3>. QED
        BY <1>0, <2>1, <3>1, <3>2
    <2>2. CASE Goto("status") /\ pc = "spawn" /\ UNCHANGED <<procs, pid, pidFile, strays>>
      BY <1>0, <2>2
    <2>. QED
      BY <1>3, <2>1, <2>2 DEF SpawnListener
  <1>4. CASE OpenPidFile
    BY <1>0, <1>4, NoFileIsNoPid DEF OpenPidFile
  <1>5. CASE WritePid
    BY <1>0, <1>5, NoFileIsNoPid DEF WritePid
  <1>6. CASE ReadPidFile
    BY <1>0, <1>6, NoFileIsNoPid DEF ReadPidFile, TypeOK
  <1>7. CASE RemovePidFile
    BY <1>0, <1>7 DEF RemovePidFile
  <1>8. CASE KillPid
    <2>1. Listeners' = Listeners \ {pid}
      BY <1>0, <1>8 DEF KillPid, TypeOK
    <2>2. Listeners \ strays \subseteq {pid}
      BY <1>8, NoFileIsNoPid DEF KillPid
    <2>. QED
      BY <1>0, <1>8, <2>1, <2>2 DEF KillPid
  <1>9. CASE WriteStatus \/ BadMetadata \/ ExitProcess
    BY <1>0, <1>9 DEF WriteStatus, BadMetadata, ExitProcess, EndStage
  <1>10. CASE Killed
    BY <1>0, <1>10 DEF Killed, EndStage
  <1>11. ASSUME NEW p \in Pids, ListenerDies(p) PROVE FoundInv'
    <2>1. Listeners' = Listeners \ {p}
      BY <1>0, <1>11 DEF ListenerDies, TypeOK
    <2>. QED
      BY <1>0, <1>11, <2>1 DEF ListenerDies
  <1>12. ASSUME NEW p \in Pids, OtherProcess(p) PROVE FoundInv'
    <2>1. Listeners' = Listeners
      BY <1>0, <1>12 DEF OtherProcess, TypeOK
    <2>. QED
      BY <1>0, <1>12, <2>1 DEF OtherProcess
  <1>13. CASE UNCHANGED vars
    BY <1>0, <1>13 DEF vars
  <1>. QED
    BY <1>1, <1>2, <1>3, <1>4, <1>5, <1>6, <1>7, <1>8, <1>9, <1>10, <1>11, <1>12, <1>13
    DEF Next, StageStep

LEMMA FoundInvAlways == Spec => []FoundInv
  BY FoundInvInit, FoundInvStep, PTL DEF Spec

\* configure and cleanup may be killed or fail at any call, pids may be used again: no
\* listener is ever running whose pid neither the file nor the stage under way holds,
\* except those the component has logged, or was killed before logging, as lost.
THEOREM ListenersAreFound == Spec => []EveryListenerIsFound
  <1>1. FoundInv => EveryListenerIsFound
    BY DEF FoundInv
  <1>. QED
    BY <1>1, FoundInvAlways, PTL

\* When a cleanup that was not killed ends, whether it killed a listener or found nothing
\* to kill, no listener is left but the lost ones; one that could not read the pid file
\* leaves at most the listener the file names.
THEOREM CleanupCleansUp == Spec => CleanupLeavesNoListener
  <1>1. FoundInv /\ [Next]_vars =>
            [(stage = "cleanup" /\ ended' = "exit0") => Listeners \subseteq strays \cup unread]_vars
    <2> SUFFICES ASSUME FoundInv, Next, stage = "cleanup", ended' = "exit0"
                 PROVE  Listeners \subseteq strays \cup unread
      BY DEF vars
    <2>1. ended = "none"
      BY DEF FoundInv, StageOfPc
    <2>2. WriteStatus \/ ExitProcess
      BY <2>1 DEF Next, StartStage, StageStep, TestPidFile, SpawnListener, OpenPidFile, WritePid,
         ReadPidFile, RemovePidFile, KillPid, BadMetadata, Killed, EndStage, Goto, ListenerDies,
         OtherProcess
    <2>3. CASE WriteStatus
      BY <2>3 DEF WriteStatus, FoundInv, CleanedUp
    <2>4. CASE ExitProcess
      BY <2>4, NoFileIsNoPid DEF ExitProcess, FoundInv, FileFollowsStage, EveryListenerIsFound,
         Listeners
    <2> QED
      BY <2>2, <2>3, <2>4
  <1>. QED
    BY <1>1, FoundInvAlways, PTL DEF Spec, CleanupLeavesNoListener
=============================================================================
