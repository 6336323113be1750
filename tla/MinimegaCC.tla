----------------------------- MODULE MinimegaCC -----------------------------
(***************************************************************************)
(* The minimega command-and-control (cc) queue of one namespace, shared by *)
(* every Scorch component of an experiment, and the helpers of             *)
(* phenix_apps/common/utils.py through which the components use it.        *)
(*                                                                         *)
(* minimega keeps ONE filter per namespace and ONE queue of commands.  A   *)
(* component targets a VM with two calls: it sets the filter, then creates *)
(* a command, and minimega copies into the command whatever the filter is  *)
(* at that moment.  mm_exec_wait then polls the queue until the command    *)
(* has a response, looks the VM's UUID up, waits for the exit code and     *)
(* reads the output.  A foreground component runs its stage alone; a       *)
(* background component interleaves its calls with everyone else's.        *)
(*                                                                         *)
(* Whatever an agent sends back is matched by the command's id alone, and  *)
(* a reset may start the ids over: an answer that comes late, or that a    *)
(* reset left behind, then passes for that of a new command.               *)
(***************************************************************************)
EXTENDS Integers, FiniteSets

CONSTANTS
    Components,    \* component processes, all in the same namespace
    VMs,           \* VMs of the experiment, each running a miniccc agent
    Jobs,          \* the operations the components of the experiment perform
    ExitCodes,     \* what a program run in a VM may exit with
    Concurrent,    \* TRUE: background components run beside the others
    MaxOps,        \* bound: operations begun in a behaviour
    MaxReboots     \* bound: times an agent is lost

ASSUME ConstantsAssumption ==
    /\ ExitCodes \subseteq Nat /\ ExitCodes # {}
    /\ Concurrent \in BOOLEAN
    /\ MaxOps \in Nat /\ MaxReboots \in Nat

VARIABLES
    \* minimega: the namespace's cc state
    filter,        \* the VMs the current filter selects (all when cleared)
    commands,      \* the command queue
    nextId,        \* id of the next command
    responses,     \* the responses stored, one per id and VM
    codes,         \* the exit codes recorded, one per id and VM
    \* the miniccc agents
    active,        \* VMs whose agent is registered under its hostname
    taken,         \* which agent has taken which queued command
    working,       \* programs the agents are running
    exiting,       \* responses counted whose exit code is not recorded yet
    reboots,
    \* the components
    running,       \* components that execute a stage
    pc,            \* next minimega call of each component
    job,           \* the operation in hand: what the caller asked for
    cmdId,         \* the id mm_command_id read from the response
    ticks,         \* mm_wait_for_cmd's counter
    uuidFound,     \* FALSE when mm_vm_uuid returned None
    outcome,       \* how the last operation ended
    result,        \* the exit-code row mm_exec_wait returns, as a set of at most one
    \* history, for the properties only
    begun,         \* operations begun; numbers them
    asked,         \* what each operation that creates a command was to do
    mine,          \* the number of each component's operation
    disturbed,     \* the operation overlapped another component's reset
    stale,         \* the operation's command got an id with something left under it
    runs           \* every execution: [op, vm, code]

mmVars    == <<filter, commands, nextId, responses, codes>>
agentVars == <<active, taken, working, exiting, reboots, runs>>
opVars    == <<job, begun, asked, mine, disturbed>>
localVars == <<cmdId, ticks, uuidFound, result, stale>>
vars      == <<mmVars, agentVars, opVars, localVars, running, pc, outcome>>

Kinds == {"execWait",      \* mm_exec_wait
          "sendFile",      \* cc_send and mm_wait_for_cmd
          "exec",          \* filter and exec, the answer is not awaited
          "background",    \* filter, exec and clear the filter
          "unfiltered",    \* exec under the filter that happens to be set
          "reset",         \* the cc component's reset
          "clearQueue"}    \* the iperf component's clearing of the queue

ResetPcs == {"rFilter", "rDelCmd", "rDelResp", "rClrCmd", "rClrResp"}
WaitPcs  == {"poll", "uuid", "exitcode", "output"}
Pcs      == {"idle", "client", "filter", "issue", "clear"} \cup WaitPcs \cup ResetPcs

Outcomes == {"none", "ok", "noClient", "waitTimeout", "noExitCode", "typeError"}

Command == [id : Nat, op : Nat, to : SUBSET VMs, kind : Kinds, once : BOOLEAN]
Execution == [op : Nat, vm : VMs, code : ExitCodes]
Response == [id : Nat, vm : VMs]
Work    == [id : Nat, vm : VMs, kind : Kinds, run : Execution]
Exit    == [id : Nat, vm : VMs, run : Execution]
Job     == [kind : Kinds, vms : SUBSET VMs, once : BOOLEAN, timeout : Nat]

Request == [op : Nat, by : Components, vms : SUBSET VMs, once : BOOLEAN]

\* The operations, by what their callers ask for.
ExecWait(v, once, t) == [kind |-> "execWait", vms |-> {v}, once |-> once, timeout |-> t]
SendFile(v)          == [kind |-> "sendFile", vms |-> {v}, once |-> TRUE, timeout |-> 0]
Exec(vs, once)       == [kind |-> "exec", vms |-> vs, once |-> once, timeout |-> 0]
BackgroundExec(vs, once) == [kind |-> "background", vms |-> vs, once |-> once, timeout |-> 0]
Unfiltered(vs)       == [kind |-> "unfiltered", vms |-> vs, once |-> FALSE, timeout |-> 0]
Reset                == [kind |-> "reset", vms |-> {}, once |-> TRUE, timeout |-> 0]
ClearQueue           == [kind |-> "clearQueue", vms |-> {}, once |-> TRUE, timeout |-> 0]

\* Everything the components may do with the queue.
IsJob(j) ==
    \/ \E v \in VMs, once \in BOOLEAN :
        j.timeout \in Nat /\ j = ExecWait(v, once, j.timeout)
    \/ \E v \in VMs : j = SendFile(v)
    \/ \E vs \in SUBSET VMs, once \in BOOLEAN :
        j \in {Exec(vs, once), BackgroundExec(vs, once)}
    \/ j \in {Unfiltered(VMs), Reset, ClearQueue}

ASSUME JobsAssumption == \A j \in Jobs : IsJob(j)

NoJob == Exec({}, TRUE)

Busy(c)      == pc[c] # "idle"
Resetting(c) == pc[c] \in ResetPcs

Init ==
    /\ filter = VMs /\ commands = {} /\ nextId = 1
    /\ responses = {} /\ codes = {}
    /\ active = {} /\ taken = {} /\ working = {} /\ exiting = {} /\ reboots = 0
    /\ running = {}
    /\ pc = [c \in Components |-> "idle"]
    /\ job = [c \in Components |-> NoJob]
    /\ cmdId = [c \in Components |-> 0]
    /\ ticks = [c \in Components |-> 0]
    /\ uuidFound = [c \in Components |-> TRUE]
    /\ outcome = [c \in Components |-> "none"]
    /\ result = [c \in Components |-> {}]
    /\ begun = 0 /\ asked = {}
    /\ mine = [c \in Components |-> 0]
    /\ disturbed = [c \in Components |-> FALSE]
    /\ stale = [c \in Components |-> FALSE]
    /\ runs = {}

(***************************************************************************)
(* Stages.  Scorch runs a stage of a foreground component to its end       *)
(* before the next component's; an exception ends the stage.               *)
(***************************************************************************)
StartStage(c) ==
    /\ c \notin running /\ begun < MaxOps
    /\ Concurrent \/ running = {}
    /\ running' = running \cup {c}
    /\ outcome' = [outcome EXCEPT ![c] = "none"]
    /\ UNCHANGED <<mmVars, agentVars, opVars, localVars, pc>>

EndStage(c) ==
    /\ c \in running /\ ~Busy(c)
    /\ running' = running \ {c}
    /\ UNCHANGED <<mmVars, agentVars, opVars, localVars, pc, outcome>>

Proceed(c, next) ==
    /\ pc' = [pc EXCEPT ![c] = next]
    /\ UNCHANGED <<running, outcome>>

Return(c) ==
    /\ pc' = [pc EXCEPT ![c] = "idle"]
    /\ outcome' = [outcome EXCEPT ![c] = "ok"]
    /\ UNCHANGED running

Raise(c, error) ==
    /\ pc' = [pc EXCEPT ![c] = "idle"]
    /\ outcome' = [outcome EXCEPT ![c] = error]
    /\ running' = running \ {c}

(***************************************************************************)
(* The operations a stage is made of.                                      *)
(***************************************************************************)
\* Mutant: a command sent to run in the background is not given a filter.
FirstCallNoFilter(kind) ==
    CASE kind = "execWait"   -> "client"
      [] kind \in {"unfiltered", "background"} -> "issue"
      [] kind = "reset"      -> "rFilter"
      [] kind = "clearQueue" -> "rClrCmd"
      [] OTHER               -> "filter"

FirstCall(kind) ==
    CASE kind = "execWait"   -> "client"
      [] kind = "unfiltered" -> "issue"
      [] kind = "reset"      -> "rFilter"
      [] kind = "clearQueue" -> "rClrCmd"
      [] OTHER               -> "filter"

\* An operation that overlaps another component's reset is marked disturbed.
Overlaps(c, kind) ==
    [d \in Components |->
        IF d = c
        THEN \E e \in Components \ {c} : Resetting(e)
        ELSE disturbed[d] \/ (kind \in {"reset", "clearQueue"} /\ Busy(d))]

Begin(c, j) ==
    /\ c \in running /\ ~Busy(c)
    /\ begun < MaxOps
    /\ begun' = begun + 1
    /\ mine' = [mine EXCEPT ![c] = begun + 1]
    /\ asked' = IF FirstCall(j.kind) \in ResetPcs THEN asked
                ELSE asked \cup {[op |-> begun + 1, by |-> c, vms |-> j.vms, once |-> j.once]}
    /\ job' = [job EXCEPT ![c] = j]
    /\ disturbed' = Overlaps(c, j.kind)
    /\ pc' = [pc EXCEPT ![c] = FirstCall(j.kind)]
    /\ outcome' = [outcome EXCEPT ![c] = "none"]
    /\ cmdId' = [cmdId EXCEPT ![c] = 0]
    /\ ticks' = [ticks EXCEPT ![c] = 0]
    /\ uuidFound' = [uuidFound EXCEPT ![c] = TRUE]
    /\ result' = [result EXCEPT ![c] = {}]
    /\ stale' = [stale EXCEPT ![c] = FALSE]
    /\ UNCHANGED <<mmVars, agentVars, running>>

BeginJob(c) == \E j \in Jobs : Begin(c, j)

\* tcpdump's stop: "rm" goes where the mm_exec_wait before it left the filter.
BeginFollowUp(c) ==
    /\ job[c].kind = "execWait" /\ outcome[c] = "ok"
    /\ Begin(c, Unfiltered(job[c].vms))

(***************************************************************************)
(* mm_cc_client_active: the VM's agent must be registered; the deadline    *)
(* CC_CLIENT_GRACE may pass at any poll that does not see it.              *)
(***************************************************************************)
ClientActive(c) ==
    /\ pc[c] = "client"
    /\ job[c].vms \subseteq active
    /\ Proceed(c, "filter")
    /\ UNCHANGED <<mmVars, agentVars, opVars, localVars>>

ClientMissing(c) ==
    /\ pc[c] = "client"
    /\ ~(job[c].vms \subseteq active)
    /\ Raise(c, "noClient")
    /\ UNCHANGED <<mmVars, agentVars, opVars, localVars>>

SetFilter(c) ==
    /\ pc[c] = "filter"
    /\ filter' = job[c].vms
    /\ Proceed(c, "issue")
    /\ UNCHANGED <<commands, nextId, responses, codes, agentVars, opVars, localVars>>

\* Mutant: ids count back from the one the next command would get.
NewCommandBefore(c) ==
    [id |-> nextId - 2, op |-> mine[c], to |-> filter,
     kind |-> job[c].kind, once |-> job[c].once]

\* minimega creates the command under the namespace's filter and returns its id.
NewCommand(c) ==
    [id |-> nextId, op |-> mine[c], to |-> filter,
     kind |-> job[c].kind, once |-> job[c].once]

\* Something of an earlier command is still under way or stored under the id.
LeftUnder(id) == \E x \in working \cup exiting \cup codes \cup responses : x.id = id

Issue(c) ==
    /\ pc[c] = "issue"
    /\ commands' = commands \cup {NewCommand(c)}
    /\ nextId' = nextId + 1
    /\ cmdId' = [cmdId EXCEPT ![c] = nextId]
    /\ stale' = [stale EXCEPT ![c] = LeftUnder(nextId)]
    /\ \/ job[c].kind \in {"execWait", "sendFile"} /\ Proceed(c, "poll")
       \/ job[c].kind = "background" /\ Proceed(c, "clear")
       \/ job[c].kind \in {"exec", "unfiltered"} /\ Return(c)
    /\ UNCHANGED <<filter, responses, codes, agentVars, opVars, ticks, uuidFound, result>>

\* Mutant: the queue is cleared together with the filter.
ClearFilterAndQueue(c) ==
    /\ pc[c] = "clear"
    /\ filter' = VMs
    /\ commands' = {}
    /\ Return(c)
    /\ UNCHANGED <<nextId, responses, codes, agentVars, opVars, localVars>>

ClearFilter(c) ==
    /\ pc[c] = "clear"
    /\ filter' = VMs
    /\ Return(c)
    /\ UNCHANGED <<commands, nextId, responses, codes, agentVars, opVars, localVars>>

(***************************************************************************)
(* mm_wait_for_cmd: one action per iteration of the loop.  The timeout is  *)
(* tested after the queue has been read, whatever was found there.         *)
(***************************************************************************)
\* Mutant: the row's id, a string, is compared with the id as a number.
NeverAnswered(c) == FALSE

Queued(id) == \E k \in commands : k.id = id

\* Mutant: the queue's last row is taken for the command's.
AnsweredByLast(c) == Queued(nextId - 1) /\ \E r \in responses : r.id = nextId - 1

\* The id has a row in "cc commands", and it counts at least one response.
Answered(c) == Queued(cmdId[c]) /\ \E r \in responses : r.id = cmdId[c]

WaitExpired(c) == job[c].timeout > 0 /\ ticks[c] > job[c].timeout

AfterWait(c) == IF job[c].kind = "execWait" THEN "uuid" ELSE "clear"

PollAnswered(c) ==
    /\ pc[c] = "poll"
    /\ Answered(c) /\ ~WaitExpired(c)
    /\ Proceed(c, AfterWait(c))
    /\ UNCHANGED <<mmVars, agentVars, opVars, localVars>>

PollAgain(c) ==
    /\ pc[c] = "poll"
    /\ ~Answered(c) /\ ~WaitExpired(c)
    /\ job[c].timeout > 0          \* with no timeout another turn changes nothing
    /\ ticks' = [ticks EXCEPT ![c] = @ + 1]
    /\ UNCHANGED <<mmVars, agentVars, opVars, cmdId, uuidFound, result, stale, running, pc,
                   outcome>>

PollExpired(c) ==
    /\ pc[c] = "poll"
    /\ WaitExpired(c)
    /\ Raise(c, "waitTimeout")
    /\ UNCHANGED <<mmVars, agentVars, opVars, localVars>>

(***************************************************************************)
(* The rest of mm_exec_wait.                                               *)
(***************************************************************************)
\* mm_vm_uuid; "vm info" may have no row for the VM, and then it returns None.
LookupUuid(c) ==
    /\ pc[c] = "uuid"
    /\ \E found \in BOOLEAN : uuidFound' = [uuidFound EXCEPT ![c] = found]
    /\ Proceed(c, "exitcode")
    /\ UNCHANGED <<mmVars, agentVars, opVars, cmdId, ticks, result, stale>>

\* Mutant: the id is that of the newest command, as mm_last_command reads it.
ExitRowsOfLast(c) == {e \in codes : e.id = nextId - 1 /\ e.vm \in job[c].vms}

\* Mutant: any exit code the VM has is taken.
ExitRowsOfVM(c) == {e \in codes : e.vm \in job[c].vms}

\* The rows that carry a code: only the host of the VM has one.
ExitRows(c) == {e \in codes : e.id = cmdId[c] /\ e.vm \in job[c].vms}

ExitCodeFound(c) ==
    /\ pc[c] = "exitcode"
    /\ \E e \in ExitRows(c) : result' = [result EXCEPT ![c] = {e.run}]
    /\ Proceed(c, "output")
    /\ UNCHANGED <<mmVars, agentVars, opVars, cmdId, ticks, uuidFound, stale>>

ExitCodeMissing(c) ==
    /\ pc[c] = "exitcode"
    /\ ExitRows(c) = {}
    /\ Raise(c, "noExitCode")
    /\ UNCHANGED <<mmVars, agentVars, opVars, localVars>>

OutputRows(c) == {r \in responses : r.id = cmdId[c]}

\* "uuid not in resp" is a TypeError when uuid is None and there is a row.
ReadOutput(c) ==
    /\ pc[c] = "output"
    /\ IF uuidFound[c] \/ OutputRows(c) = {} THEN Return(c) ELSE Raise(c, "typeError")
    /\ UNCHANGED <<mmVars, agentVars, opVars, localVars>>

(***************************************************************************)
(* The cc component's reset and the clearing at the end of iperf's         *)
(* configure: one minimega call each.  "clear cc commands" may start the   *)
(* ids over; the code does not depend on it, so both are allowed.          *)
(***************************************************************************)
ResetFilter(c) ==
    /\ pc[c] = "rFilter"
    /\ filter' = VMs
    /\ Proceed(c, "rDelCmd")
    /\ UNCHANGED <<commands, nextId, responses, codes, agentVars, opVars, localVars>>

ResetCommands(c) ==
    /\ \/ pc[c] = "rDelCmd" /\ nextId' = nextId /\ Proceed(c, "rDelResp")
       \/ pc[c] = "rClrCmd" /\ nextId' \in {1, nextId} /\ Proceed(c, "rClrResp")
    /\ commands' = {} /\ taken' = {}
    /\ UNCHANGED <<filter, responses, codes, active, working, exiting, reboots, runs,
                   opVars, localVars>>

ResetResponses(c) ==
    /\ \/ pc[c] = "rDelResp" /\ Proceed(c, "rClrCmd")
       \/ pc[c] = "rClrResp" /\ Return(c)
    /\ responses' = {} /\ codes' = {}
    /\ UNCHANGED <<filter, commands, nextId, agentVars, opVars, localVars>>

(***************************************************************************)
(* The miniccc agents (external).  An agent that connects is sent every    *)
(* queued command its VM matches, the non-"once" ones again after each     *)
(* reconnection.  It runs the program, and a reboot on the way may end it  *)
(* for good.  Its answer carries the command's id: the response is counted *)
(* before the exit code is recorded, and both go to whatever command has   *)
(* that id by then.  When none has, they may be dropped or stored.         *)
(***************************************************************************)
Connect(v) ==
    /\ v \notin active
    /\ active' = active \cup {v}
    /\ taken' = {t \in taken : t[2] = v => \E k \in commands : k.id = t[1] /\ k.once}
    /\ UNCHANGED <<mmVars, working, exiting, reboots, runs, opVars, localVars, running, pc,
                   outcome>>

Disconnect(v) ==
    /\ v \in active /\ reboots < MaxReboots
    /\ active' = active \ {v}
    /\ reboots' = reboots + 1
    /\ working' \in {working, {w \in working : w.vm # v}}
    /\ UNCHANGED <<mmVars, taken, exiting, runs, opVars, localVars, running, pc, outcome>>

\* The agent starts the program; the exit code it will end with is chosen here.
TakeCommand(v) ==
    \E k \in commands, x \in ExitCodes :
        /\ v \in active /\ v \in k.to /\ <<k.id, v>> \notin taken
        /\ LET run == [op |-> k.op, vm |-> v, code |-> x]
           IN  /\ runs' = runs \cup {run}
               /\ working' = working \cup {[id |-> k.id, vm |-> v, kind |-> k.kind, run |-> run]}
        /\ taken' = taken \cup {<<k.id, v>>}
        /\ UNCHANGED <<mmVars, active, exiting, reboots, opVars, localVars, running, pc, outcome>>

StoreResponse(w) ==
    /\ responses' = responses \cup {[id |-> w.id, vm |-> w.vm]}
    /\ exiting' = IF w.kind = "sendFile" THEN exiting
                  ELSE exiting \cup {[id |-> w.id, vm |-> w.vm, run |-> w.run]}

FinishCommand(v) ==
    \E w \in working :
        /\ v \in active /\ w.vm = v
        /\ working' = working \ {w}
        /\ \/ StoreResponse(w)
           \/ ~Queued(w.id) /\ UNCHANGED <<responses, exiting>>
        /\ UNCHANGED <<filter, commands, nextId, codes, active, taken, reboots, runs,
                       opVars, localVars, running, pc, outcome>>

RecordExit(v) ==
    \E e \in exiting :
        /\ e.vm = v
        /\ exiting' = exiting \ {e}
        /\ \/ codes' = {f \in codes : f.id # e.id \/ f.vm # v} \cup {e}
           \/ ~Queued(e.id) /\ UNCHANGED codes
        /\ UNCHANGED <<filter, commands, nextId, responses, active, taken, working, reboots, runs,
                       opVars, localVars, running, pc, outcome>>

-----------------------------------------------------------------------------
ExecWaitStep(c) ==
    \/ ClientActive(c) \/ ClientMissing(c) \/ SetFilter(c) \/ Issue(c) \/ ClearFilter(c)
    \/ PollAnswered(c) \/ PollAgain(c) \/ PollExpired(c)
    \/ LookupUuid(c) \/ ExitCodeFound(c) \/ ExitCodeMissing(c) \/ ReadOutput(c)

ResetStep(c) == ResetFilter(c) \/ ResetCommands(c) \/ ResetResponses(c)

BeginStep(c) == BeginJob(c) \/ BeginFollowUp(c)

ComponentStep(c) == ExecWaitStep(c) \/ ResetStep(c)

AgentStep(v) == TakeCommand(v) \/ FinishCommand(v) \/ RecordExit(v)

Next ==
    \/ \E c \in Components :
        StartStage(c) \/ EndStage(c) \/ BeginStep(c) \/ ComponentStep(c)
    \/ \E v \in VMs : Connect(v) \/ Disconnect(v) \/ AgentStep(v)

Spec == Init /\ [][Next]_vars

\* The host schedules a component that has a call to make, and an agent that is connected
\* works its queue off.  Nothing makes an agent that is away come back.
Fairness ==
    /\ \A c \in Components : WF_vars(ComponentStep(c))
    /\ \A v \in VMs :
        WF_vars(TakeCommand(v)) /\ WF_vars(FinishCommand(v)) /\ WF_vars(RecordExit(v))

FairSpec == Spec /\ Fairness

-----------------------------------------------------------------------------
TypeOK ==
    /\ filter \in SUBSET VMs
    /\ commands \in SUBSET Command
    /\ nextId \in Nat
    /\ responses \in SUBSET Response
    /\ codes \in SUBSET Exit
    /\ active \in SUBSET VMs
    /\ taken \in SUBSET (Nat \X VMs)
    /\ working \in SUBSET Work
    /\ exiting \in SUBSET Exit
    /\ reboots \in Nat
    /\ running \in SUBSET Components
    /\ pc \in [Components -> Pcs]
    /\ job \in [Components -> Job]
    /\ cmdId \in [Components -> Nat]
    /\ ticks \in [Components -> Nat]
    /\ uuidFound \in [Components -> BOOLEAN]
    /\ outcome \in [Components -> Outcomes]
    /\ result \in [Components -> SUBSET Execution]
    /\ begun \in Nat
    /\ asked \in SUBSET Request
    /\ mine \in [Components -> Nat]
    /\ disturbed \in [Components -> BOOLEAN]
    /\ stale \in [Components -> BOOLEAN]
    /\ runs \in SUBSET Execution

(***************************************************************************)
(* Properties                                                              *)
(***************************************************************************)
\* An mm_exec_wait that returns has the exit code of its own command, run by the VM it
\* was meant for, whatever the other components did to the filter and the queue and
\* however late the answers to earlier commands arrive, unless it overlapped a reset or
\* its command was given the id of an earlier one of which something was still left: the
\* id comes from the call that created the command (mm_command_id) and the exit code is
\* fetched for that VM alone.
ResultIsOwn ==
    \A c \in Components :
        (job[c].kind = "execWait" /\ outcome[c] = "ok" /\ ~disturbed[c] /\ ~stale[c])
            => \E e \in runs : e.op = mine[c] /\ e.vm \in job[c].vms /\ result[c] = {e}

\* The component has waited for a response of its command, and is past the wait.
WaitIsOver(c) == job[c].kind \in {"execWait", "sendFile"} /\ pc[c] = AfterWait(c)

HasRun(c) == \E r \in runs : r.op = mine[c]

\* "The command has completed (mm_wait_for_cmd saw a response)": a wait ends only when the
\* component's own program has been run, not by a late answer to another command, with the
\* same exceptions.
AnswerIsOwn ==
    \A c \in Components : (WaitIsOver(c) /\ ~disturbed[c] /\ ~stale[c]) => HasRun(c)

\* The same as the comment says it, of any component: what an earlier command has left
\* under the id ends no wait.
CompletedWhenAnswered == \A c \in Components : WaitIsOver(c) => HasRun(c)

\* A component only ever waits for a command that is in the queue under the id it
\* holds, and that command is its own: without a reset no call of another component
\* removes it or gives its id away, so a wait without timeout cannot hang for that.
CommandKept ==
    \A c \in Components :
        (pc[c] \in WaitPcs /\ ~disturbed[c])
            => \E k \in commands : k.id = cmdId[c] /\ k.op = mine[c]

\* A command a component creates for some VMs runs on no other VM.
RunsOnlyOnTarget ==
    \A r \in runs : \E a \in asked : a.op = r.op /\ r.vm \in a.vms

\* mm_exec_wait falls back to the VM's name when the UUID lookup comes back empty: it
\* does not fail for that.
FallsBackToName == \A c \in Components : outcome[c] # "typeError"

\* The component waits without a timeout for a VM whose agent is gone, or whose agent took
\* the command and lost it: nothing the code does ends that wait.
Lost(id, v) == v \notin active \/ (<<id, v>> \in taken /\ \A w \in working : w.id # id \/ w.vm # v)

Forsaken(c) ==
    /\ pc[c] = "poll" /\ job[c].timeout = 0
    /\ \A r \in responses : r.id # cmdId[c]
    /\ \A v \in job[c].vms : Lost(cmdId[c], v)

\* Every operation, whatever its kind, ends: it returns or raises, or it is left waiting
\* without a timeout for an agent that is gone or has lost the command.
EveryOperationEnds == \A c \in Components : Busy(c) ~> (~Busy(c) \/ Forsaken(c))

\* Components that run one at a time get what RemoteExec promises: mm_exec_wait's
\* several calls, the shared filter and the agents' reconnections look to each caller
\* like one program run where it was meant to run.  What is read under an id that an
\* earlier command had, with something of it left, is no answer.
HeldAnswer(c) == IF outcome[c] = "ok" /\ ~stale[c] THEN result[c] ELSE {}

Remote == INSTANCE RemoteExec WITH
    Ops <- 1 .. MaxOps, answer <- [c \in Components |-> HeldAnswer(c)]

ImplementsRemoteExec == Remote!Spec
=============================================================================
