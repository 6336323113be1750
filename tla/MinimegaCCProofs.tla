------------------------- MODULE MinimegaCCProofs -------------------------
(***************************************************************************)
(* Proofs about MinimegaCC, for any number of components, VMs, operations  *)
(* and reboots.                                                            *)
(***************************************************************************)
EXTENDS MinimegaCC, TLAPS

\* The operations are well-typed, and none starts at an unknown call.
LEMMA JobsTyped ==
    ASSUME NEW j \in Jobs
    PROVE  j \in Job
  <1>1. IsJob(j)
    BY JobsAssumption
  <1>2. ASSUME NEW v \in VMs, NEW once \in BOOLEAN, NEW t \in Nat
        PROVE  ExecWait(v, once, t) \in Job /\ SendFile(v) \in Job
    BY DEF ExecWait, SendFile, Job, Kinds
  <1>3. ASSUME NEW vs \in SUBSET VMs, NEW once \in BOOLEAN
        PROVE  Exec(vs, once) \in Job /\ BackgroundExec(vs, once) \in Job
    BY DEF Exec, BackgroundExec, Job, Kinds
  <1>4. Unfiltered(VMs) \in Job /\ Reset \in Job /\ ClearQueue \in Job
    BY DEF Unfiltered, Reset, ClearQueue, Job, Kinds
  <1>. QED
    BY <1>1, <1>2, <1>3, <1>4 DEF IsJob

LEMMA FirstCallTyped ==
    ASSUME NEW kind \in Kinds
    PROVE  /\ FirstCall(kind) \in Pcs \ (WaitPcs \cup {"idle", "clear", "rClrResp"})
           /\ FirstCall(kind) \in ResetPcs <=> kind \in {"reset", "clearQueue"}
  BY DEF FirstCall, Kinds, Pcs, WaitPcs, ResetPcs

LEMMA NewCommandTyped ==
    ASSUME TypeOK, NEW c \in Components
    PROVE  NewCommand(c) \in Command
  BY DEF TypeOK, NewCommand, Command, Job

LEMMA TypeCorrectInit == Init => TypeOK
  BY DEF Init, TypeOK, Pcs, Job, NoJob, Exec, Kinds, Outcomes

LEMMA TypeCorrectStep == TypeOK /\ [Next]_vars => TypeOK'
  <1> SUFFICES ASSUME TypeOK, [Next]_vars PROVE TypeOK'
    OBVIOUS
  <1> USE DEF mmVars, agentVars, opVars, localVars
  <1>1. ASSUME NEW c \in Components, StartStage(c) PROVE TypeOK'
    BY <1>1 DEF TypeOK, StartStage, Outcomes
  <1>2. ASSUME NEW c \in Components, EndStage(c) PROVE TypeOK'
    BY <1>2 DEF TypeOK, EndStage
  <1>3. ASSUME NEW c \in Components, BeginStep(c) PROVE TypeOK'
    <2>1. PICK j \in Job : Begin(c, j)
      BY <1>3, JobsTyped DEF BeginStep, BeginJob, BeginFollowUp, TypeOK, Unfiltered, Job, Kinds
    <2>2. FirstCall(j.kind) \in Pcs
      BY FirstCallTyped DEF Job
    <2>3. asked' \in SUBSET Request
      BY <2>1 DEF Begin, TypeOK, Request, Job
    <2>4. disturbed' \in [Components -> BOOLEAN]
      BY <2>1 DEF Begin, Overlaps, TypeOK
    <2>. QED
      BY <2>1, <2>2, <2>3, <2>4 DEF Begin, TypeOK, Outcomes
  <1>4. ASSUME NEW c \in Components, ComponentStep(c) PROVE TypeOK'
    <2>1. CASE ClientActive(c)
      BY <2>1 DEF ClientActive, Proceed, TypeOK, Pcs
    <2>2. CASE ClientMissing(c)
      BY <2>2 DEF ClientMissing, Raise, TypeOK, Pcs, Outcomes
    <2>3. CASE SetFilter(c)
      BY <2>3 DEF SetFilter, Proceed, TypeOK, Pcs, Job
    <2>4. CASE Issue(c)
      <3>1. LeftUnder(nextId) \in BOOLEAN
        BY DEF LeftUnder
      <3>. QED
        BY <2>4, <3>1, NewCommandTyped DEF Issue, Proceed, Return, TypeOK, Pcs, WaitPcs, Outcomes
    <2>5. CASE ClearFilter(c)
      BY <2>5 DEF ClearFilter, Return, TypeOK, Pcs, Outcomes
    <2>6. CASE PollAnswered(c)
      BY <2>6 DEF PollAnswered, AfterWait, Proceed, TypeOK, Pcs, WaitPcs
    <2>7. CASE PollAgain(c)
      BY <2>7 DEF PollAgain, TypeOK
    <2>8. CASE PollExpired(c)
      BY <2>8 DEF PollExpired, Raise, TypeOK, Pcs, Outcomes
    <2>9. CASE LookupUuid(c)
      BY <2>9 DEF LookupUuid, Proceed, TypeOK, Pcs, WaitPcs
    <2>10. CASE ExitCodeFound(c)
      <3>1. PICK e \in ExitRows(c) : result' = [result EXCEPT ![c] = {e.run}]
        BY <2>10 DEF ExitCodeFound
      <3>2. result' \in [Components -> SUBSET Execution]
        BY <3>1 DEF ExitRows, TypeOK, Exit
      <3>. QED
        BY <2>10, <3>2 DEF ExitCodeFound, Proceed, TypeOK, Pcs, WaitPcs
    <2>11. CASE ExitCodeMissing(c)
      BY <2>11 DEF ExitCodeMissing, Raise, TypeOK, Pcs, Outcomes
    <2>12. CASE ReadOutput(c)
      BY <2>12 DEF ReadOutput, Return, Raise, TypeOK, Pcs, Outcomes
    <2>13. CASE ResetFilter(c)
      BY <2>13 DEF ResetFilter, Proceed, TypeOK, Pcs, ResetPcs
    <2>14. CASE ResetCommands(c)
      BY <2>14 DEF ResetCommands, Proceed, TypeOK, Pcs, ResetPcs
    <2>15. CASE ResetResponses(c)
      BY <2>15 DEF ResetResponses, Proceed, Return, TypeOK, Pcs, ResetPcs, Outcomes
    <2>. QED
      BY <1>4, <2>1, <2>2, <2>3, <2>4, <2>5, <2>6, <2>7, <2>8, <2>9, <2>10, <2>11,
         <2>12, <2>13, <2>14, <2>15 DEF ComponentStep, ExecWaitStep, ResetStep
  <1>5. ASSUME NEW v \in VMs, Connect(v) \/ Disconnect(v) PROVE TypeOK'
    BY <1>5 DEF Connect, Disconnect, TypeOK
  <1>6. ASSUME NEW v \in VMs, TakeCommand(v) PROVE TypeOK'
    <2>1. PICK k \in commands, x \in ExitCodes :
            /\ taken' = taken \cup {<<k.id, v>>}
            /\ runs' = runs \cup {[op |-> k.op, vm |-> v, code |-> x]}
            /\ working' = working \cup {[id |-> k.id, vm |-> v, kind |-> k.kind,
                                         run |-> [op |-> k.op, vm |-> v, code |-> x]]}
            /\ UNCHANGED <<mmVars, active, exiting, reboots, opVars, localVars, running, pc, outcome>>
      BY <1>6 DEF TakeCommand
    <2>2. k.id \in Nat /\ k.op \in Nat /\ k.kind \in Kinds
      BY DEF TypeOK, Command
    <2>. QED
      BY <2>1, <2>2 DEF TypeOK, Work, Execution
  <1>7. ASSUME NEW v \in VMs, FinishCommand(v) PROVE TypeOK'
    <2>1. PICK w \in working :
            /\ working' = working \ {w}
            /\ StoreResponse(w) \/ UNCHANGED <<responses, exiting>>
            /\ UNCHANGED <<filter, commands, nextId, codes, active, taken, reboots, runs,
                           opVars, localVars, running, pc, outcome>>
      BY <1>7 DEF FinishCommand
    <2>2. w.id \in Nat /\ w.vm \in VMs /\ w.run \in Execution
      BY DEF TypeOK, Work
    <2>. QED
      BY <2>1, <2>2 DEF TypeOK, StoreResponse, Response, Exit
  <1>8. ASSUME NEW v \in VMs, RecordExit(v) PROVE TypeOK'
    <2>1. PICK e \in exiting :
            /\ exiting' = exiting \ {e}
            /\ codes' = {f \in codes : f.id # e.id \/ f.vm # v} \cup {e} \/ UNCHANGED codes
            /\ UNCHANGED <<filter, commands, nextId, responses, active, taken, working, reboots,
                           runs, opVars, localVars, running, pc, outcome>>
      BY <1>8 DEF RecordExit
    <2>. QED
      BY <2>1 DEF TypeOK
  <1>9. CASE UNCHANGED vars
    BY <1>9 DEF vars, TypeOK
  <1>. QED
    BY <1>1, <1>2, <1>3, <1>4, <1>5, <1>6, <1>7, <1>8, <1>9 DEF Next, AgentStep

\* Every variable keeps its type through the steps of MinimegaCC.
THEOREM TypeCorrect == Spec => []TypeOK
  BY TypeCorrectInit, TypeCorrectStep, PTL DEF Spec

-----------------------------------------------------------------------------
(***************************************************************************)
(* ResultIsOwn and CommandKept.  Neither is inductive: whether the row     *)
(* read for an id belongs to the caller's command rests on ids being       *)
(* unique in the queue, on nothing of an earlier command being left under  *)
(* the id, running or recorded, and on no other component being inside a   *)
(* reset.                                                                  *)
(***************************************************************************)
\* An id names at most one command of the queue, and none has the next id yet.
UniqueIds ==
    \A k \in commands :
        k.id < nextId /\ \A l \in commands : l.id = k.id => l = k

\* The programs that run, and the exit codes on their way or recorded.
Results == working \cup exiting \cup codes

\* While a component waits, and after, only its own command's executions are under its id,
\* when nothing was there as it got the id.
AnswersMatch ==
    \A c \in Components :
        (pc[c] \in WaitPcs /\ ~disturbed[c] /\ ~stale[c])
            => \A e \in Results : e.id = cmdId[c] => e.run.op = mine[c]

\* An exit code, recorded or to come, is that of an execution by the VM.
CodesRan == \A e \in Results : e.run \in runs /\ e.run.vm = e.vm

\* While an undisturbed operation is under way no other component resets.
QuietReset ==
    \A c, d \in Components :
        (c # d /\ Busy(c) /\ ~disturbed[c]) => ~Resetting(d)

\* The calls an operation is made of.
CallsOfJob ==
    \A c \in Components :
        /\ pc[c] \in {"uuid", "exitcode", "output"} => job[c].kind = "execWait"
        /\ pc[c] = "poll" => job[c].kind \in {"execWait", "sendFile"}
        /\ pc[c] \in {"clear"} \cup ResetPcs => job[c].kind # "execWait"
        /\ outcome[c] = "ok" => ~Busy(c)

\* From the exit code on, mm_exec_wait holds the row of its own command.
ResultRead ==
    \A c \in Components :
        (job[c].kind = "execWait" /\ ~disturbed[c] /\ ~stale[c]
         /\ (pc[c] = "output" \/ outcome[c] = "ok"))
            => \E e \in runs : e.op = mine[c] /\ e.vm \in job[c].vms /\ result[c] = {e}

OwnInv == /\ TypeOK
          /\ UniqueIds
          /\ AnswersMatch
          /\ CodesRan
          /\ QuietReset
          /\ CallsOfJob
          /\ CommandKept
          /\ ResultRead

LEMMA OwnInvInit == Init => OwnInv
  BY TypeCorrectInit DEF Init, OwnInv, UniqueIds, AnswersMatch, Results, CodesRan, QuietReset,
     CallsOfJob, CommandKept, ResultRead, Busy, Resetting, ResetPcs, WaitPcs

LEMMA OwnInvStep == OwnInv /\ [Next]_vars => OwnInv'
  <1> SUFFICES ASSUME OwnInv, [Next]_vars PROVE OwnInv'
    OBVIOUS
  <1>0. TypeOK /\ TypeOK'
    BY TypeCorrectStep DEF OwnInv
  <1> USE <1>0 DEF mmVars, agentVars, opVars, localVars
  <1>1. ASSUME NEW c \in Components, StartStage(c) PROVE OwnInv'
    <2>1. UniqueIds' /\ CodesRan'
      BY <1>1 DEF OwnInv, TypeOK, UniqueIds, CodesRan, Results, StartStage
    <2>2. QuietReset' /\ CallsOfJob'
      BY <1>1 DEF OwnInv, TypeOK, QuietReset, CallsOfJob, Busy, Resetting, ResetPcs, StartStage
    <2>3. CommandKept' /\ AnswersMatch' /\ ResultRead'
      BY <1>1 DEF OwnInv, TypeOK, CommandKept, AnswersMatch, Results, ResultRead, WaitPcs, StartStage
    <2>. QED
      BY <2>1, <2>2, <2>3 DEF OwnInv
  <1>2. ASSUME NEW c \in Components, EndStage(c) PROVE OwnInv'
    <2>1. UniqueIds' /\ CodesRan'
      BY <1>2 DEF OwnInv, TypeOK, UniqueIds, CodesRan, Results, EndStage
    <2>2. QuietReset' /\ CallsOfJob'
      BY <1>2 DEF OwnInv, TypeOK, QuietReset, CallsOfJob, Busy, Resetting, ResetPcs, EndStage
    <2>3. CommandKept' /\ AnswersMatch' /\ ResultRead'
      BY <1>2 DEF OwnInv, TypeOK, CommandKept, AnswersMatch, Results, ResultRead, WaitPcs, EndStage
    <2>. QED
      BY <2>1, <2>2, <2>3 DEF OwnInv
  <1>3. ASSUME NEW c \in Components, BeginStep(c) PROVE OwnInv'
    <2>1. PICK j \in Job : Begin(c, j)
      BY <1>3, JobsTyped DEF BeginStep, BeginJob, BeginFollowUp, TypeOK, Unfiltered, Job, Kinds
    <2> DEFINE p == FirstCall(j.kind)
    <2>2. /\ p \notin WaitPcs /\ p # "idle" /\ p # "clear" /\ p # "rClrResp"
          /\ p \in ResetPcs <=> j.kind \in {"reset", "clearQueue"}
      BY FirstCallTyped DEF Job
    <2>3. /\ pc' = [pc EXCEPT ![c] = p] /\ pc[c] = "idle"
          /\ job' = [job EXCEPT ![c] = j]
          /\ outcome' = [outcome EXCEPT ![c] = "none"]
          /\ disturbed' = Overlaps(c, j.kind)
          /\ \A d \in Components \ {c} :
              /\ mine'[d] = mine[d] /\ cmdId'[d] = cmdId[d] /\ result'[d] = result[d]
              /\ stale'[d] = stale[d]
          /\ UNCHANGED <<mmVars, agentVars>>
      BY <2>1 DEF Begin, Busy, TypeOK
    <2> HIDE DEF p
    <2>4. UniqueIds' /\ CodesRan'
      BY <2>2, <2>3 DEF OwnInv, TypeOK, UniqueIds, CodesRan, Results
    <2>5. QuietReset'
      BY <2>2, <2>3 DEF OwnInv, TypeOK, QuietReset, Overlaps, Busy, Resetting
    <2>6. CallsOfJob'
      BY <2>2, <2>3 DEF OwnInv, TypeOK, CallsOfJob, Busy, WaitPcs
    <2>7. \A d \in Components : disturbed'[d] = FALSE /\ d # c => ~disturbed[d]
      BY <2>3 DEF Overlaps, TypeOK
    <2>8. CommandKept' /\ AnswersMatch' /\ ResultRead'
      BY <2>2, <2>3, <2>7 DEF OwnInv, TypeOK, CommandKept, AnswersMatch, Results, ResultRead, WaitPcs
    <2>. QED
      BY <2>4, <2>5, <2>6, <2>8 DEF OwnInv
  <1>4. ASSUME NEW c \in Components, ClientActive(c) PROVE OwnInv'
    <2>1. UniqueIds' /\ CodesRan'
      BY <1>4 DEF OwnInv, TypeOK, UniqueIds, CodesRan, Results, ClientActive, Proceed
    <2>2. QuietReset' /\ CallsOfJob'
      BY <1>4 DEF OwnInv, TypeOK, QuietReset, CallsOfJob, Busy, Resetting, ResetPcs, ClientActive, Proceed
    <2>3. CommandKept' /\ AnswersMatch' /\ ResultRead'
      BY <1>4 DEF OwnInv, TypeOK, CommandKept, AnswersMatch, Results, ResultRead, WaitPcs, ClientActive, Proceed
    <2>. QED
      BY <2>1, <2>2, <2>3 DEF OwnInv
  <1>5. ASSUME NEW c \in Components, ClientMissing(c) PROVE OwnInv'
    <2>1. UniqueIds' /\ CodesRan'
      BY <1>5 DEF OwnInv, TypeOK, UniqueIds, CodesRan, Results, ClientMissing, Raise
    <2>2. QuietReset' /\ CallsOfJob'
      BY <1>5 DEF OwnInv, TypeOK, QuietReset, CallsOfJob, Busy, Resetting, ResetPcs, ClientMissing, Raise
    <2>3. CommandKept' /\ AnswersMatch' /\ ResultRead'
      BY <1>5 DEF OwnInv, TypeOK, CommandKept, AnswersMatch, Results, ResultRead, WaitPcs, ClientMissing, Raise
    <2>. QED
      BY <2>1, <2>2, <2>3 DEF OwnInv
  <1>6. ASSUME NEW c \in Components, SetFilter(c) PROVE OwnInv'
    <2>1. UniqueIds' /\ CodesRan'
      BY <1>6 DEF OwnInv, TypeOK, UniqueIds, CodesRan, Results, SetFilter, Proceed
    <2>2. QuietReset' /\ CallsOfJob'
      BY <1>6 DEF OwnInv, TypeOK, QuietReset, CallsOfJob, Busy, Resetting, ResetPcs, SetFilter, Proceed
    <2>3. CommandKept' /\ AnswersMatch' /\ ResultRead'
      BY <1>6 DEF OwnInv, TypeOK, CommandKept, AnswersMatch, Results, ResultRead, WaitPcs, SetFilter, Proceed
    <2>. QED
      BY <2>1, <2>2, <2>3 DEF OwnInv
  <1>7. ASSUME NEW c \in Components, Issue(c) PROVE OwnInv'
    <2> DEFINE k == NewCommand(c)
    <2>1. /\ commands' = commands \cup {k} /\ nextId' = nextId + 1
          /\ cmdId' = [cmdId EXCEPT ![c] = nextId]
          /\ k.id = nextId /\ k.op = mine[c]
          /\ stale' = [stale EXCEPT ![c] = LeftUnder(nextId)]
          /\ UNCHANGED <<codes, exiting, working, runs, opVars, result>>
      BY <1>7 DEF Issue, NewCommand
    <2>2. /\ \E p \in {"poll", "clear", "idle"} :
              /\ pc' = [pc EXCEPT ![c] = p]
              /\ p = "poll" => job[c].kind \in {"execWait", "sendFile"} /\ outcome' = outcome
              /\ p = "clear" => job[c].kind # "execWait" /\ outcome' = outcome
              /\ p = "idle" => job[c].kind # "execWait" /\ outcome' = [outcome EXCEPT ![c] = "ok"]
          /\ pc[c] = "issue"
      BY <1>7 DEF Issue, Proceed, Return
    <2> HIDE DEF k
    <2>3. UniqueIds' /\ CodesRan'
      BY <2>1 DEF OwnInv, TypeOK, UniqueIds, CodesRan, Results, Command
    <2>4. AnswersMatch'
      BY <2>1, <2>2 DEF OwnInv, TypeOK, AnswersMatch, Results, LeftUnder, WaitPcs
    <2>5. QuietReset' /\ CallsOfJob'
      BY <1>7 DEF OwnInv, TypeOK, QuietReset, CallsOfJob, Busy, Resetting, ResetPcs,
         Issue, Proceed, Return
    <2>6. CommandKept'
      BY <2>1, <2>2 DEF OwnInv, TypeOK, CommandKept, WaitPcs
    <2>7. ResultRead'
      BY <2>1, <2>2 DEF OwnInv, TypeOK, ResultRead, CallsOfJob, Busy
    <2>. QED
      BY <2>3, <2>4, <2>5, <2>6, <2>7 DEF OwnInv
  <1>8. ASSUME NEW c \in Components, ClearFilter(c) PROVE OwnInv'
    <2>1. UniqueIds' /\ CodesRan'
      BY <1>8 DEF OwnInv, TypeOK, UniqueIds, CodesRan, Results, ClearFilter, Return
    <2>2. QuietReset' /\ CallsOfJob'
      BY <1>8 DEF OwnInv, TypeOK, QuietReset, CallsOfJob, Busy, Resetting, ResetPcs, ClearFilter, Return
    <2>3. CommandKept' /\ AnswersMatch' /\ ResultRead'
      BY <1>8 DEF OwnInv, TypeOK, CommandKept, AnswersMatch, Results, ResultRead, CallsOfJob, WaitPcs, ClearFilter, Return
    <2>. QED
      BY <2>1, <2>2, <2>3 DEF OwnInv
  <1>9. ASSUME NEW c \in Components, PollAnswered(c) PROVE OwnInv'
    <2>1. UniqueIds' /\ CodesRan'
      BY <1>9 DEF OwnInv, TypeOK, UniqueIds, CodesRan, Results, PollAnswered, Answered, AfterWait, Proceed
    <2>2. QuietReset' /\ CallsOfJob'
      BY <1>9 DEF OwnInv, TypeOK, QuietReset, CallsOfJob, Busy, Resetting, ResetPcs, PollAnswered, Answered, AfterWait, Proceed
    <2>3. CommandKept' /\ AnswersMatch' /\ ResultRead'
      BY <1>9 DEF OwnInv, TypeOK, CommandKept, AnswersMatch, Results, ResultRead, WaitPcs, PollAnswered, Answered, AfterWait, Proceed
    <2>. QED
      BY <2>1, <2>2, <2>3 DEF OwnInv
  <1>10. ASSUME NEW c \in Components, PollAgain(c) PROVE OwnInv'
    <2>1. UniqueIds' /\ CodesRan'
      BY <1>10 DEF OwnInv, TypeOK, UniqueIds, CodesRan, Results, PollAgain
    <2>2. QuietReset' /\ CallsOfJob'
      BY <1>10 DEF OwnInv, TypeOK, QuietReset, CallsOfJob, Busy, Resetting, ResetPcs, PollAgain
    <2>3. CommandKept' /\ AnswersMatch' /\ ResultRead'
      BY <1>10 DEF OwnInv, TypeOK, CommandKept, AnswersMatch, Results, ResultRead, WaitPcs, PollAgain
    <2>. QED
      BY <2>1, <2>2, <2>3 DEF OwnInv
  <1>11. ASSUME NEW c \in Components, PollExpired(c) PROVE OwnInv'
    <2>1. UniqueIds' /\ CodesRan'
      BY <1>11 DEF OwnInv, TypeOK, UniqueIds, CodesRan, Results, PollExpired, Raise
    <2>2. QuietReset' /\ CallsOfJob'
      BY <1>11 DEF OwnInv, TypeOK, QuietReset, CallsOfJob, Busy, Resetting, ResetPcs, PollExpired, Raise
    <2>3. CommandKept' /\ AnswersMatch' /\ ResultRead'
      BY <1>11 DEF OwnInv, TypeOK, CommandKept, AnswersMatch, Results, ResultRead, WaitPcs, PollExpired, Raise
    <2>. QED
      BY <2>1, <2>2, <2>3 DEF OwnInv
  <1>12. ASSUME NEW c \in Components, LookupUuid(c) PROVE OwnInv'
    <2>1. UniqueIds' /\ CodesRan'
      BY <1>12 DEF OwnInv, TypeOK, UniqueIds, CodesRan, Results, LookupUuid, Proceed
    <2>2. QuietReset' /\ CallsOfJob'
      BY <1>12 DEF OwnInv, TypeOK, QuietReset, CallsOfJob, Busy, Resetting, ResetPcs, LookupUuid, Proceed
    <2>3. CommandKept' /\ AnswersMatch' /\ ResultRead'
      BY <1>12 DEF OwnInv, TypeOK, CommandKept, AnswersMatch, Results, ResultRead, WaitPcs, LookupUuid, Proceed
    <2>. QED
      BY <2>1, <2>2, <2>3 DEF OwnInv
  <1>13. ASSUME NEW c \in Components, ExitCodeFound(c) PROVE OwnInv'
    <2>1. PICK e \in ExitRows(c) : result' = [result EXCEPT ![c] = {e.run}]
      BY <1>13 DEF ExitCodeFound
    <2>2. UniqueIds' /\ CodesRan'
      BY <1>13 DEF OwnInv, TypeOK, UniqueIds, CodesRan, Results, ExitCodeFound, Proceed
    <2>3. QuietReset' /\ CallsOfJob'
      BY <1>13 DEF OwnInv, TypeOK, QuietReset, CallsOfJob, Busy, Resetting, ResetPcs,
         ExitCodeFound, Proceed
    <2>4. CommandKept' /\ AnswersMatch'
      BY <1>13 DEF OwnInv, TypeOK, CommandKept, AnswersMatch, Results, WaitPcs, ExitCodeFound,
         Proceed
    <2>5. e \in Results /\ e.id = cmdId[c] /\ e.vm \in job[c].vms
      BY DEF ExitRows, Results
    <2>6. ~disturbed[c] /\ ~stale[c] => e.run.op = mine[c]
      BY <1>13, <2>5 DEF OwnInv, AnswersMatch, WaitPcs, ExitCodeFound
    <2>7. ResultRead'
      BY <1>13, <2>1, <2>5, <2>6 DEF OwnInv, TypeOK, CodesRan, ResultRead, CallsOfJob, Busy,
         ExitCodeFound, Proceed
    <2>. QED
      BY <2>2, <2>3, <2>4, <2>7 DEF OwnInv
  <1>14. ASSUME NEW c \in Components, ExitCodeMissing(c) PROVE OwnInv'
    <2>1. UniqueIds' /\ CodesRan'
      BY <1>14 DEF OwnInv, TypeOK, UniqueIds, CodesRan, Results, ExitCodeMissing, Raise
    <2>2. QuietReset' /\ CallsOfJob'
      BY <1>14 DEF OwnInv, TypeOK, QuietReset, CallsOfJob, Busy, Resetting, ResetPcs, ExitCodeMissing, Raise
    <2>3. CommandKept' /\ AnswersMatch' /\ ResultRead'
      BY <1>14 DEF OwnInv, TypeOK, CommandKept, AnswersMatch, Results, ResultRead, WaitPcs, ExitCodeMissing, Raise
    <2>. QED
      BY <2>1, <2>2, <2>3 DEF OwnInv
  <1>15. ASSUME NEW c \in Components, ReadOutput(c) PROVE OwnInv'
    <2>1. UniqueIds' /\ CodesRan'
      BY <1>15 DEF OwnInv, TypeOK, UniqueIds, CodesRan, Results, ReadOutput, Return, Raise
    <2>2. QuietReset' /\ CallsOfJob'
      BY <1>15 DEF OwnInv, TypeOK, QuietReset, CallsOfJob, Busy, Resetting, ResetPcs, ReadOutput, Return, Raise
    <2>3. CommandKept' /\ AnswersMatch' /\ ResultRead'
      BY <1>15 DEF OwnInv, TypeOK, CommandKept, AnswersMatch, Results, ResultRead, WaitPcs, ReadOutput, Return, Raise
    <2>. QED
      BY <2>1, <2>2, <2>3 DEF OwnInv
  <1>16. ASSUME NEW c \in Components, ResetFilter(c) PROVE OwnInv'
    <2>1. UniqueIds' /\ CodesRan'
      BY <1>16 DEF OwnInv, TypeOK, UniqueIds, CodesRan, Results, ResetFilter, Proceed
    <2>2. QuietReset' /\ CallsOfJob'
      BY <1>16 DEF OwnInv, TypeOK, QuietReset, CallsOfJob, Busy, Resetting, ResetPcs, ResetFilter, Proceed
    <2>3. CommandKept' /\ AnswersMatch' /\ ResultRead'
      BY <1>16 DEF OwnInv, TypeOK, CommandKept, AnswersMatch, Results, ResultRead, WaitPcs, ResetFilter, Proceed
    <2>. QED
      BY <2>1, <2>2, <2>3 DEF OwnInv
  <1>17. ASSUME NEW c \in Components, ResetCommands(c) PROVE OwnInv'
    <2>1. UniqueIds' /\ CodesRan'
      BY <1>17 DEF OwnInv, TypeOK, UniqueIds, CodesRan, Results, ResetCommands, Proceed
    <2>2. QuietReset' /\ CallsOfJob'
      BY <1>17 DEF OwnInv, TypeOK, QuietReset, CallsOfJob, Busy, Resetting, ResetPcs, ResetCommands, Proceed
    <2>3. CommandKept' /\ AnswersMatch' /\ ResultRead'
      BY <1>17 DEF OwnInv, TypeOK, CommandKept, AnswersMatch, Results, ResultRead, QuietReset, Busy, Resetting,
         WaitPcs, ResetPcs, ResetCommands, Proceed
    <2>. QED
      BY <2>1, <2>2, <2>3 DEF OwnInv
  <1>18. ASSUME NEW c \in Components, ResetResponses(c) PROVE OwnInv'
    <2>1. UniqueIds' /\ CodesRan'
      BY <1>18 DEF OwnInv, TypeOK, UniqueIds, CodesRan, Results, ResetResponses, Proceed, Return
    <2>2. QuietReset' /\ CallsOfJob'
      BY <1>18 DEF OwnInv, TypeOK, QuietReset, CallsOfJob, Busy, Resetting, ResetPcs, ResetResponses, Proceed, Return
    <2>3. CommandKept' /\ AnswersMatch' /\ ResultRead'
      BY <1>18 DEF OwnInv, TypeOK, CommandKept, AnswersMatch, Results, ResultRead, CallsOfJob, WaitPcs, ResetPcs,
         ResetResponses, Proceed, Return
    <2>. QED
      BY <2>1, <2>2, <2>3 DEF OwnInv
  <1>19. ASSUME NEW v \in VMs, Connect(v) \/ Disconnect(v) PROVE OwnInv'
    <2>1. UniqueIds' /\ CodesRan'
      BY <1>19 DEF OwnInv, TypeOK, UniqueIds, CodesRan, Results, Connect, Disconnect
    <2>2. QuietReset' /\ CallsOfJob'
      BY <1>19 DEF OwnInv, TypeOK, QuietReset, CallsOfJob, Busy, Resetting, ResetPcs, Connect, Disconnect
    <2>3. CommandKept' /\ AnswersMatch' /\ ResultRead'
      BY <1>19 DEF OwnInv, TypeOK, CommandKept, AnswersMatch, Results, ResultRead, WaitPcs, Connect, Disconnect
    <2>. QED
      BY <2>1, <2>2, <2>3 DEF OwnInv
  <1>20. ASSUME NEW v \in VMs, TakeCommand(v) PROVE OwnInv'
    <2>1. PICK k \in commands, x \in ExitCodes :
            /\ runs' = runs \cup {[op |-> k.op, vm |-> v, code |-> x]}
            /\ working' = working \cup {[id |-> k.id, vm |-> v, kind |-> k.kind,
                                         run |-> [op |-> k.op, vm |-> v, code |-> x]]}
            /\ UNCHANGED <<mmVars, active, exiting, reboots, opVars, localVars, running, pc, outcome>>
      BY <1>20 DEF TakeCommand
    <2> DEFINE new == [op |-> k.op, vm |-> v, code |-> x]
               w == [id |-> k.id, vm |-> v, kind |-> k.kind, run |-> new]
    <2>2. /\ new.op = k.op /\ new.vm = v /\ w.id = k.id /\ w.vm = v /\ w.run = new
          /\ runs' = runs \cup {new} /\ Results' = Results \cup {w}
      BY <2>1 DEF Results
    <2> HIDE DEF new, w
    <2>3. UniqueIds' /\ CodesRan'
      BY <2>1, <2>2 DEF OwnInv, UniqueIds, CodesRan
    <2>4. QuietReset' /\ CallsOfJob' /\ CommandKept' /\ ResultRead'
      BY <2>1, <2>2 DEF OwnInv, TypeOK, QuietReset, CallsOfJob, CommandKept, ResultRead, Busy,
         Resetting
    <2>5. AnswersMatch'
      <3>1. ASSUME NEW c \in Components, pc[c] \in WaitPcs, ~disturbed[c], k.id = cmdId[c]
            PROVE  k.op = mine[c]
        BY <3>1 DEF OwnInv, CommandKept, UniqueIds
      <3>. QED
        BY <2>1, <2>2, <3>1 DEF OwnInv, AnswersMatch
    <2>. QED
      BY <2>3, <2>4, <2>5 DEF OwnInv
  <1>21. ASSUME NEW v \in VMs, FinishCommand(v) \/ RecordExit(v) PROVE OwnInv'
    <2>1. /\ \A e \in Results' : \E f \in Results : e.id = f.id /\ e.vm = f.vm /\ e.run = f.run
          /\ UNCHANGED <<filter, commands, nextId, runs, opVars, localVars, running, pc, outcome>>
      BY <1>21 DEF FinishCommand, StoreResponse, RecordExit, Results
    <2>2. UniqueIds' /\ CodesRan' /\ AnswersMatch'
      BY <2>1 DEF OwnInv, UniqueIds, CodesRan, AnswersMatch
    <2>3. QuietReset' /\ CallsOfJob' /\ CommandKept' /\ ResultRead'
      BY <2>1 DEF OwnInv, TypeOK, QuietReset, CallsOfJob, CommandKept, ResultRead, Busy, Resetting
    <2>. QED
      BY <2>2, <2>3 DEF OwnInv
  <1>22. CASE UNCHANGED vars
    BY <1>22 DEF vars, OwnInv, UniqueIds, CodesRan, Results, QuietReset, CallsOfJob, CommandKept,
       AnswersMatch, ResultRead, Busy, Resetting
  <1>. QED
    BY <1>1, <1>2, <1>3, <1>4, <1>5, <1>6, <1>7, <1>8, <1>9, <1>10, <1>11, <1>12, <1>13, <1>14, <1>15, <1>16, <1>17, <1>18, <1>19, <1>20, <1>21, <1>22 DEF Next, ComponentStep, ExecWaitStep, ResetStep, AgentStep

LEMMA OwnInvAlways == Spec => []OwnInv
  BY OwnInvInit, OwnInvStep, PTL DEF Spec

\* An mm_exec_wait that returns has the exit code of its own command on its own VM, for any
\* number of components sharing the filter and the queue and however late an answer comes,
\* when it met no reset and nothing was left under its command's id.
THEOREM OwnResult == Spec => []ResultIsOwn
  <1>1. OwnInv => ResultIsOwn
    BY DEF OwnInv, ResultRead, ResultIsOwn
  <1>. QED
    BY <1>1, OwnInvAlways, PTL

\* A component that waits, and met no reset, waits for a command that is still queued.
THEOREM CommandStaysQueued == Spec => []CommandKept
  <1>1. OwnInv => CommandKept
    BY DEF OwnInv
  <1>. QED
    BY <1>1, OwnInvAlways, PTL

\* Under the id a component waits for, only a run of its own program has a response.
ResponsesMatch ==
    \A c \in Components :
        (pc[c] \in WaitPcs /\ ~disturbed[c] /\ ~stale[c])
            => \A r \in responses : r.id = cmdId[c] => HasRun(c)

AnsweredInv == ResponsesMatch /\ AnswerIsOwn

LEMMA AnsweredInit == Init => AnsweredInv
  BY DEF Init, AnsweredInv, ResponsesMatch, AnswerIsOwn, WaitIsOver, AfterWait, WaitPcs

LEMMA AnsweredStep == OwnInv /\ AnsweredInv /\ [Next]_vars => AnsweredInv'
  <1> SUFFICES ASSUME OwnInv, AnsweredInv, [Next]_vars PROVE AnsweredInv'
    OBVIOUS
  <1>0. TypeOK
    BY DEF OwnInv
  <1> USE <1>0 DEF mmVars, agentVars, opVars, localVars
  <1>1. ASSUME NEW c \in Components, BeginStep(c) PROVE AnsweredInv'
    <2>1. PICK j \in Job : Begin(c, j)
      BY <1>1, JobsTyped DEF BeginStep, BeginJob, BeginFollowUp, TypeOK, Unfiltered, Job, Kinds
    <2> DEFINE p == FirstCall(j.kind)
    <2>2. p \notin WaitPcs /\ p \notin {"uuid", "clear"}
      BY FirstCallTyped DEF Job, WaitPcs
    <2>3. /\ pc' = [pc EXCEPT ![c] = p] /\ disturbed' = Overlaps(c, j.kind)
          /\ \A d \in Components \ {c} :
              /\ mine'[d] = mine[d] /\ cmdId'[d] = cmdId[d] /\ stale'[d] = stale[d]
              /\ job'[d] = job[d]
          /\ UNCHANGED <<responses, runs>>
      BY <2>1 DEF Begin, TypeOK
    <2> HIDE DEF p
    <2>4. \A d \in Components : disturbed'[d] = FALSE /\ d # c => ~disturbed[d]
      BY <2>3 DEF Overlaps, TypeOK
    <2>. QED
      BY <2>2, <2>3, <2>4 DEF TypeOK, AnsweredInv, ResponsesMatch, AnswerIsOwn, WaitIsOver,
         AfterWait, HasRun
  <1>2. ASSUME NEW c \in Components, Issue(c) PROVE AnsweredInv'
    <2>1. /\ cmdId' = [cmdId EXCEPT ![c] = nextId]
          /\ stale' = [stale EXCEPT ![c] = LeftUnder(nextId)]
          /\ \E p \in {"poll", "clear", "idle"} :
              /\ pc' = [pc EXCEPT ![c] = p]
              /\ p = "clear" => job[c].kind = "background"
          /\ UNCHANGED <<responses, runs, opVars>>
      BY <1>2 DEF Issue, Proceed, Return
    <2>2. ResponsesMatch'
      BY <2>1 DEF TypeOK, AnsweredInv, ResponsesMatch, HasRun, LeftUnder, WaitPcs
    <2>3. AnswerIsOwn'
      BY <2>1 DEF TypeOK, AnsweredInv, AnswerIsOwn, WaitIsOver, AfterWait, HasRun
    <2>. QED
      BY <2>2, <2>3 DEF AnsweredInv
  <1>3. ASSUME NEW c \in Components, PollAnswered(c) PROVE AnsweredInv'
    <2>1. /\ pc[c] = "poll" /\ pc' = [pc EXCEPT ![c] = AfterWait(c)]
          /\ UNCHANGED <<responses, runs, opVars, cmdId, stale>>
          /\ \E r \in responses : r.id = cmdId[c]
      BY <1>3 DEF PollAnswered, Answered, Proceed
    <2>2. ~disturbed[c] /\ ~stale[c] => HasRun(c)
      BY <2>1 DEF AnsweredInv, ResponsesMatch, WaitPcs
    <2>3. ResponsesMatch'
      BY <2>1 DEF TypeOK, AnsweredInv, ResponsesMatch, HasRun, AfterWait, WaitPcs
    <2>4. AnswerIsOwn'
      BY <2>1, <2>2 DEF TypeOK, AnsweredInv, AnswerIsOwn, WaitIsOver, AfterWait, HasRun
    <2>. QED
      BY <2>3, <2>4 DEF AnsweredInv
  <1>4. ASSUME NEW v \in VMs, FinishCommand(v) PROVE AnsweredInv'
    <2>1. PICK w \in working :
            /\ responses' \in {responses, responses \cup {[id |-> w.id, vm |-> w.vm]}}
            /\ UNCHANGED <<runs, opVars, localVars, pc>>
      BY <1>4 DEF FinishCommand, StoreResponse
    <2>2. w.run \in runs
      BY DEF OwnInv, CodesRan, Results
    <2>3. \A c \in Components :
            (pc[c] \in WaitPcs /\ ~disturbed[c] /\ ~stale[c] /\ w.id = cmdId[c]) => HasRun(c)
      BY <2>2 DEF OwnInv, AnswersMatch, Results, HasRun
    <2>. QED
      BY <2>1, <2>3 DEF AnsweredInv, ResponsesMatch, AnswerIsOwn, WaitIsOver, AfterWait, HasRun
  <1>5. ASSUME NEW v \in VMs, TakeCommand(v) PROVE AnsweredInv'
    <2>1. runs \subseteq runs' /\ UNCHANGED <<responses, opVars, localVars, pc>>
      BY <1>5 DEF TakeCommand
    <2>. QED
      BY <2>1 DEF AnsweredInv, ResponsesMatch, AnswerIsOwn, WaitIsOver, AfterWait, HasRun
  <1>6. ASSUME NEW c \in Components, ResetResponses(c) PROVE AnsweredInv'
    <2>1. /\ responses' = {} /\ UNCHANGED <<runs, opVars, localVars>>
          /\ \E p \in {"rClrCmd", "idle"} : pc' = [pc EXCEPT ![c] = p]
      BY <1>6 DEF ResetResponses, Proceed, Return
    <2>. QED
      BY <2>1 DEF TypeOK, AnsweredInv, ResponsesMatch, AnswerIsOwn, WaitIsOver, AfterWait, HasRun
  <1>7. ASSUME UNCHANGED <<responses, runs, opVars, cmdId, stale>>,
               \A d \in Components :
                   /\ pc'[d] \in WaitPcs => pc[d] \in WaitPcs
                   /\ pc'[d] \in {"uuid", "clear"} => pc'[d] = pc[d]
        PROVE  AnsweredInv'
    BY <1>7 DEF AnsweredInv, ResponsesMatch, AnswerIsOwn, WaitIsOver, AfterWait, HasRun
  <1>8. ASSUME NEW c \in Components,
               \/ StartStage(c) \/ EndStage(c) \/ ClientActive(c) \/ ClientMissing(c)
               \/ SetFilter(c) \/ ClearFilter(c) \/ PollAgain(c) \/ PollExpired(c)
               \/ LookupUuid(c) \/ ExitCodeFound(c) \/ ExitCodeMissing(c) \/ ReadOutput(c)
               \/ ResetFilter(c) \/ ResetCommands(c)
        PROVE  AnsweredInv'
    <2>1. UNCHANGED <<responses, runs, opVars, cmdId, stale>>
      BY <1>8 DEF StartStage, EndStage, ClientActive, ClientMissing, SetFilter, ClearFilter,
         PollAgain, PollExpired, LookupUuid, ExitCodeFound, ExitCodeMissing, ReadOutput,
         ResetFilter, ResetCommands
    <2>2. \/ pc' = pc
          \/ pc[c] \in {"uuid", "exitcode"} /\ \E p \in {"exitcode", "output"} :
                 pc' = [pc EXCEPT ![c] = p]
          \/ \E p \in {"filter", "issue", "idle"} \cup ResetPcs : pc' = [pc EXCEPT ![c] = p]
      BY <1>8 DEF StartStage, EndStage, ClientActive, ClientMissing, SetFilter, ClearFilter,
         PollAgain, PollExpired, LookupUuid, ExitCodeFound, ExitCodeMissing, ReadOutput,
         ResetFilter, ResetCommands, Proceed, Return, Raise, ResetPcs
    <2>. QED
      BY <2>1, <2>2, <1>7 DEF TypeOK, WaitPcs, ResetPcs
  <1>9. ASSUME NEW v \in VMs, Connect(v) \/ Disconnect(v) \/ RecordExit(v) PROVE AnsweredInv'
    BY <1>7, <1>9 DEF Connect, Disconnect, RecordExit
  <1>10. CASE UNCHANGED vars
    BY <1>7, <1>10 DEF vars
  <1>. QED
    BY <1>1, <1>2, <1>3, <1>4, <1>5, <1>6, <1>8, <1>9, <1>10 DEF Next, ComponentStep,
       ExecWaitStep, ResetStep, AgentStep

\* When a wait ends the component's own program has been run, for any number of components
\* and however late the answers to other commands come, when the operation met no reset and
\* nothing was left under its command's id.
THEOREM AnswersAreOwn == Spec => []AnswerIsOwn
  <1>1. OwnInv /\ AnsweredInv /\ [Next]_vars => AnsweredInv'
    BY AnsweredStep
  <1>2. AnsweredInv => AnswerIsOwn
    BY DEF AnsweredInv
  <1>. QED
    BY AnsweredInit, OwnInvAlways, <1>1, <1>2, PTL DEF Spec


-----------------------------------------------------------------------------
(***************************************************************************)
(* What MinimegaCC gives components that run one at a time: no program     *)
(* runs on a VM it was not meant for, and the queue, the shared filter and *)
(* the agents that reconnect implement RemoteExec.                         *)
(***************************************************************************)

\* Only the component whose stage runs has a call under way, and no reset overlaps it.
OneAtATime ==
    /\ \A c, d \in running : c = d
    /\ \A c \in Components : Busy(c) => c \in running
    /\ \A c \in Components : disturbed[c] = FALSE

\* Operations are numbered, what a number stands for was begun, and a component's last has
\* the highest of its numbers.
OpsBegun ==
    /\ \A a \in asked : a.op <= begun /\ a.op <= mine[a.by]
    /\ \A k \in commands : k.op <= begun
    /\ \A r \in runs : r.op <= begun

\* The operation under way is on record as it was asked for.
OnRecord ==
    \A c \in Components :
        (Busy(c) /\ ~Resetting(c)) =>
            \E a \in asked : /\ a.op = mine[c] /\ a.by = c
                             /\ a.vms = job[c].vms /\ a.once = job[c].once

\* The filter selects no other VMs than the component means: until its command is created,
\* and after an mm_exec_wait until its next operation, which may be tcpdump's "rm".
FilterHolds ==
    \A c \in running :
        (pc[c] = "issue" \/ (job[c].kind = "execWait" /\ (pc[c] \in WaitPcs \/ outcome[c] = "ok")))
            => filter \subseteq job[c].vms

\* A command of the queue goes to the VMs of its operation, and is its only one.
CommandsAsked ==
    \A k \in commands :
        /\ \E a \in asked : a.op = k.op /\ k.to \subseteq a.vms /\ a.once = k.once
        /\ \A l \in commands : l.op = k.op => l = k

\* Before its command is created nothing is queued for an operation and nothing has run.
NotYetIssued ==
    \A c \in Components :
        pc[c] \in {"client", "filter", "issue"} =>
            /\ \A k \in commands : k.op # mine[c]
            /\ \A r \in runs : r.op # mine[c]

\* What has run once has been taken, and stays so when the agent reconnects.
OnceIsTaken ==
    \A k \in commands, r \in runs : (k.once /\ r.op = k.op) => <<k.id, r.vm>> \in taken

\* Only mm_exec_wait returns an exit code.
OnlyWaitsAnswer ==
    \A c \in Components : job[c].kind # "execWait" => result[c] = {}

ForegroundInv ==
    /\ OwnInv /\ OneAtATime /\ OpsBegun /\ OnRecord /\ FilterHolds
    /\ CommandsAsked /\ NotYetIssued /\ OnceIsTaken /\ OnlyWaitsAnswer
    /\ RunsOnlyOnTarget

-----------------------------------------------------------------------------
LEMMA ForegroundInvInit == Init => ForegroundInv
  BY OwnInvInit
  DEF Init, ForegroundInv, OneAtATime, OpsBegun, OnRecord, FilterHolds, CommandsAsked,
      NotYetIssued, OnceIsTaken, OnlyWaitsAnswer, RunsOnlyOnTarget, Busy

\* An unfiltered command is meant for every VM, or for the one of the mm_exec_wait before.
LEMMA UnfilteredJobs ==
    ASSUME NEW j \in Jobs, j.kind = "unfiltered" PROVE j.vms = VMs
  BY JobsAssumption DEF IsJob, ExecWait, SendFile, Exec, BackgroundExec, Unfiltered, Reset, ClearQueue

\* A call of mm_exec_wait or mm_wait_for_cmd that asks the queue and changes nothing there.
AsksQueue(c) ==
    /\ UNCHANGED <<mmVars, agentVars, opVars>>
    /\ Busy(c) /\ ~Resetting(c)
    /\ pc'[c] \in {"idle", "filter", "clear"} \cup WaitPcs
    /\ pc'[c] = "filter" => pc[c] = "client"
    /\ pc'[c] \in WaitPcs \/ (job[c].kind = "execWait" /\ outcome'[c] = "ok") => pc[c] \in WaitPcs
    /\ running' = running \/ (running' = running \ {c} /\ pc'[c] = "idle")
    /\ \A d \in Components \ {c} :
           pc'[d] = pc[d] /\ outcome'[d] = outcome[d] /\ result'[d] = result[d]
    /\ job[c].kind # "execWait" => result'[c] = result[c]

LEMMA AskingSteps ==
    ASSUME OwnInv, NEW c \in Components,
           \/ ClientActive(c) \/ ClientMissing(c) \/ PollAnswered(c) \/ PollAgain(c)
           \/ PollExpired(c) \/ LookupUuid(c) \/ ExitCodeFound(c) \/ ExitCodeMissing(c)
           \/ ReadOutput(c)
    PROVE  AsksQueue(c)
  <1> USE DEF AsksQueue, OwnInv, TypeOK, CallsOfJob, Busy, Resetting, ResetPcs, WaitPcs, Proceed,
              Return, Raise, mmVars, agentVars, opVars, localVars
  <1>1. CASE ClientActive(c) \/ ClientMissing(c)
    BY <1>1 DEF ClientActive, ClientMissing
  <1>2. CASE PollAnswered(c) \/ PollAgain(c) \/ PollExpired(c)
    BY <1>2 DEF PollAnswered, PollAgain, PollExpired, AfterWait
  <1>3. CASE LookupUuid(c)
    BY <1>3 DEF LookupUuid
  <1>4. CASE ExitCodeFound(c)
    BY <1>4 DEF ExitCodeFound
  <1>5. CASE ExitCodeMissing(c)
    BY <1>5 DEF ExitCodeMissing
  <1>6. CASE ReadOutput(c)
    BY <1>6 DEF ReadOutput
  <1>. QED
    BY <1>1, <1>2, <1>3, <1>4, <1>5, <1>6

LEMMA ForegroundInvStep ==
    ASSUME ~Concurrent, ForegroundInv, [Next]_vars
    PROVE  ForegroundInv'
  <1>0. OwnInv /\ OwnInv' /\ TypeOK /\ TypeOK'
    BY OwnInvStep DEF ForegroundInv, OwnInv
  <1>a. /\ OneAtATime /\ OpsBegun /\ OnRecord /\ FilterHolds /\ CommandsAsked /\ NotYetIssued
        /\ OnceIsTaken /\ OnlyWaitsAnswer /\ RunsOnlyOnTarget
    BY DEF ForegroundInv
  <1> SUFFICES (/\ OneAtATime /\ OpsBegun /\ OnRecord /\ FilterHolds /\ CommandsAsked /\ NotYetIssued
                /\ OnceIsTaken /\ OnlyWaitsAnswer /\ RunsOnlyOnTarget)'
    BY <1>0 DEF ForegroundInv
  <1> USE <1>0, <1>a DEF TypeOK, mmVars, agentVars, opVars, localVars, OneAtATime, Busy
  <1>1. ASSUME NEW c \in Components, StartStage(c) PROVE ForegroundInv'
    BY <1>1 DEF ForegroundInv, StartStage, OpsBegun, OnRecord, FilterHolds, CommandsAsked,
       NotYetIssued, OnceIsTaken, OnlyWaitsAnswer, RunsOnlyOnTarget, Resetting, WaitPcs
  <1>2. ASSUME NEW c \in Components, EndStage(c) PROVE ForegroundInv'
    BY <1>2 DEF ForegroundInv, EndStage, OpsBegun, OnRecord, FilterHolds, CommandsAsked,
       NotYetIssued, OnceIsTaken, OnlyWaitsAnswer, RunsOnlyOnTarget, Resetting
  <1>3. ASSUME NEW c \in Components, BeginStep(c) PROVE ForegroundInv'
    <2>1. PICK j \in Job :
              /\ Begin(c, j)
              /\ j.kind = "unfiltered" =>
                     j.vms = VMs \/ (j.vms = job[c].vms /\ job[c].kind = "execWait" /\ outcome[c] = "ok")
      <3>1. CASE BeginJob(c)
        BY <3>1, JobsTyped, UnfilteredJobs DEF BeginJob
      <3>2. CASE BeginFollowUp(c)
        <4>1. Unfiltered(job[c].vms) \in Job /\ Unfiltered(job[c].vms).vms = job[c].vms
          BY DEF Unfiltered, Job, Kinds
        <4>. QED
          BY <3>2, <4>1 DEF BeginFollowUp
      <3>. QED
        BY <1>3, <3>1, <3>2 DEF BeginStep
    <2> DEFINE p == FirstCall(j.kind)
               a == [op |-> begun + 1, by |-> c, vms |-> j.vms, once |-> j.once]
    <2>2. /\ p \notin WaitPcs /\ p # "idle" /\ p # "clear"
          /\ p = "issue" => j.kind = "unfiltered"
      <3>1. j.kind \in Kinds
        BY DEF Job
      <3>. QED
        BY <3>1, FirstCallTyped DEF FirstCall, Kinds
    <2>3. /\ pc[c] = "idle" /\ c \in running
          /\ pc' = [pc EXCEPT ![c] = p] /\ job' = [job EXCEPT ![c] = j]
          /\ outcome' = [outcome EXCEPT ![c] = "none"] /\ result' = [result EXCEPT ![c] = {}]
          /\ mine' = [mine EXCEPT ![c] = begun + 1] /\ begun' = begun + 1
          /\ disturbed' = Overlaps(c, j.kind)
          /\ asked' = IF p \in ResetPcs THEN asked ELSE asked \cup {a}
          /\ UNCHANGED <<filter, commands, taken, runs, running>>
      BY <2>1 DEF Begin
    <2>4. a.op = begun + 1 /\ a.by = c /\ a.vms = j.vms /\ a.once = j.once
      OBVIOUS
    <2>5. /\ \A b \in asked : b.op \in Nat
          /\ \A k \in commands : k.op \in Nat
          /\ \A r \in runs : r.op \in Nat
      BY DEF Request, Command, Execution
    <2> HIDE DEF p, a
    <2>6. OneAtATime'
      <3>1. \A d \in Components \ {c} : ~Busy(d)
        BY <2>3
      <3>2. disturbed' = [d \in Components |-> FALSE]
        BY <2>3, <3>1 DEF Overlaps, Resetting, ResetPcs
      <3>. QED
        BY <2>3, <3>2
    <2>7. OpsBegun'
      BY <2>3, <2>4, <2>5 DEF OpsBegun
    <2>8. OnRecord'
      BY <2>2, <2>3, <2>4 DEF OnRecord, Resetting
    <2>9. FilterHolds'
      BY <2>1, <2>2, <2>3 DEF FilterHolds
    <2>10. NotYetIssued'
      BY <2>3, <2>5 DEF OpsBegun, NotYetIssued
    <2>11. CommandsAsked' /\ OnceIsTaken' /\ OnlyWaitsAnswer' /\ RunsOnlyOnTarget'
      BY <2>3 DEF CommandsAsked, OnceIsTaken, OnlyWaitsAnswer, RunsOnlyOnTarget
    <2>. QED
      BY <2>6, <2>7, <2>8, <2>9, <2>10, <2>11 DEF ForegroundInv
  <1>4. ASSUME NEW c \in Components, AsksQueue(c) PROVE ForegroundInv'
    <2>1. OneAtATime'
      BY <1>4 DEF AsksQueue
    <2>2. OpsBegun' /\ CommandsAsked' /\ OnceIsTaken' /\ RunsOnlyOnTarget'
      BY <1>4 DEF AsksQueue, OpsBegun, CommandsAsked, OnceIsTaken, RunsOnlyOnTarget
    <2>3. OnRecord' /\ NotYetIssued' /\ OnlyWaitsAnswer'
      BY <1>4 DEF AsksQueue, OnRecord, NotYetIssued, OnlyWaitsAnswer, Resetting, WaitPcs, ResetPcs
    <2>4. FilterHolds'
      BY <1>4 DEF AsksQueue, FilterHolds, WaitPcs
    <2>. QED
      BY <2>1, <2>2, <2>3, <2>4 DEF ForegroundInv
  <1>5. ASSUME NEW c \in Components, SetFilter(c) PROVE ForegroundInv'
    <2>1. /\ pc[c] = "filter" /\ pc' = [pc EXCEPT ![c] = "issue"] /\ filter' = job[c].vms
          /\ UNCHANGED <<commands, runs, taken, opVars, running, outcome, result>>
      BY <1>5 DEF SetFilter, Proceed
    <2>2. OneAtATime' /\ OpsBegun' /\ CommandsAsked' /\ OnceIsTaken' /\ RunsOnlyOnTarget' /\ OnlyWaitsAnswer'
      BY <2>1 DEF OpsBegun, CommandsAsked, OnceIsTaken, RunsOnlyOnTarget, OnlyWaitsAnswer
    <2>3. OnRecord' /\ NotYetIssued'
      BY <2>1 DEF OnRecord, NotYetIssued, Resetting, ResetPcs
    <2>4. FilterHolds'
      BY <2>1 DEF FilterHolds
    <2>. QED
      BY <2>2, <2>3, <2>4 DEF ForegroundInv
  <1>6. ASSUME NEW c \in Components, Issue(c) PROVE ForegroundInv'
    <2> DEFINE k == NewCommand(c)
    <2>1. /\ pc[c] = "issue" /\ commands' = commands \cup {k}
          /\ UNCHANGED <<filter, runs, taken, opVars, running, result>>
          /\ \A d \in Components \ {c} : pc'[d] = pc[d] /\ outcome'[d] = outcome[d]
          /\ \/ job[c].kind \in {"execWait", "sendFile"} /\ pc'[c] = "poll" /\ outcome' = outcome
             \/ job[c].kind = "background" /\ pc'[c] = "clear"
             \/ job[c].kind \in {"exec", "unfiltered"} /\ pc'[c] = "idle"
      BY <1>6 DEF Issue, Proceed, Return
    <2>2. k.op = mine[c] /\ k.to = filter /\ k.once = job[c].once
      BY DEF NewCommand
    <2>3. PICK a \in asked : a.op = mine[c] /\ a.by = c /\ a.vms = job[c].vms /\ a.once = job[c].once
      BY <2>1 DEF OnRecord, Resetting, ResetPcs
    <2>4. filter \subseteq job[c].vms
      BY <2>1 DEF FilterHolds
    <2>5. (\A l \in commands : l.op # mine[c]) /\ (\A r \in runs : r.op # mine[c])
      BY <2>1 DEF NotYetIssued
    <2> HIDE DEF k
    <2>6. OneAtATime' /\ OnlyWaitsAnswer' /\ RunsOnlyOnTarget'
      BY <2>1 DEF OnlyWaitsAnswer, RunsOnlyOnTarget
    <2>7. OpsBegun' /\ CommandsAsked' /\ OnceIsTaken'
      BY <2>1, <2>2, <2>3, <2>4, <2>5 DEF OpsBegun, CommandsAsked, OnceIsTaken
    <2>8. OnRecord' /\ FilterHolds'
      BY <2>1 DEF OnRecord, FilterHolds, Resetting, ResetPcs, WaitPcs
    <2>9. NotYetIssued'
      BY <2>1 DEF NotYetIssued
    <2>. QED
      BY <2>6, <2>7, <2>8, <2>9 DEF ForegroundInv
  <1>7. ASSUME NEW c \in Components, ClearFilter(c) PROVE ForegroundInv'
    <2>1. /\ pc[c] = "clear" /\ pc' = [pc EXCEPT ![c] = "idle"] /\ job[c].kind # "execWait"
          /\ \A d \in Components \ {c} : outcome'[d] = outcome[d]
          /\ UNCHANGED <<commands, runs, taken, opVars, running, result>>
      BY <1>7 DEF ClearFilter, Return, OwnInv, CallsOfJob
    <2>2. OneAtATime' /\ OpsBegun' /\ CommandsAsked' /\ OnceIsTaken' /\ RunsOnlyOnTarget' /\ OnlyWaitsAnswer'
      BY <2>1 DEF OpsBegun, CommandsAsked, OnceIsTaken, RunsOnlyOnTarget, OnlyWaitsAnswer
    <2>3. OnRecord' /\ NotYetIssued'
      BY <2>1 DEF OnRecord, NotYetIssued, Resetting, ResetPcs
    <2>4. FilterHolds'
      BY <2>1 DEF FilterHolds, WaitPcs
    <2>. QED
      BY <2>2, <2>3, <2>4 DEF ForegroundInv
  <1>8. ASSUME NEW c \in Components, ResetStep(c) PROVE ForegroundInv'
    <2>1. /\ Resetting(c) /\ pc'[c] \in ResetPcs \cup {"idle"} /\ job[c].kind # "execWait"
          /\ \A d \in Components \ {c} : pc'[d] = pc[d] /\ outcome'[d] = outcome[d]
          /\ commands' = {} \/ UNCHANGED <<commands, taken>>
          /\ UNCHANGED <<runs, opVars, running, result>>
      BY <1>8 DEF ResetStep, ResetFilter, ResetCommands, ResetResponses, Proceed, Return, Resetting,
         ResetPcs, OwnInv, CallsOfJob
    <2>2. OneAtATime' /\ OpsBegun' /\ CommandsAsked' /\ OnceIsTaken' /\ RunsOnlyOnTarget' /\ OnlyWaitsAnswer'
      BY <2>1 DEF OpsBegun, CommandsAsked, OnceIsTaken, RunsOnlyOnTarget, OnlyWaitsAnswer, Resetting,
         ResetPcs
    <2>3. OnRecord' /\ NotYetIssued'
      BY <2>1 DEF OnRecord, NotYetIssued, Resetting, ResetPcs
    <2>4. FilterHolds'
      BY <2>1 DEF FilterHolds, WaitPcs, Resetting, ResetPcs
    <2>. QED
      BY <2>2, <2>3, <2>4 DEF ForegroundInv
  <1>9. ASSUME NEW v \in VMs, Connect(v) PROVE ForegroundInv'
    BY <1>9 DEF Connect, ForegroundInv, OpsBegun, OnRecord, FilterHolds, CommandsAsked,
       NotYetIssued, OnceIsTaken, OnlyWaitsAnswer, RunsOnlyOnTarget, Resetting
  <1>10. ASSUME NEW v \in VMs, Disconnect(v) \/ FinishCommand(v) \/ RecordExit(v)
         PROVE  ForegroundInv'
    <2>1. UNCHANGED <<filter, commands, taken, runs, opVars, result, running, pc, outcome>>
      BY <1>10 DEF Disconnect, FinishCommand, RecordExit
    <2>. QED
      BY <2>1 DEF ForegroundInv, OpsBegun, OnRecord, FilterHolds, CommandsAsked,
         NotYetIssued, OnceIsTaken, OnlyWaitsAnswer, RunsOnlyOnTarget, Resetting
  <1>11. ASSUME NEW v \in VMs, TakeCommand(v) PROVE ForegroundInv'
    <2>1. PICK k \in commands, x \in ExitCodes :
              /\ v \in k.to /\ taken' = taken \cup {<<k.id, v>>}
              /\ runs' = runs \cup {[op |-> k.op, vm |-> v, code |-> x]}
              /\ UNCHANGED <<filter, commands, opVars, result, running, pc, outcome>>
      BY <1>11 DEF TakeCommand
    <2> DEFINE new == [op |-> k.op, vm |-> v, code |-> x]
    <2>2. new.op = k.op /\ new.vm = v /\ runs' = runs \cup {new}
      BY <2>1
    <2> HIDE DEF new
    <2>3. OneAtATime' /\ OnRecord' /\ FilterHolds' /\ CommandsAsked' /\ OnlyWaitsAnswer'
      BY <2>1 DEF OnRecord, FilterHolds, CommandsAsked, OnlyWaitsAnswer, Resetting
    <2>4. OpsBegun' /\ NotYetIssued'
      BY <2>1, <2>2 DEF OpsBegun, NotYetIssued
    <2>5. OnceIsTaken' /\ RunsOnlyOnTarget'
      BY <2>1, <2>2 DEF OnceIsTaken, RunsOnlyOnTarget, CommandsAsked
    <2>. QED
      BY <2>3, <2>4, <2>5 DEF ForegroundInv
  <1>12. CASE UNCHANGED vars
    BY <1>12 DEF vars, ForegroundInv, OpsBegun, OnRecord, FilterHolds, CommandsAsked,
       NotYetIssued, OnceIsTaken, OnlyWaitsAnswer, RunsOnlyOnTarget, Resetting
  <1>. QED
    BY <1>1, <1>2, <1>3, <1>4, <1>5, <1>6, <1>7, <1>8, <1>9, <1>10, <1>11, <1>12, AskingSteps, ZenonT(30)
    DEF Next, ComponentStep, ExecWaitStep, AgentStep, ForegroundInv

LEMMA ForegroundInvAlways ==
    ASSUME ~Concurrent PROVE Spec => []ForegroundInv
  <1>1. ForegroundInv /\ [Next]_vars => ForegroundInv'
    BY ForegroundInvStep
  <1>. QED
    BY <1>1, ForegroundInvInit, PTL DEF Spec

\* When components run one at a time a command never runs on a VM it was not meant for,
\* though the filter is set by one call, read by another and shared by all, resets come in
\* between, and agents reconnect and take commands again.
THEOREM RunsOnTarget ==
    ASSUME ~Concurrent PROVE Spec => []RunsOnlyOnTarget
  <1>1. ForegroundInv => RunsOnlyOnTarget
    BY DEF ForegroundInv
  <1>. QED
    BY <1>1, ForegroundInvAlways, PTL
-----------------------------------------------------------------------------
(***************************************************************************)
(* RemoteExec: each step is one of its actions or leaves its variables.    *)
(***************************************************************************)
Answers == [c \in Components |-> HeldAnswer(c)]

\* A component that begins anew, or ends without an exit code, has no answer.
LEMMA Forgets ==
    ASSUME NEW c \in Components, HeldAnswer(c)' = {}, UNCHANGED <<asked, runs>>,
           \A d \in Components \ {c} : HeldAnswer(d)' = HeldAnswer(d)
    PROVE  Remote!Next
  <1>1. Answers' = [Answers EXCEPT ![c] = {}]
    BY DEF Answers
  <1>. QED
    BY <1>1 DEF Remote!Next, Remote!Forget, Answers

LEMMA RemoteInit == Init => Remote!Init
  BY DEF Init, Remote!Init, HeldAnswer

LEMMA RemoteStep ==
    ASSUME ForegroundInv, ForegroundInv', [Next]_vars
    PROVE  [Remote!Next]_(Remote!vars)
  <1> SUFFICES Remote!Next \/ UNCHANGED <<asked, runs, Answers>>
    BY DEF Remote!vars, Answers
  <1>0. /\ TypeOK /\ TypeOK' /\ CallsOfJob /\ ResultRead /\ ResultRead' /\ OneAtATime /\ OneAtATime'
        /\ OpsBegun /\ OnRecord /\ CommandsAsked /\ OnceIsTaken /\ OnlyWaitsAnswer
    BY DEF ForegroundInv, OwnInv
  <1> USE <1>0 DEF TypeOK, Busy, HeldAnswer, mmVars, agentVars, opVars, localVars
  <1>1. ASSUME UNCHANGED <<asked, runs>>, \A c \in Components : HeldAnswer(c)' = HeldAnswer(c)
        PROVE  UNCHANGED <<asked, runs, Answers>>
    BY <1>1 DEF Answers
  <1>2. ASSUME NEW c \in Components, StartStage(c) PROVE Remote!Next
    <2>1. HeldAnswer(c)' = {} /\ \A d \in Components \ {c} : HeldAnswer(d)' = HeldAnswer(d)
      BY <1>2 DEF StartStage
    <2>. QED
      BY <1>2, <2>1, Forgets DEF StartStage
  <1>3. ASSUME NEW c \in Components, EndStage(c) PROVE UNCHANGED <<asked, runs, Answers>>
    BY <1>1, <1>3 DEF EndStage
  <1>4. ASSUME NEW c \in Components, BeginStep(c) PROVE Remote!Next
    <2>1. PICK j \in Job : Begin(c, j)
      BY <1>4, JobsTyped DEF BeginStep, BeginJob, BeginFollowUp, Unfiltered, Job, Kinds
    <2>2. HeldAnswer(c)' = {} /\ \A d \in Components \ {c} : HeldAnswer(d)' = HeldAnswer(d)
      BY <2>1 DEF Begin
    <2>3. CASE FirstCall(j.kind) \in ResetPcs
      BY <2>1, <2>2, <2>3, Forgets DEF Begin
    <2>4. CASE FirstCall(j.kind) \notin ResetPcs
      <3>1. asked' = asked \cup {[op |-> begun + 1, by |-> c, vms |-> j.vms, once |-> j.once]}
        BY <2>1, <2>4 DEF Begin
      <3>2. begun + 1 \in 1 .. MaxOps /\ \A a \in asked : a.op < begun + 1
        BY <2>1, ConstantsAssumption DEF Begin, OpsBegun, Request
      <3>3. j.vms \in SUBSET VMs /\ j.once \in BOOLEAN
        BY DEF Job
      <3>4. Answers' = [Answers EXCEPT ![c] = {}]
        BY <2>2 DEF Answers
      <3>5. UNCHANGED runs
        BY <2>1 DEF Begin
      <3>6. Remote!Ask(c)
        BY <3>1, <3>2, <3>3, <3>4, <3>5 DEF Remote!Ask, Answers
      <3>. QED
        BY <3>6 DEF Remote!Next
    <2>. QED
      BY <2>3, <2>4
  <1>5. ASSUME NEW c \in Components,
               ClientActive(c) \/ SetFilter(c) \/ PollAnswered(c) \/ PollAgain(c) \/ LookupUuid(c)
        PROVE  UNCHANGED <<asked, runs, Answers>>
    BY <1>1, <1>5 DEF ClientActive, SetFilter, PollAnswered, PollAgain, LookupUuid, Proceed
  <1>6. ASSUME NEW c \in Components, ClientMissing(c) \/ PollExpired(c) \/ ExitCodeMissing(c)
        PROVE  Remote!Next
    <2>1. HeldAnswer(c)' = {} /\ \A d \in Components \ {c} : HeldAnswer(d)' = HeldAnswer(d)
      BY <1>6 DEF ClientMissing, PollExpired, ExitCodeMissing, Raise
    <2>. QED
      BY <1>6, <2>1, Forgets DEF ClientMissing, PollExpired, ExitCodeMissing
  <1>7. ASSUME NEW c \in Components, ExitCodeFound(c) PROVE UNCHANGED <<asked, runs, Answers>>
    <2>1. \A d \in Components : HeldAnswer(d)' = HeldAnswer(d)
      BY <1>7 DEF ExitCodeFound, Proceed, CallsOfJob
    <2>. QED
      BY <1>1, <1>7, <2>1 DEF ExitCodeFound
  <1>8. ASSUME NEW c \in Components, Issue(c) \/ ClearFilter(c) \/ ResetStep(c)
        PROVE  Remote!Next \/ UNCHANGED <<asked, runs, Answers>>
    <2>1. /\ UNCHANGED <<asked, runs, result>>
          /\ \A d \in Components \ {c} : outcome'[d] = outcome[d] /\ stale'[d] = stale[d]
          /\ outcome'[c] = outcome[c] \/ job[c].kind # "execWait"
          /\ outcome[c] # "ok"
      BY <1>8 DEF Issue, ClearFilter, ResetStep, ResetFilter, ResetCommands, ResetResponses,
         Proceed, Return, CallsOfJob, ResetPcs
    <2>2. CASE outcome'[c] = outcome[c]
      BY <1>1, <2>1, <2>2
    <2>3. CASE job[c].kind # "execWait"
      <3>1. HeldAnswer(c)' = {} /\ \A d \in Components \ {c} : HeldAnswer(d)' = HeldAnswer(d)
        BY <2>1, <2>3 DEF OnlyWaitsAnswer
      <3>. QED
        BY <2>1, <3>1, Forgets
    <2>. QED
      BY <2>1, <2>2, <2>3
  <1>9. ASSUME NEW c \in Components, ReadOutput(c) PROVE Remote!Next
    <2>1. \A d \in Components \ {c} : HeldAnswer(d)' = HeldAnswer(d)
      BY <1>9 DEF ReadOutput, Return, Raise
    <2>2. UNCHANGED <<asked, runs, job, mine, result, stale>> /\ pc[c] = "output"
      BY <1>9 DEF ReadOutput
    <2>3. CASE outcome'[c] = "ok" /\ ~stale[c]
      <3>1. job[c].kind = "execWait" /\ disturbed[c] = FALSE
        BY <2>2 DEF CallsOfJob, OneAtATime
      <3>2. PICK r \in runs : r.op = mine[c] /\ r.vm \in job[c].vms /\ result[c] = {r}
        BY <2>2, <2>3, <3>1 DEF ResultRead
      <3>3. PICK a \in asked : a.op = mine[c] /\ a.by = c /\ a.vms = job[c].vms
        BY <2>2 DEF OnRecord, Resetting, ResetPcs
      <3>4. Answers' = [Answers EXCEPT ![c] = {r}]
        BY <2>1, <2>2, <2>3, <3>2 DEF Answers
      <3>5. Remote!Reply(c)
        <4>1. a.by = c /\ r.op = a.op /\ r.vm \in a.vms /\ \A b \in asked : b.by = c => b.op <= a.op
          BY <3>2, <3>3 DEF OpsBegun
        <4>2. UNCHANGED <<asked, runs>>
          BY <2>2
        <4>. QED
          BY <3>4, <4>1, <4>2, Zenon DEF Remote!Reply, Answers
      <3>. QED
        BY <3>5 DEF Remote!Next
    <2>4. CASE outcome'[c] # "ok" \/ stale[c]
      BY <2>1, <2>2, <2>4, Forgets
    <2>. QED
      BY <2>3, <2>4
  <1>10. ASSUME NEW v \in VMs, Connect(v) \/ Disconnect(v) \/ FinishCommand(v) \/ RecordExit(v)
         PROVE  UNCHANGED <<asked, runs, Answers>>
    BY <1>1, <1>10 DEF Connect, Disconnect, FinishCommand, RecordExit
  <1>11. ASSUME NEW v \in VMs, TakeCommand(v) PROVE Remote!Next
    <2>1. PICK k \in commands, x \in ExitCodes :
              /\ v \in k.to /\ <<k.id, v>> \notin taken
              /\ runs' = runs \cup {[op |-> k.op, vm |-> v, code |-> x]}
              /\ UNCHANGED <<asked, result, outcome, stale>>
      BY <1>11 DEF TakeCommand
    <2>2. PICK a \in asked : a.op = k.op /\ k.to \subseteq a.vms /\ a.once = k.once
      BY DEF CommandsAsked
    <2>3. a.once => ~\E r \in runs : r.op = a.op /\ r.vm = v
      BY <2>1, <2>2 DEF OnceIsTaken
    <2>4. UNCHANGED Answers
      BY <2>1 DEF Answers
    <2>5. Remote!Run(v)
      BY <2>1, <2>2, <2>3, <2>4 DEF Remote!Run, Answers
    <2>. QED
      BY <2>5 DEF Remote!Next
  <1>12. CASE UNCHANGED vars
    BY <1>1, <1>12 DEF vars
  <1>. QED
    BY <1>2, <1>3, <1>4, <1>5, <1>6, <1>7, <1>8, <1>9, <1>10, <1>11, <1>12
    DEF Next, ComponentStep, ExecWaitStep, AgentStep

\* To a component that has the queue to itself mm_exec_wait's calls look like one program,
\* run where and as often as it was meant to, whose own exit code is returned, but for an
\* answer read under an id an earlier command had left something under.
THEOREM ImplementsRemote ==
    ASSUME ~Concurrent PROVE Spec => ImplementsRemoteExec
  <1>1. ForegroundInv /\ ForegroundInv' /\ [Next]_vars => [Remote!Next]_(Remote!vars)
    BY RemoteStep
  <1>. QED
    BY <1>1, RemoteInit, ForegroundInvAlways, PTL DEF Spec, ImplementsRemoteExec, Remote!Spec
=============================================================================
