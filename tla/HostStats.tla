------------------------------ MODULE HostStats ------------------------------
(***************************************************************************)
(* The start stage of the hoststats component: a background process whose  *)
(* sampler thread polls minimega and buffers what it reads, flushing the   *)
(* buffer to host_stats.jsonl every few polls, while the main thread waits *)
(* in signal.pause() for phenix to send SIGTERM, then joins the sampler    *)
(* and flushes what is left.  The SIGTERM handler that ComponentBase       *)
(* installs does nothing; it only makes pause() return.                    *)
(***************************************************************************)
EXTENDS Integers, Sequences

CONSTANTS
    FlushEvery,    \* int(flush_period / poll_period)
    MaxSamples,    \* bound: polls of minimega that return data
    MaxFaults      \* bound: refused writes and kills of the process

ASSUME PeriodsAssumption ==
    FlushEvery \in Nat \ {0} /\ MaxSamples \in Nat /\ MaxFaults \in Nat

VARIABLES
    main,      \* where the main thread is
    thread,    \* where the sampler is
    monitor,   \* self.monitor
    buffer,    \* self.resdata
    file,      \* host_stats.jsonl
    at,        \* records the flush under way has written, per thread
    count,     \* the sampler's count, modulo FlushEvery
    status,    \* what the status file says
    exitOk,    \* the process ended with exit code 0
    told,      \* SIGTERM has been sent
    taken,     \* history: the samples read, in order
    refused,   \* history: the disk has refused a write
    faults

vars == <<main, thread, monitor, buffer, file, at, count, status, exitOk,
          told, taken, refused, faults>>

MainPcs   == {"boot", "spawn", "toPause", "paused", "stopping", "joining", "flush",
              "status", "statusError", "ended", "killed"}
ThreadPcs == {"none", "test", "sample", "flush", "sleep", "ended", "dead"}

Alive == main \notin {"ended", "killed"}

Init ==
    /\ main = "boot" /\ thread = "none" /\ monitor = FALSE
    /\ buffer = <<>> /\ file = <<>>
    /\ at = [p \in {"main", "thread"} |-> 0]
    /\ count = 0 /\ status = "none" /\ exitOk = FALSE /\ told = FALSE
    /\ taken = <<>> /\ refused = FALSE /\ faults = 0

data == <<buffer, file, at, taken, refused, faults>>
ending == <<status, exitOk>>

(***************************************************************************)
(* Main thread.                                                            *)
(***************************************************************************)
\* The constructors: arguments, input and metadata are read, the handler is installed.
InstallHandler ==
    /\ main = "boot"
    /\ \/ main' = "spawn"
       \/ main' = "ended"        \* an exception there is outside execute_stage
    /\ UNCHANGED <<thread, monitor, data, count, ending, told>>

SpawnSampler ==
    /\ main = "spawn"
    /\ main' = "toPause" /\ monitor' = TRUE
    /\ thread' = "test" /\ count' = 0
    /\ UNCHANGED <<data, ending, told>>

Pause ==
    /\ main = "toPause" /\ main' = "paused"
    /\ UNCHANGED <<thread, monitor, data, count, ending, told>>

\* SIGTERM, once: its default action before the handler is there, nothing when the
\* main thread is not waiting for it.
Terminate ==
    /\ Alive /\ ~told
    /\ told' = TRUE
    /\ main' = CASE main = "boot"   -> "killed"
                 [] main = "paused" -> "stopping"
                 [] OTHER           -> main
    /\ UNCHANGED <<thread, monitor, data, count, ending>>

\* Mutant: the sampler is not told to stop.
StopMonitorForgotten ==
    /\ main = "stopping" /\ main' = "joining"
    /\ UNCHANGED <<thread, monitor, data, count, ending, told>>

StopMonitor ==
    /\ main = "stopping" /\ main' = "joining"
    /\ monitor' = FALSE
    /\ UNCHANGED <<thread, data, count, ending, told>>

\* Mutant: the main thread does not wait for the sampler.
JoinAtOnce ==
    /\ main = "joining" /\ main' = "flush"
    /\ UNCHANGED <<thread, monitor, data, count, ending, told>>

\* Mutant: what is buffered when the sampler ends is not flushed.
JoinNoFlush ==
    /\ main = "joining" /\ thread \in {"ended", "dead"}
    /\ main' = "status"
    /\ UNCHANGED <<thread, monitor, data, count, ending, told>>

Join ==
    /\ main = "joining" /\ thread \in {"ended", "dead"}
    /\ main' = "flush"
    /\ UNCHANGED <<thread, monitor, data, count, ending, told>>

(***************************************************************************)
(* __flush_buffer, by either thread: nothing for an empty buffer, else one *)
(* record after the other and then the buffer is emptied.  A write the     *)
(* disk refuses raises: in the sampler it ends the thread, in the main     *)
(* thread execute_stage catches it.                                        *)
(***************************************************************************)
Flushing(p) == IF p = "main" THEN main = "flush" ELSE thread = "flush"

AfterFlush(p) ==
    IF p = "main" THEN main' = "status" /\ UNCHANGED thread
                  ELSE thread' = "sleep" /\ UNCHANGED main

WriteRecord(p) ==
    /\ Alive /\ Flushing(p) /\ at[p] < Len(buffer)
    /\ file' = Append(file, buffer[at[p] + 1])
    /\ at' = [at EXCEPT ![p] = @ + 1]
    /\ UNCHANGED <<main, thread, monitor, buffer, count, ending, told, taken, refused, faults>>

\* Mutant: what was written stays in the buffer.
KeepBuffer(p) ==
    /\ Alive /\ Flushing(p) /\ at[p] >= Len(buffer)
    /\ at' = [at EXCEPT ![p] = 0]
    /\ AfterFlush(p)
    /\ UNCHANGED <<monitor, buffer, file, count, ending, told, taken, refused, faults>>

ClearBuffer(p) ==
    /\ Alive /\ Flushing(p) /\ at[p] >= Len(buffer)
    /\ buffer' = <<>> /\ at' = [at EXCEPT ![p] = 0]
    /\ AfterFlush(p)
    /\ UNCHANGED <<monitor, file, count, ending, told, taken, refused, faults>>

WriteRefused(p) ==
    /\ Alive /\ Flushing(p) /\ at[p] < Len(buffer)
    /\ faults < MaxFaults /\ faults' = faults + 1
    /\ refused' = TRUE
    /\ IF p = "main" THEN main' = "statusError" /\ UNCHANGED thread
                     ELSE thread' = "dead" /\ UNCHANGED main
    /\ UNCHANGED <<monitor, buffer, file, at, count, ending, told, taken>>

\* Mutant: the exit code does not tell that the stage failed.
WriteStatusSwallowed ==
    /\ main \in {"status", "statusError"}
    /\ status' = IF main = "status" THEN "ok" ELSE "error"
    /\ exitOk' = TRUE /\ UNCHANGED faults
    /\ main' = "ended"
    /\ UNCHANGED <<thread, monitor, buffer, file, at, count, told, taken, refused>>

\* The end of execute_stage: the status file, and the error again if there was one.
WriteStatus ==
    /\ main \in {"status", "statusError"}
    /\ \/ /\ status' = IF main = "status" THEN "ok" ELSE "error"
          /\ exitOk' = (main = "status") /\ UNCHANGED faults
       \/ /\ faults < MaxFaults /\ faults' = faults + 1     \* the disk refuses it
          /\ UNCHANGED ending
    /\ main' = "ended"
    /\ UNCHANGED <<thread, monitor, buffer, file, at, count, told, taken, refused>>

\* The process is killed, at any point.
Kill ==
    /\ Alive /\ faults < MaxFaults /\ faults' = faults + 1
    /\ main' = "killed"
    /\ UNCHANGED <<thread, monitor, buffer, file, at, count, ending, told, taken, refused>>

(***************************************************************************)
(* __run_monitor.                                                          *)
(***************************************************************************)
TestMonitor ==
    /\ Alive /\ thread = "test"
    /\ thread' = IF monitor THEN "sample" ELSE "ended"
    /\ UNCHANGED <<main, monitor, data, count, ending, told>>

FlushDue == count % FlushEvery = 0

\* A poll returns data, or nothing when a TypeError was caught, or raises.
Sample ==
    /\ Alive /\ thread = "sample"
    /\ \/ /\ Len(taken) < MaxSamples
          /\ taken' = Append(taken, Len(taken) + 1)
          /\ buffer' = Append(buffer, Len(taken) + 1)
          /\ thread' = IF FlushDue THEN "flush" ELSE "sleep"
       \/ /\ thread' = IF FlushDue THEN "flush" ELSE "sleep"
          /\ UNCHANGED <<buffer, taken>>
       \/ /\ thread' = "dead"
          /\ UNCHANGED <<buffer, taken>>
    /\ UNCHANGED <<main, monitor, file, at, count, ending, told, refused, faults>>

Sleep ==
    /\ Alive /\ thread = "sleep" /\ thread' = "test"
    /\ count' = (count + 1) % FlushEvery
    /\ UNCHANGED <<main, monitor, data, ending, told>>

-----------------------------------------------------------------------------
Flush(p) == WriteRecord(p) \/ ClearBuffer(p)

MainStep == InstallHandler \/ SpawnSampler \/ Pause \/ StopMonitor \/ Join
            \/ Flush("main") \/ WriteStatus
ThreadStep == TestMonitor \/ Sample \/ Sleep \/ Flush("thread")

Next == MainStep \/ ThreadStep \/ Terminate \/ Kill
        \/ \E p \in {"main", "thread"} : WriteRefused(p)

Spec == Init /\ [][Next]_vars

\* Both threads are scheduled.
Fairness == WF_vars(MainStep) /\ WF_vars(ThreadStep)

FairSpec == Spec /\ Fairness

-----------------------------------------------------------------------------
TypeOK ==
    /\ main \in MainPcs /\ thread \in ThreadPcs /\ monitor \in BOOLEAN
    /\ buffer \in Seq(Nat) /\ file \in Seq(Nat) /\ taken \in Seq(Nat)
    /\ at \in [{"main", "thread"} -> Nat]
    /\ count \in 0 .. FlushEvery - 1
    /\ status \in {"none", "ok", "error"} /\ exitOk \in BOOLEAN
    /\ told \in BOOLEAN /\ refused \in BOOLEAN /\ faults \in Nat

\* The records of the buffer that the flush under way has not written yet.
Unwritten == SubSeq(buffer, at["main"] + at["thread"] + 1, Len(buffer))

\* Unless the disk refused a write, host_stats.jsonl followed by what is still to be
\* written is what was sampled: no sample is lost, repeated or out of order at any
\* interleaving of the sampler's flush, the stop and the main thread's last flush, and
\* a process that is killed loses only what it had not flushed.
FileAndBufferAreTaken == ~refused => file \o Unwritten = taken

\* A stage that ends well has every sample in the file, also when the sampler died in
\* the middle of a flush.
EndedKeepsAll ==
    (main = "ended" /\ status = "ok") =>
        \A i \in 1 .. Len(taken) : \E j \in 1 .. Len(file) : file[j] = taken[i]

\* The buffer never holds more than the polls between two flushes.
BufferBounded == Len(buffer) <= FlushEvery

\* Once pause() has returned, the stage ends.
StopEnds == main = "stopping" ~> ~Alive

\* The process ends as every stage of a component should.
MainPhase == CASE main = "boot" -> "boot" [] main \in {"ended", "killed"} -> main
               [] OTHER -> "inStage"

Stage == INSTANCE StageProcess WITH phase <- MainPhase
ImplementsStageProcess == Stage!StageSpec

\* "wait for calling process to send SIGTERM": the process that is told to stop stops.
StopsWhenTold == told ~> ~Alive
=============================================================================
