-------------------------- MODULE HostStatsProofs --------------------------
(***************************************************************************)
(* Proofs about HostStats, for any flush period and any number of samples  *)
(* and faults.                                                             *)
(***************************************************************************)
EXTENDS HostStats, SequenceTheorems, TLAPS

\* The two threads take turns with the buffer: the main thread flushes only when the
\* sampler has ended, and a flush that did not end the way it should was refused.
TurnsTaken ==
    /\ main \in {"boot", "spawn"} => thread = "none"
    /\ thread = "none" => main \in {"boot", "spawn", "ended", "killed"}
    /\ main \in {"flush", "status", "statusError"} => thread \in {"ended", "dead"}
    /\ at["thread"] # 0 => thread \in {"flush", "dead"}
    /\ at["main"] # 0 => /\ main \in {"flush", "statusError", "ended", "killed"}
                         /\ thread \in {"ended", "dead"}
    /\ thread = "dead" /\ at["thread"] # 0 => refused
    /\ ~refused => at["main"] + at["thread"] <= Len(buffer)

\* The records a flush has counted are in the file.
CountedAreInFile ==
    \A p \in {"main", "thread"} : Flushing(p) =>
        /\ at[p] <= Len(buffer)
        /\ \A k \in 1 .. at[p] : \E j \in 1 .. Len(file) : file[j] = buffer[k]

\* Whatever the disk refuses, a sample is in the file or in the buffer.
SamplesAreKept ==
    \A i \in 1 .. Len(taken) :
        \/ \E j \in 1 .. Len(file) : file[j] = taken[i]
        \/ \E k \in 1 .. Len(buffer) : buffer[k] = taken[i]

\* The buffer is empty when the last flush has ended.
FlushedAtTheEnd ==
    /\ main = "status" => buffer = <<>>
    /\ main = "ended" /\ status = "ok" => buffer = <<>>
    /\ Alive => status = "none" /\ ~exitOk

SampleInv ==
    /\ TypeOK /\ TurnsTaken /\ CountedAreInFile /\ SamplesAreKept /\ FlushedAtTheEnd
    /\ FileAndBufferAreTaken

\* What the polls since the last flush can have put into the buffer.
PollsBuffered ==
    /\ TypeOK
    /\ main \in {"boot", "spawn"} => thread = "none"
    /\ thread \in {"test", "sample"} =>
           Len(buffer) <= IF count = 0 THEN FlushEvery - 1 ELSE count - 1
    /\ thread = "sleep" => Len(buffer) <= count
    /\ thread = "none" => Len(buffer) = 0
    /\ BufferBounded

-----------------------------------------------------------------------------
\* Appending is associative.
LEMMA ConcatOfThree ==
    ASSUME NEW f \in Seq(Nat), NEW g \in Seq(Nat), NEW h \in Seq(Nat)
    PROVE  (f \o g) \o h = f \o (g \o h)
  BY ConcatAssociative, SMTT(30)

\* Writing the record that follows the first k moves it from what is unwritten to the file.
LEMMA WriteOne ==
    ASSUME NEW f \in Seq(Nat), NEW b \in Seq(Nat), NEW k \in Nat, k < Len(b)
    PROVE  Append(f, b[k + 1]) \o SubSeq(b, k + 2, Len(b)) = f \o SubSeq(b, k + 1, Len(b))
  <1> DEFINE e == <<b[k + 1]>>
             t == SubSeq(b, k + 2, Len(b))
  <1>1. b[k + 1] \in Nat /\ e \in Seq(Nat)
    BY ElementOfSeq
  <1>2. t \in Seq(Nat)
    BY SubSeqProperties
  <1>3. SubSeq(b, k + 1, Len(b)) = e \o t
    <2>1. SubSeq(b, k + 1, Len(b)) = e \o SubSeq(b, (k + 1) + 1, Len(b))
      BY SubSeqRecursiveFirst
    <2>. QED
      BY <2>1
  <1>4. Append(f, b[k + 1]) = f \o e
    BY <1>1, AppendIsConcat
  <1>5. (f \o e) \o t = f \o (e \o t)
    <2> HIDE DEF e, t
    <2>. QED
      BY <1>1, <1>2, ConcatOfThree
  <1>. QED
    BY <1>3, <1>4, <1>5, Zenon

\* What is read goes behind everything read before.
LEMMA ReadOne ==
    ASSUME NEW f \in Seq(Nat), NEW b \in Seq(Nat), NEW x \in Nat
    PROVE  f \o Append(b, x) = Append(f \o b, x)
  <1>1. <<x>> \in Seq(Nat) /\ f \o b \in Seq(Nat)
    BY ConcatProperties
  <1>2. Append(b, x) = b \o <<x>> /\ Append(f \o b, x) = (f \o b) \o <<x>>
    BY <1>1, AppendIsConcat
  <1>. QED
    BY <1>1, <1>2, ConcatAssociative

-----------------------------------------------------------------------------
LEMMA HostStatsTypeInit == Init => TypeOK
  <1> SUFFICES ASSUME Init PROVE TypeOK
    OBVIOUS
  <1>1. monitor \in BOOLEAN /\ exitOk \in BOOLEAN /\ told \in BOOLEAN /\ refused \in BOOLEAN
    BY Zenon DEF Init
  <1>. QED
    BY <1>1, PeriodsAssumption DEF Init, TypeOK, MainPcs, ThreadPcs

LEMMA HostStatsTypeStep == TypeOK /\ [Next]_vars => TypeOK'
  <1> SUFFICES ASSUME TypeOK, [Next]_vars PROVE TypeOK'
    OBVIOUS
  <1> USE PeriodsAssumption DEF TypeOK, MainPcs, ThreadPcs, data, ending
  <1>1. CASE InstallHandler \/ SpawnSampler \/ Pause \/ StopMonitor \/ Join
    <2>1. monitor' \in BOOLEAN
      BY <1>1, Zenon DEF InstallHandler, SpawnSampler, Pause, StopMonitor, Join
    <2>. QED
      BY <1>1, <2>1 DEF InstallHandler, SpawnSampler, Pause, StopMonitor, Join
  <1>2. CASE Terminate
    BY <1>2 DEF Terminate
  <1>3. ASSUME NEW p \in {"main", "thread"}, WriteRecord(p) PROVE TypeOK'
    <2>1. buffer[at[p] + 1] \in Nat
      BY <1>3 DEF WriteRecord
    <2>. QED
      BY <1>3, <2>1, AppendProperties, SMTT(20) DEF WriteRecord
  <1>4. ASSUME NEW p \in {"main", "thread"}, ClearBuffer(p) PROVE TypeOK'
    BY <1>4 DEF ClearBuffer, AfterFlush
  <1>5. ASSUME NEW p \in {"main", "thread"}, WriteRefused(p) PROVE TypeOK'
    BY <1>5 DEF WriteRefused
  <1>6. CASE WriteStatus \/ Kill
    <2>1. exitOk' \in BOOLEAN
      BY <1>6, Zenon DEF WriteStatus, Kill
    <2>. QED
      BY <1>6, <2>1 DEF WriteStatus, Kill
  <1>7. CASE TestMonitor \/ Sleep
    BY <1>7 DEF TestMonitor, Sleep
  <1>8. CASE Sample
    <2>1. Len(taken) + 1 \in Nat
      OBVIOUS
    <2>2. buffer' \in Seq(Nat) /\ taken' \in Seq(Nat)
      <3>1. Append(buffer, Len(taken) + 1) \in Seq(Nat) /\ Append(taken, Len(taken) + 1) \in Seq(Nat)
        BY <2>1, AppendProperties
      <3>2. \/ UNCHANGED <<buffer, taken>>
            \/ /\ taken' = Append(taken, Len(taken) + 1)
               /\ buffer' = Append(buffer, Len(taken) + 1)
        BY <1>8 DEF Sample
      <3>. QED
        BY <3>1, <3>2
    <2>. QED
      BY <1>8, <2>2 DEF Sample
  <1>9. CASE UNCHANGED vars
    BY <1>9 DEF vars
  <1>. QED
    BY <1>1, <1>2, <1>3, <1>4, <1>5, <1>6, <1>7, <1>8, <1>9
    DEF Next, MainStep, ThreadStep, Flush

\* Every state of the process is of its type.
THEOREM HostStatsTypeCorrect == Spec => []TypeOK
  BY HostStatsTypeInit, HostStatsTypeStep, PTL DEF Spec

-----------------------------------------------------------------------------
LEMMA SampleInvInit == Init => SampleInv
  <1> SUFFICES ASSUME Init PROVE SampleInv
    OBVIOUS
  <1>1. TypeOK
    BY HostStatsTypeInit
  <1>2. TurnsTaken /\ SamplesAreKept /\ FlushedAtTheEnd
    BY DEF Init, TurnsTaken, SamplesAreKept, FlushedAtTheEnd, Alive
  <1>3. CountedAreInFile
    BY DEF Init, CountedAreInFile, Flushing
  <1>4. FileAndBufferAreTaken
    BY SubSeqEmpty DEF Init, FileAndBufferAreTaken, Unwritten
  <1>. QED
    BY <1>1, <1>2, <1>3, <1>4 DEF SampleInv

LEMMA SampleInvStep == SampleInv /\ [Next]_vars => SampleInv'
  <1> SUFFICES ASSUME SampleInv, [Next]_vars PROVE SampleInv'
    OBVIOUS
  <1>0. TypeOK /\ TypeOK'
    BY HostStatsTypeStep DEF SampleInv
  <1> USE DEF TurnsTaken, CountedAreInFile, SamplesAreKept, FlushedAtTheEnd, Flushing, Alive,
              data, ending
  <1>a. \A p \in {"main", "thread"} : at[p] \in Nat
    BY <1>0 DEF TypeOK
  <1>1. CASE InstallHandler \/ SpawnSampler \/ Pause \/ StopMonitor \/ Join
    <2>1. UNCHANGED data
      BY <1>1 DEF InstallHandler, SpawnSampler, Pause, StopMonitor, Join
    <2>2. (TurnsTaken /\ SamplesAreKept /\ FlushedAtTheEnd)'
      BY <1>0, <1>1, <2>1 DEF SampleInv, TypeOK, InstallHandler, SpawnSampler, Pause,
         StopMonitor, Join
    <2>3. CountedAreInFile'
      BY <1>0, <1>1, <2>1 DEF SampleInv, TypeOK, InstallHandler, SpawnSampler, Pause,
         StopMonitor, Join
    <2>4. FileAndBufferAreTaken'
      BY <2>1 DEF SampleInv, FileAndBufferAreTaken, Unwritten
    <2>. QED
      BY <1>0, <2>2, <2>3, <2>4 DEF SampleInv
  <1>2. CASE Terminate
    BY <1>0, <1>2 DEF SampleInv, Terminate, FileAndBufferAreTaken, Unwritten
  <1>3. ASSUME NEW p \in {"main", "thread"}, WriteRecord(p) PROVE SampleInv'
    <2> DEFINE k == at[p]
    <2>1. k \in Nat /\ k < Len(buffer) /\ buffer[k + 1] \in Nat
      BY <1>0, <1>3 DEF TypeOK, WriteRecord
    <2>2. /\ Len(file') = Len(file) + 1
          /\ \A j \in 1 .. Len(file) : file'[j] = file[j]
          /\ file'[Len(file) + 1] = buffer[k + 1]
      BY <1>0, <1>3, <2>1, AppendProperties DEF TypeOK, WriteRecord
    <2>3. TurnsTaken'
      BY <1>0, <1>3, <2>1, SMTT(20) DEF SampleInv, TypeOK, WriteRecord
    <2>4. CountedAreInFile'
      <3> SUFFICES ASSUME NEW q \in {"main", "thread"}, Flushing(q)
                   PROVE  /\ at'[q] <= Len(buffer)
                          /\ \A i \in 1 .. at'[q] :
                                \E j \in 1 .. Len(file') : file'[j] = buffer[i]
        BY <1>3 DEF WriteRecord
      <3>1. q = p
        BY <1>3 DEF SampleInv, WriteRecord
      <3>2. at'[q] = k + 1
        BY <1>0, <1>3, <3>1 DEF WriteRecord, TypeOK
      <3>3. \A i \in 1 .. k : \E j \in 1 .. Len(file) : file[j] = buffer[i]
        BY <1>3 DEF SampleInv, WriteRecord
      <3>4. Len(file) \in Nat /\ Len(buffer) \in Nat
        BY <1>0 DEF TypeOK
      <3>. QED
        <4>1. at'[q] <= Len(buffer)
          BY <2>1, <3>2, <3>4
        <4>2. ASSUME NEW i \in 1 .. k PROVE \E j \in 1 .. Len(file') : file'[j] = buffer[i]
          <5>1. PICK j \in 1 .. Len(file) : file[j] = buffer[i]
            BY <3>3
          <5>2. j \in 1 .. Len(file') /\ file'[j] = buffer[i]
            BY <2>2, <3>4, <5>1
          <5>. QED
            BY <5>2
        <4>3. Len(file) + 1 \in 1 .. Len(file') /\ file'[Len(file) + 1] = buffer[k + 1]
          BY <2>2, <3>4
        <4>4. ASSUME NEW i \in 1 .. at'[q] PROVE i \in 1 .. k \/ i = k + 1
          BY <2>1, <3>2
        <4>. QED
          BY <4>1, <4>2, <4>3, <4>4
    <2>5. SamplesAreKept'
      <3>1. Len(file) \in Nat
        BY <1>0 DEF TypeOK
      <3>. QED
        BY <1>3, <2>2, <3>1 DEF SampleInv, WriteRecord
    <2>6. FlushedAtTheEnd'
      BY <1>3 DEF SampleInv, WriteRecord
    <2>7. FileAndBufferAreTaken'
      <3> SUFFICES ASSUME ~refused
                   PROVE  (file \o Unwritten)' = taken
        BY <1>3 DEF WriteRecord, FileAndBufferAreTaken
      <3>1. at["main"] + at["thread"] = k /\ (at["main"] + at["thread"])' = k + 1
        BY <1>0, <1>3, SMTT(20) DEF SampleInv, WriteRecord, TypeOK
      <3>2. Unwritten = SubSeq(buffer, k + 1, Len(buffer))
        BY <3>1 DEF Unwritten
      <3>3. Unwritten' = SubSeq(buffer, k + 2, Len(buffer))
        <4>1. at'["main"] + at'["thread"] + 1 = k + 2
          BY <2>1, <3>1
        <4>2. buffer' = buffer
          BY <1>3 DEF WriteRecord
        <4>. QED
          BY <4>1, <4>2 DEF Unwritten
      <3>4. file' = Append(file, buffer[k + 1])
        BY <1>3 DEF WriteRecord
      <3>. QED
        BY <1>0, <2>1, <3>2, <3>3, <3>4, WriteOne, ZenonT(30) DEF SampleInv, FileAndBufferAreTaken, TypeOK
    <2>. QED
      BY <1>0, <2>3, <2>4, <2>5, <2>6, <2>7 DEF SampleInv
  <1>4. ASSUME NEW p \in {"main", "thread"}, ClearBuffer(p) PROVE SampleInv'
    <2>1. at[p] = Len(buffer) /\ Len(buffer') = 0 /\ Len(buffer) \in Nat /\ buffer' = <<>>
      BY <1>0, <1>4 DEF SampleInv, ClearBuffer, TypeOK
    <2>2. TurnsTaken'
      BY <1>0, <1>4, <2>1 DEF SampleInv, ClearBuffer, AfterFlush, TypeOK
    <2>3. CountedAreInFile'
      BY <1>0, <1>4 DEF SampleInv, ClearBuffer, AfterFlush, TypeOK
    <2>4. SamplesAreKept'
      <3>1. \A i \in 1 .. Len(buffer) : \E j \in 1 .. Len(file) : file[j] = buffer[i]
        BY <1>4, <2>1 DEF SampleInv, ClearBuffer
      <3>. QED
        BY <1>4, <3>1 DEF SampleInv, ClearBuffer
    <2>5. FlushedAtTheEnd'
      BY <1>4 DEF SampleInv, ClearBuffer, AfterFlush
    <2>6. FileAndBufferAreTaken'
      <3> SUFFICES ASSUME ~refused
                   PROVE  (file \o Unwritten)' = taken
        BY <1>4 DEF ClearBuffer, FileAndBufferAreTaken
      <3>1. at["main"] + at["thread"] = Len(buffer) /\ (at["main"] + at["thread"])' = 0
        BY <1>0, <1>4, <2>1 DEF SampleInv, ClearBuffer, TypeOK
      <3>2. Unwritten = <<>>
        BY <2>1, <3>1, SubSeqEmpty DEF Unwritten
      <3>3. Unwritten' = <<>>
        BY <2>1, <3>1, SubSeqEmpty DEF Unwritten
      <3>. QED
        BY <1>4, <3>2, <3>3 DEF SampleInv, FileAndBufferAreTaken, ClearBuffer
    <2>. QED
      BY <1>0, <2>2, <2>3, <2>4, <2>5, <2>6 DEF SampleInv
  <1>5. ASSUME NEW p \in {"main", "thread"}, WriteRefused(p) PROVE SampleInv'
    <2>1. UNCHANGED <<buffer, file, at, taken>>
      BY <1>5 DEF WriteRefused
    <2>2. SamplesAreKept' /\ FlushedAtTheEnd'
      BY <1>5, <2>1 DEF SampleInv, WriteRefused
    <2>3. CountedAreInFile'
      BY <1>5, <2>1 DEF SampleInv, WriteRefused
    <2>4. TurnsTaken'
      BY <1>0, <1>5, <2>1 DEF SampleInv, WriteRefused, TypeOK
    <2>5. FileAndBufferAreTaken'
      BY <1>5, <2>1 DEF SampleInv, WriteRefused, FileAndBufferAreTaken, Unwritten
    <2>. QED
      BY <1>0, <2>2, <2>3, <2>4, <2>5 DEF SampleInv
  <1>6. CASE WriteStatus \/ Kill
    <2>1. UNCHANGED <<buffer, file, at, taken>>
      BY <1>6 DEF WriteStatus, Kill
    <2>2. SamplesAreKept' /\ FlushedAtTheEnd'
      BY <1>6, <2>1 DEF SampleInv, WriteStatus, Kill
    <2>3. CountedAreInFile'
      BY <1>6, <2>1 DEF SampleInv, WriteStatus, Kill
    <2>4. TurnsTaken'
      BY <1>0, <1>6, <2>1 DEF SampleInv, WriteStatus, Kill, TypeOK
    <2>5. FileAndBufferAreTaken'
      BY <1>6, <2>1 DEF SampleInv, WriteStatus, Kill, FileAndBufferAreTaken, Unwritten
    <2>. QED
      BY <1>0, <2>2, <2>3, <2>4, <2>5 DEF SampleInv
  <1>7. CASE TestMonitor \/ Sleep
    <2>1. UNCHANGED <<buffer, file, at, taken>>
      BY <1>7 DEF TestMonitor, Sleep
    <2>2. SamplesAreKept' /\ FlushedAtTheEnd'
      BY <1>7, <2>1 DEF SampleInv, TestMonitor, Sleep
    <2>3. CountedAreInFile'
      BY <1>7, <2>1 DEF SampleInv, TestMonitor, Sleep
    <2>4. TurnsTaken'
      BY <1>0, <1>7, <2>1 DEF SampleInv, TestMonitor, Sleep, TypeOK
    <2>5. FileAndBufferAreTaken'
      BY <1>7, <2>1 DEF SampleInv, TestMonitor, Sleep, FileAndBufferAreTaken, Unwritten
    <2>. QED
      BY <1>0, <2>2, <2>3, <2>4, <2>5 DEF SampleInv
  <1>8. CASE Sample
    <2>1. CASE UNCHANGED <<buffer, taken>>
      <3>1. UNCHANGED <<buffer, file, at, taken>>
        BY <1>8, <2>1 DEF Sample
      <3>2. SamplesAreKept' /\ FlushedAtTheEnd'
        BY <1>8, <2>1, <3>1 DEF SampleInv, Sample
      <3>3. CountedAreInFile'
        BY <1>8, <2>1, <3>1 DEF SampleInv, Sample
      <3>4. TurnsTaken'
        BY <1>0, <1>8, <2>1, <3>1 DEF SampleInv, Sample, TypeOK
      <3>5. FileAndBufferAreTaken'
        BY <1>8, <2>1, <3>1 DEF SampleInv, Sample, FileAndBufferAreTaken, Unwritten
      <3>. QED
        BY <1>0, <3>2, <3>3, <3>4, <3>5 DEF SampleInv
    <2>2. CASE taken' = Append(taken, Len(taken) + 1) /\ buffer' = Append(buffer, Len(taken) + 1)
      <3> DEFINE x == Len(taken) + 1
      <3>1. x \in Nat /\ Len(buffer) \in Nat /\ Len(taken) \in Nat
        BY <1>0 DEF TypeOK
      <3>2. /\ Len(taken') = Len(taken) + 1 /\ taken'[Len(taken) + 1] = x
            /\ \A i \in 1 .. Len(taken) : taken'[i] = taken[i]
            /\ Len(buffer') = Len(buffer) + 1 /\ buffer'[Len(buffer) + 1] = x
            /\ \A i \in 1 .. Len(buffer) : buffer'[i] = buffer[i]
        BY <1>0, <2>2, <3>1, AppendProperties DEF TypeOK
      <3>3. /\ at["main"] = 0 /\ at["thread"] = 0 /\ main # "flush" /\ main # "status"
            /\ UNCHANGED <<main, file, at, refused, status, exitOk>>
            /\ thread = "sample" /\ thread' \in {"flush", "sleep", "dead"}
        BY <1>8 DEF SampleInv, Sample
      <3>4. TurnsTaken'
        BY <1>0, <1>8, <3>1, <3>2, <3>3 DEF SampleInv, TypeOK
      <3>5. CountedAreInFile'
        BY <3>1, <3>2, <3>3
      <3>6. SamplesAreKept'
        <4> SUFFICES ASSUME NEW i \in 1 .. Len(taken) + 1
                     PROVE  \/ \E j \in 1 .. Len(file) : file[j] = taken'[i]
                            \/ \E k \in 1 .. Len(buffer) + 1 : buffer'[k] = taken'[i]
          BY <3>2, <3>3
        <4>1. CASE i = Len(taken) + 1
          <5>1. Len(buffer) + 1 \in 1 .. Len(buffer) + 1
            BY <3>1
          <5>. QED
            BY <3>2, <4>1, <5>1
        <4>2. CASE i \in 1 .. Len(taken)
          <5>1. taken'[i] = taken[i]
            BY <3>2, <4>2
          <5>2. CASE \E j \in 1 .. Len(file) : file[j] = taken[i]
            BY <5>1, <5>2
          <5>3. ASSUME NEW k \in 1 .. Len(buffer), buffer[k] = taken[i] PROVE buffer'[k] = taken'[i] /\ k \in 1 .. Len(buffer) + 1
            BY <3>1, <3>2, <5>1, <5>3
          <5>. QED
            BY <4>2, <5>2, <5>3 DEF SampleInv
        <4>. QED
          BY <3>1, <4>1, <4>2
      <3>7. FlushedAtTheEnd'
        BY <1>8, <3>3 DEF SampleInv, Sample
      <3>8. FileAndBufferAreTaken'
        <4> SUFFICES ASSUME ~refused
                     PROVE  (file \o Unwritten)' = taken'
          BY <3>3 DEF FileAndBufferAreTaken
        <4>1. Unwritten = buffer /\ Unwritten' = buffer'
          BY <1>0, <3>3, SubSeqFull DEF Unwritten, TypeOK
        <4>2. file \o buffer = taken /\ file \in Seq(Nat) /\ buffer \in Seq(Nat)
          BY <1>0, <4>1 DEF SampleInv, FileAndBufferAreTaken, TypeOK
        <4>3. file \o Append(buffer, x) = Append(file \o buffer, x)
          BY <3>1, <4>2, ReadOne
        <4>4. file' = file /\ buffer' = Append(buffer, x) /\ taken' = Append(taken, x)
          BY <2>2, <3>3
        <4>5. (file \o Unwritten)' = file' \o buffer'
          BY <4>1
        <4>. QED
          BY <4>2, <4>3, <4>4, <4>5, Zenon
      <3>. QED
        BY <1>0, <3>4, <3>5, <3>6, <3>7, <3>8 DEF SampleInv
    <2>. QED
      BY <1>8, <2>1, <2>2 DEF Sample
  <1>9. CASE UNCHANGED vars
    BY <1>0, <1>9, ZenonT(30) DEF SampleInv, vars, FileAndBufferAreTaken, Unwritten, TypeOK
  <1>. QED
    BY <1>1, <1>2, <1>3, <1>4, <1>5, <1>6, <1>7, <1>8, <1>9
    DEF Next, MainStep, ThreadStep, Flush

LEMMA SampleInvAlways == Spec => []SampleInv
  BY SampleInvInit, SampleInvStep, PTL DEF Spec

\* The sampler's flush, the stop and the last flush of the main thread may interleave at
\* every record: nothing is lost, written twice or out of order unless the disk refuses.
THEOREM FileFollowsSamples == Spec => []FileAndBufferAreTaken
  <1>1. SampleInv => FileAndBufferAreTaken
    BY DEF SampleInv
  <1>. QED
    BY <1>1, SampleInvAlways, PTL

\* A process that reports success has every sample in host_stats.jsonl, even when the disk
\* refused the sampler's flush halfway: the last flush starts from the first record again.
THEOREM SuccessKeepsAll == Spec => []EndedKeepsAll
  <1>1. SampleInv => EndedKeepsAll
    BY DEF SampleInv, SamplesAreKept, FlushedAtTheEnd, EndedKeepsAll
  <1>. QED
    BY <1>1, SampleInvAlways, PTL
-----------------------------------------------------------------------------
LEMMA PollsBufferedInit == Init => PollsBuffered
  BY HostStatsTypeInit, PeriodsAssumption DEF Init, PollsBuffered, BufferBounded

LEMMA PollsBufferedStep == PollsBuffered /\ [Next]_vars => PollsBuffered'
  <1> SUFFICES ASSUME PollsBuffered, [Next]_vars PROVE PollsBuffered'
    OBVIOUS
  <1>0. TypeOK /\ TypeOK'
    BY HostStatsTypeStep DEF PollsBuffered
  <1>a. /\ count \in 0 .. FlushEvery - 1 /\ Len(buffer) \in Nat /\ FlushEvery \in Nat \ {0}
        /\ Len(taken) \in Nat
    BY <1>0, PeriodsAssumption DEF TypeOK
  <1> USE <1>a DEF BufferBounded, data, ending
  <1>1. CASE InstallHandler \/ SpawnSampler \/ Pause \/ StopMonitor \/ Join
    BY <1>0, <1>1 DEF PollsBuffered, InstallHandler, SpawnSampler, Pause, StopMonitor, Join
  <1>2. CASE Terminate \/ WriteStatus \/ Kill
    BY <1>0, <1>2 DEF PollsBuffered, Terminate, WriteStatus, Kill
  <1>3. ASSUME NEW p \in {"main", "thread"}, WriteRecord(p) \/ WriteRefused(p)
        PROVE  PollsBuffered'
    BY <1>0, <1>3 DEF PollsBuffered, WriteRecord, WriteRefused, Flushing
  <1>4. ASSUME NEW p \in {"main", "thread"}, ClearBuffer(p) PROVE PollsBuffered'
    BY <1>0, <1>4 DEF PollsBuffered, ClearBuffer, AfterFlush, Flushing
  <1>5. CASE TestMonitor
    BY <1>0, <1>5 DEF PollsBuffered, TestMonitor
  <1>6. CASE Sleep
    <2>1. /\ Len(buffer) <= count /\ thread' = "test" /\ buffer' = buffer
          /\ main' \notin {"boot", "spawn"}
      BY <1>6 DEF PollsBuffered, Sleep
    <2>2. CASE count = FlushEvery - 1
      <3>1. count' = 0
        BY <1>6, <2>2 DEF Sleep
      <3>. QED
        BY <1>0, <2>1, <2>2, <3>1 DEF PollsBuffered
    <2>3. CASE count < FlushEvery - 1
      <3>1. count' = count + 1
        BY <1>6, <2>3 DEF Sleep
      <3>. QED
        BY <1>0, <2>1, <2>3, <3>1 DEF PollsBuffered
    <2>. QED
      BY <2>2, <2>3
  <1>7. CASE Sample
    <2>1. FlushDue <=> count = 0
      BY DEF FlushDue
    <2>2. /\ thread = "sample" /\ count' = count /\ main' = main
          /\ \/ thread' = IF count = 0 THEN "flush" ELSE "sleep"
             \/ thread' = "dead"
      BY <1>7, <2>1 DEF Sample
    <2>3. \/ buffer' = buffer \/ Len(buffer') = Len(buffer) + 1
      BY <1>0, <1>7, AppendProperties DEF Sample, TypeOK
    <2>4. main \notin {"boot", "spawn"}
      BY <2>2 DEF PollsBuffered
    <2>5. Len(buffer) <= IF count = 0 THEN FlushEvery - 1 ELSE count - 1
      BY <2>2 DEF PollsBuffered
    <2>. QED
      BY <1>0, <2>2, <2>3, <2>4, <2>5 DEF PollsBuffered
  <1>8. CASE UNCHANGED vars
    BY <1>0, <1>8 DEF PollsBuffered, vars
  <1>. QED
    BY <1>1, <1>2, <1>3, <1>4, <1>5, <1>6, <1>7, <1>8
    DEF Next, MainStep, ThreadStep, Flush

\* However polls, flushes and refused writes follow one another, the buffer holds no more
\* than the polls between two flushes.
THEOREM BufferStaysBounded == Spec => []BufferBounded
  <1>1. PollsBuffered => BufferBounded
    BY DEF PollsBuffered
  <1>. QED
    BY <1>1, PollsBufferedInit, PollsBufferedStep, PTL DEF Spec

-----------------------------------------------------------------------------
\* The hoststats process ends as ComponentBase promises of every stage: the status file
\* and the exit code agree, and only a kill, a failure before execute_stage or a refused
\* status file ends it without.
THEOREM ImplementsStage == Spec => ImplementsStageProcess
  <1>1. Init => Stage!StageInit
    BY DEF Init, Stage!StageInit, MainPhase
  <1>2. SampleInv /\ [Next]_vars => [Stage!StageNext]_(Stage!stageVars)
    <2> SUFFICES ASSUME SampleInv, [Next]_vars
                 PROVE  Stage!StageNext \/ UNCHANGED Stage!stageVars
      BY DEF Stage!stageVars
    <2>0. Alive => status = "none" /\ ~exitOk
      BY DEF SampleInv, FlushedAtTheEnd
    <2> USE DEF MainPhase, Alive, ending, data, Stage!stageVars
    <2>1. CASE InstallHandler
      BY <2>0, <2>1 DEF InstallHandler, Stage!StageNext, Stage!Enter, Stage!InitFails
    <2>2. CASE SpawnSampler \/ Pause \/ StopMonitor \/ Join
      BY <2>2 DEF SpawnSampler, Pause, StopMonitor, Join
    <2>3. CASE Terminate
      BY <2>3 DEF Terminate, Stage!StageNext, Stage!Killed
    <2>4. ASSUME NEW p \in {"main", "thread"}, WriteRecord(p) \/ ClearBuffer(p) \/ WriteRefused(p)
          PROVE  UNCHANGED Stage!stageVars
      BY <2>4 DEF WriteRecord, ClearBuffer, AfterFlush, WriteRefused, Flushing
    <2>5. CASE WriteStatus
      BY <2>0, <2>5 DEF WriteStatus, Stage!StageNext, Stage!Finish, Stage!StatusRefused
    <2>6. CASE Kill
      BY <2>6 DEF Kill, Stage!StageNext, Stage!Killed
    <2>7. CASE TestMonitor \/ Sample \/ Sleep
      BY <2>7 DEF TestMonitor, Sample, Sleep
    <2>8. CASE UNCHANGED vars
      BY <2>8 DEF vars
    <2>. QED
      BY <2>1, <2>2, <2>3, <2>4, <2>5, <2>6, <2>7, <2>8
      DEF Next, MainStep, ThreadStep, Flush
  <1>. QED
    BY <1>1, <1>2, SampleInvAlways, PTL DEF Spec, ImplementsStageProcess, Stage!StageSpec
=============================================================================
