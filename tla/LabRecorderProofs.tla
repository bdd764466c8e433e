-------------------------- MODULE LabRecorderProofs --------------------------
(***************************************************************************)
(* Proofs about UsbQueue and LabRecorder, for every depth of the queue and *)
(* the history, any number of events, reports, earlier sessions and spoilt *)
(* prints: the two tasks never work on the same slot, the queue implements *)
(* BoundedFifo, and the recorder leaves it as it is and keeps              *)
(* SessionIsRecorded.                                                      *)
(*                                                                         *)
(* SessionIsRecorded counts what is missing from the files by the prints   *)
(* the card has spoilt.  It is not inductive: a cut line costs nothing     *)
(* more when it is written, but the next whole line, which will be joined  *)
(* to it, does.  LogOK and NotesOK count that one ahead (Trailing).        *)
(***************************************************************************)
EXTENDS LabRecorder, SequenceTheorems, FiniteSetTheorems, TLAPS

-----------------------------------------------------------------------------
(* The queue.                                                               *)

\* How far a slot is ahead of readIndex, going round.
Ahead(s) == IF readIndex <= s THEN s - readIndex ELSE s + kQueueDepth - readIndex

\* The USB task is past its check only while there is a free slot, and the
\* loop task only while there is a full one.
Reserved ==
    /\ wpc # "idle" => Increment(writeIndex) # readIndex /\ sent >= 1
    /\ rpc \in {"low", "high", "advance"} => readIndex # writeIndex

\* What each task has copied so far.
Copied ==
    /\ wpc = "high" => queue[writeIndex][1] = sent
    /\ wpc = "publish" => queue[writeIndex] = Whole(sent)
    /\ rpc = "high" => copy[1] = queue[readIndex][1]
    /\ rpc = "advance" => copy = queue[readIndex]

\* The slots from readIndex to writeIndex hold what was accepted and is still
\* to be taken out.
Content ==
    /\ Len(accepted) = Len(TakenOut) + Ahead(writeIndex)
    /\ \A s \in Slots : Ahead(s) < Ahead(writeIndex) =>
          queue[s] = accepted[Len(TakenOut) + Ahead(s) + 1]

IInv == TypeOK /\ Reserved /\ Copied /\ Content

-----------------------------------------------------------------------------
(* Empty queue, both tasks idle: nothing is queued and nothing is copied.   *)
LEMMA InitIInv == Init => IInv
  BY DepthIsEnough, MaxReportsIsNat
  DEF Init, IInv, TypeOK, Reserved, Copied, Content, TakenOut, Ahead, Slots, Halves, Report, Whole

(* Incrementing an index stays among the slots and moves it one ahead.      *)
LEMMA IncrementSlot ==
  ASSUME NEW i \in Slots
  PROVE  Increment(i) \in Slots /\ Increment(i) # i
  BY DepthIsEnough DEF Slots, Increment

(* Each access keeps the types; only Reserved bounds what TakenOut may      *)
(* append.                                                                  *)
LEMMA TypeStep == TypeOK /\ Reserved /\ [Next]_vars => TypeOK'
  <1> SUFFICES ASSUME TypeOK, Reserved, [Next]_vars PROVE TypeOK'
    OBVIOUS
  <1> USE DepthIsEnough, MaxReportsIsNat DEF TypeOK, Report, Halves
  <1>1. CASE OutputDropped
    BY <1>1 DEF OutputDropped, shared, reader
  <1>2. CASE OutputAdmitted
    BY <1>2 DEF OutputAdmitted, shared, reader
  <1>3. CASE WriteLow
    BY <1>3 DEF WriteLow, reader
  <1>4. CASE WriteHigh
    BY <1>4 DEF WriteHigh, reader
  <1>5. CASE Publish
    <2>1. Whole(sent) \in WholeReports
      BY <1>5 DEF Publish, Reserved, WholeReports
    <2>2. Increment(writeIndex) \in Slots
      BY IncrementSlot
    <2>. QED  BY <1>5, <2>1, <2>2 DEF Publish, reader
  <1>6. CASE Look
    BY <1>6 DEF Look, shared, writer
  <1>7. CASE ReadLow
    BY <1>7 DEF ReadLow, shared, writer
  <1>8. CASE ReadHigh
    BY <1>8 DEF ReadHigh, shared, writer
  <1>9. CASE Advance
    BY <1>9, IncrementSlot DEF Advance, writer
  <1>10. CASE Receive
    BY <1>10 DEF Receive, shared, writer
  <1>11. CASE UNCHANGED vars
    BY <1>11 DEF vars
  <1>. QED
    BY <1>1, <1>2, <1>3, <1>4, <1>5, <1>6, <1>7, <1>8, <1>9, <1>10, <1>11
    DEF Next, Output, Poll

(* The checks of both tasks stay valid until they act on them: each only    *)
(* moves its own index, towards more room for the other.                    *)
LEMMA ReservedStep == TypeOK /\ Reserved /\ [Next]_vars => Reserved'
  <1> SUFFICES ASSUME TypeOK, Reserved, [Next]_vars PROVE Reserved'
    OBVIOUS
  <1> USE DepthIsEnough DEF TypeOK, Reserved, Slots, Increment
  <1>1. CASE OutputDropped
    BY <1>1 DEF OutputDropped, shared, reader
  <1>2. CASE OutputAdmitted
    BY <1>2 DEF OutputAdmitted, Full, shared, reader
  <1>3. CASE WriteLow
    BY <1>3 DEF WriteLow, reader
  <1>4. CASE WriteHigh
    BY <1>4 DEF WriteHigh, reader
  <1>5. CASE Publish
    BY <1>5 DEF Publish, reader
  <1>6. CASE Look
    BY <1>6 DEF Look, Something, shared, writer
  <1>7. CASE ReadLow
    BY <1>7 DEF ReadLow, shared, writer
  <1>8. CASE ReadHigh
    BY <1>8 DEF ReadHigh, shared, writer
  <1>9. CASE Advance
    BY <1>9 DEF Advance, writer
  <1>10. CASE Receive
    BY <1>10 DEF Receive, shared, writer
  <1>11. CASE UNCHANGED vars
    BY <1>11 DEF vars
  <1>. QED
    BY <1>1, <1>2, <1>3, <1>4, <1>5, <1>6, <1>7, <1>8, <1>9, <1>10, <1>11
    DEF Next, Output, Poll

(* Half-made copies survive the other task's steps.                         *)
LEMMA CopiedStep == TypeOK /\ Reserved /\ Copied /\ [Next]_vars => Copied'
  <1> SUFFICES ASSUME TypeOK, Reserved, Copied, [Next]_vars PROVE Copied'
    OBVIOUS
  <1> USE DepthIsEnough DEF TypeOK, Reserved, Copied, Report, Whole
  <1>1. CASE OutputDropped
    BY <1>1 DEF OutputDropped, shared, reader
  <1>2. CASE OutputAdmitted
    BY <1>2 DEF OutputAdmitted, shared, reader
  <1>3. CASE WriteLow
    BY <1>3 DEF WriteLow, reader
  <1>4. CASE WriteHigh
    BY <1>4 DEF WriteHigh, reader
  <1>5. CASE Publish
    BY <1>5 DEF Publish, reader
  <1>6. CASE Look
    BY <1>6 DEF Look, shared, writer
  <1>7. CASE ReadLow
    BY <1>7 DEF ReadLow, shared, writer
  <1>8. CASE ReadHigh
    BY <1>8 DEF ReadHigh, shared, writer
  <1>9. CASE Advance
    BY <1>9 DEF Advance, writer
  <1>10. CASE Receive
    BY <1>10 DEF Receive, shared, writer
  <1>11. CASE UNCHANGED vars
    BY <1>11 DEF vars
  <1>. QED
    BY <1>1, <1>2, <1>3, <1>4, <1>5, <1>6, <1>7, <1>8, <1>9, <1>10, <1>11
    DEF Next, Output, Poll

-----------------------------------------------------------------------------
(* What the loop task has taken out is a sequence of reports.              *)
LEMMA TakenOutType == TypeOK => TakenOut \in Seq(Report)
  BY DEF TypeOK, TakenOut

(* Writing is done in the slot no waiting report occupies.                  *)
LEMMA WriteContent ==
  ASSUME TypeOK, Content, WriteLow \/ WriteHigh
  PROVE  Content'
  <1>1. UNCHANGED <<readIndex, writeIndex, accepted, rpc, copy, received>>
    BY DEF WriteLow, WriteHigh, reader
  <1>2. TakenOut' = TakenOut
    BY <1>1 DEF TakenOut
  <1>3. \A s \in Slots : Ahead(s)' = Ahead(s) /\ (s # writeIndex => queue'[s] = queue[s])
    BY <1>1 DEF Ahead, WriteLow, WriteHigh, TypeOK
  <1>4. Ahead(writeIndex)' = Ahead(writeIndex)
    BY <1>1 DEF Ahead
  <1>5. ASSUME NEW s \in Slots, Ahead(s) < Ahead(writeIndex)
        PROVE  queue'[s] = queue[s]
    <2>1. Ahead(s) \in Int
      BY DepthIsEnough DEF Ahead, TypeOK, Slots
    <2>2. s # writeIndex
      BY <1>5, <2>1
    <2>. QED  BY <2>2, <1>3
  <1>. QED  BY <1>1, <1>2, <1>3, <1>4, <1>5 DEF Content

(* Publishing puts the written slot behind the waiting ones.                *)
LEMMA PublishContent ==
  ASSUME TypeOK, Reserved, Copied, Content, Publish
  PROVE  Content'
  <1> USE DepthIsEnough
  <1>1. UNCHANGED <<queue, readIndex, rpc, copy, received>> /\ TakenOut' = TakenOut
    BY DEF Publish, reader, TakenOut
  <1>2. /\ Whole(sent) \in WholeReports
        /\ accepted' = Append(accepted, Whole(sent))
        /\ queue[writeIndex] = Whole(sent)
    BY DEF Publish, Reserved, Copied, TypeOK, WholeReports
  <1>3. /\ Len(accepted') = Len(accepted) + 1
        /\ accepted'[Len(accepted) + 1] = Whole(sent)
        /\ \A k \in 1 .. Len(accepted) : accepted'[k] = accepted[k]
    BY <1>2 DEF TypeOK
  <1>4. \A s \in Slots : Ahead(s)' = Ahead(s) /\ Ahead(s) \in Nat
    BY <1>1 DEF Ahead, TypeOK, Slots
  <1>5. Ahead(writeIndex)' = Ahead(writeIndex) + 1
    BY <1>1 DEF Publish, Reserved, Ahead, Increment, TypeOK, Slots
  <1>6. \A s \in Slots : Ahead(s) = Ahead(writeIndex) => s = writeIndex
    BY DEF Ahead, TypeOK, Slots
  <1>7. Len(TakenOut) \in Nat /\ Len(accepted) \in Nat
    BY TakenOutType DEF TypeOK
  <1>8. Len(accepted)' = Len(TakenOut)' + Ahead(writeIndex)'
    BY <1>1, <1>3, <1>5, <1>7, <1>4 DEF Content, TypeOK
  <1>9. ASSUME NEW s \in Slots, Ahead(s)' < Ahead(writeIndex)'
        PROVE  queue'[s] = accepted'[Len(TakenOut') + Ahead(s)' + 1]
    <2>1. CASE s = writeIndex
      BY <2>1, <1>1, <1>2, <1>3, <1>4, <1>7 DEF Content
    <2>2. CASE s # writeIndex
      <3>1. Ahead(s) < Ahead(writeIndex)
        BY <2>2, <1>9, <1>4, <1>5, <1>6 DEF TypeOK
      <3>2. Len(TakenOut) + Ahead(s) + 1 \in 1 .. Len(accepted)
        BY <3>1, <1>4, <1>7 DEF Content, TypeOK
      <3>. QED  BY <3>1, <3>2, <1>1, <1>3, <1>4 DEF Content
    <2>. QED  BY <2>1, <2>2
  <1>. QED  BY <1>8, <1>9 DEF Content

(* Freeing the slot at readIndex takes its report out.                      *)
LEMMA AdvanceContent ==
  ASSUME TypeOK, Reserved, Copied, Content, Advance
  PROVE  /\ Content'
         /\ Ahead(writeIndex) > 0
         /\ TakenOut' = Append(TakenOut, accepted[Len(TakenOut) + 1])
  <1> USE DepthIsEnough
  <1>1. /\ UNCHANGED <<queue, writeIndex, accepted, copy, received>>
        /\ readIndex # writeIndex /\ copy = queue[readIndex]
    BY DEF Advance, writer, Reserved, Copied
  <1>2. Ahead(readIndex) = 0 /\ Ahead(writeIndex) \in Nat /\ Ahead(writeIndex) > 0
    BY <1>1 DEF Ahead, TypeOK, Slots
  <1>3. TakenOut = received /\ TakenOut' = Append(received, copy)
    BY <1>1 DEF Advance, TakenOut
  <1>4. Len(TakenOut) \in Nat /\ Len(TakenOut') = Len(TakenOut) + 1
    BY <1>3 DEF TypeOK
  <1>5. copy = accepted[Len(TakenOut) + 1]
    BY <1>1, <1>2, <1>4 DEF Content, TypeOK
  <1>6. \A s \in Slots : s # readIndex => Ahead(s)' = Ahead(s) - 1 /\ Ahead(s) \in Nat
    BY DEF Advance, Ahead, Increment, TypeOK, Slots
  <1>7. Ahead(writeIndex)' = Ahead(writeIndex) - 1
    BY <1>1, <1>6 DEF TypeOK
  <1>8. \A s \in Slots : s = readIndex => Ahead(s)' = kQueueDepth - 1
    BY DEF Advance, Ahead, Increment, TypeOK, Slots
  <1>9. Len(accepted)' = Len(TakenOut)' + Ahead(writeIndex)'
    BY <1>1, <1>2, <1>4, <1>7 DEF Content
  <1>10. ASSUME NEW s \in Slots, Ahead(s)' < Ahead(writeIndex)'
         PROVE  queue'[s] = accepted'[Len(TakenOut') + Ahead(s)' + 1]
    <2>1. s # readIndex
      BY <1>10, <1>8, <1>7, <1>2, <1>1 DEF Ahead, TypeOK, Slots
    <2>. QED  BY <2>1, <1>10, <1>1, <1>2, <1>4, <1>6, <1>7 DEF Content
  <1>. QED  BY <1>2, <1>3, <1>5, <1>9, <1>10 DEF Content

(* Steps that leave the queue, the indexes and TakenOut alone.              *)
LEMMA SameContent ==
  ASSUME Content, UNCHANGED <<queue, readIndex, writeIndex, accepted>>, TakenOut' = TakenOut
  PROVE  Content'
  BY DEF Content, Ahead

\* What each step does to TakenOut and to the variables of Content.
LEMMA OtherContent ==
  ASSUME TypeOK, Content,
         OutputDropped \/ OutputAdmitted \/ Look \/ ReadLow \/ ReadHigh \/ Receive \/ UNCHANGED vars
  PROVE  Content' /\ TakenOut' = TakenOut /\ accepted' = accepted
  <1>1. UNCHANGED <<queue, readIndex, writeIndex, accepted>>
    BY DEF OutputDropped, OutputAdmitted, Look, ReadLow, ReadHigh, Receive, shared, writer, vars
  <1>2. TakenOut' = TakenOut
    BY DEF OutputDropped, OutputAdmitted, Look, ReadLow, ReadHigh, Receive, shared, writer,
           reader, vars, TakenOut, Something
  <1>. QED  BY <1>1, <1>2, SameContent

(* Every access of either task preserves the invariant.                    *)
LEMMA StepIInv == IInv /\ [Next]_vars => IInv'
  <1> SUFFICES ASSUME IInv, [Next]_vars PROVE IInv'
    OBVIOUS
  <1>1. TypeOK' /\ Reserved' /\ Copied'
    BY TypeStep, ReservedStep, CopiedStep DEF IInv
  <1>2. Content'
    BY WriteContent, PublishContent, AdvanceContent, OtherContent DEF IInv, Next, Output, Poll
  <1>. QED  BY <1>1, <1>2 DEF IInv

(* _onOutput and poll, interleaved one shared access at a time, keep the   *)
(* slots between the two indexes equal to the reports accepted and not yet *)
(* taken out.                                                              *)
THEOREM QueueIInv == Spec => []IInv
  BY InitIInv, StepIInv, PTL DEF Spec

(* Every variable keeps its type, whatever the depth and the traffic.       *)
THEOREM QueueTypeOK == Spec => []TypeOK
  <1>1. IInv => TypeOK
    BY DEF IInv
  <1>. QED  BY QueueIInv, <1>1, PTL

(* The USB task's copy into a slot and the loop task's copy out of one      *)
(* never meet.                                                              *)
THEOREM QueueNeverTheSameSlot == Spec => []NeverTheSameSlot
  <1>1. IInv => NeverTheSameSlot
    BY DEF IInv, Reserved, NeverTheSameSlot
  <1>. QED  BY QueueIInv, <1>1, PTL

-----------------------------------------------------------------------------
\* The queue is full, or has room, exactly when the abstract one does.
LEMMA FullMeansFull ==
  ASSUME TypeOK, Content
  PROVE  /\ Fifo!Waiting = Ahead(writeIndex)
         /\ Full => Ahead(writeIndex) = kQueueDepth - 1
         /\ ~Full => Ahead(writeIndex) < kQueueDepth - 1
  <1>1. Len(TakenOut) \in Nat /\ Len(accepted) \in Nat
    BY TakenOutType DEF TypeOK
  <1>2. Fifo!Waiting = Ahead(writeIndex)
    BY <1>1, DepthIsEnough DEF Fifo!Waiting, Content, Ahead, TypeOK, Slots
  <1>3. /\ Full => Ahead(writeIndex) = kQueueDepth - 1
        /\ ~Full => Ahead(writeIndex) < kQueueDepth - 1
    BY DepthIsEnough DEF Full, Increment, Ahead, TypeOK, Slots
  <1>. QED  BY <1>2, <1>3

(* Publishing is the put of the bounded FIFO, advancing its get, and every *)
(* other access leaves it as it is.                                        *)
LEMMA StepFifo == IInv /\ [Next]_vars => [Fifo!Next]_(Fifo!fifo)
  <1> SUFFICES ASSUME IInv, [Next]_vars PROVE [Fifo!Next]_(Fifo!fifo)
    OBVIOUS
  <1> USE DEF IInv, Fifo!fifo, Fifo!Next
  <1>1. CASE OutputDropped
    <2>1. TakenOut' = TakenOut
      BY <1>1, OtherContent
    <2>. QED
      BY <1>1, <2>1, FullMeansFull DEF OutputDropped, Fifo!Refuse
  <1>2. CASE Publish
    <2>1. TakenOut' = TakenOut /\ dropped' = dropped
      BY <1>2 DEF Publish, reader, TakenOut
    <2>2. Fifo!Waiting < kQueueDepth - 1
      BY <1>2, FullMeansFull DEF Publish, Reserved, Full
    <2>3. Whole(sent) \in WholeReports /\ accepted' = Append(accepted, Whole(sent))
      BY <1>2 DEF Publish, Reserved, TypeOK, WholeReports
    <2>. QED  BY <2>1, <2>2, <2>3 DEF Fifo!Accept
  <1>3. CASE Advance
    <2>1. UNCHANGED <<accepted, dropped>>
      BY <1>3 DEF Advance, writer
    <2>2. Fifo!Waiting > 0
      BY <1>3, FullMeansFull, AdvanceContent
    <2>. QED  BY <1>3, <2>1, <2>2, AdvanceContent DEF Fifo!Take
  <1>4. CASE WriteLow \/ WriteHigh
    BY <1>4 DEF WriteLow, WriteHigh, reader, TakenOut
  <1>5. CASE OutputAdmitted \/ Look \/ ReadLow \/ ReadHigh \/ Receive \/ UNCHANGED vars
    <2>1. TakenOut' = TakenOut /\ accepted' = accepted
      BY <1>5, OtherContent
    <2>2. dropped' = dropped
      BY <1>5 DEF OutputAdmitted, Look, ReadLow, ReadHigh, Receive, writer, vars
    <2>. QED  BY <2>1, <2>2
  <1>. QED
    BY <1>1, <1>2, <1>3, <1>4, <1>5 DEF Next, Output, Poll

(* poll() hands receivePacket whole reports, once each, in the order the    *)
(* USB task accepted them, and a report is dropped only with the queue full *)
(* - for every depth of the queue and every schedule of the two tasks.      *)
THEOREM QueueIsFifo == Spec => IsFifo
  <1>1. Init => Fifo!Init
    BY DEF Init, Fifo!Init, TakenOut
  <1>. QED  BY <1>1, QueueIInv, StepFifo, PTL DEF Spec, IsFifo, Fifo!Spec

-----------------------------------------------------------------------------
(* The queue with the recorder behind it.                                   *)

(* Every step of the recorder is a step of the queue, or leaves it alone:   *)
(* what is shown of UsbQueue holds with the recorder.                       *)
THEOREM RecorderKeepsQueue == LabSpec => Spec
<1>1. LabInit => Init
  BY DEF LabInit
<1>2. [LabNext]_labVars => [Next]_vars
  BY DEF LabNext, LabPoll, recordBoot, PollStep, Handle, AdminWiped, OutputStep, Next, Poll, labVars
<1> QED
  BY <1>1, <1>2, PTL DEF LabSpec, Spec

(* With the recorder behind the queue, too, the two copies never meet.      *)
THEOREM RecorderNeverTheSameSlot == LabSpec => []NeverTheSameSlot
BY RecorderKeepsQueue, QueueNeverTheSameSlot, PTL

(* The commands get the reports in order, once and whole, while every event *)
(* is recorded.                                                             *)
THEOREM RecorderIsFifo == LabSpec => IsFifo
BY RecorderKeepsQueue, QueueIsFifo, PTL

-----------------------------------------------------------------------------
(* The lines of a file; no line has the name of a private relying party.    *)
Names == Public \cup {"", "redacted"}
Line == [seq : Nat, rp : Names \cup {"no file"}, whole : BOOLEAN]
Event == [rp : Public \cup {"", "private"}, proof : BOOLEAN]

RecorderTypes ==
    /\ sessions \in [SessionNumbers -> Seq(Line)] /\ proofs \in [SessionNumbers -> Seq(Line)]
    /\ session \in 0 .. MaxSession /\ sdReady \in BOOLEAN
    /\ seq \in Nat /\ faults \in Nat /\ events \in Seq(Event) /\ Len(events) = seq
    /\ history \in [0 .. kHistoryDepth - 1 -> Names \cup {"none"}]
    /\ historyNext \in 0 .. kHistoryDepth - 1
    /\ sdReady => session # 0 /\ proofs[session] # NoFile

\* The next whole line will be joined to the last one.
Trailing(lines) == IF lines # <<>> /\ ~lines[Len(lines)].whole THEN 1 ELSE 0

\* Tells and Proofs, of any events.
TellsOf(lines, evs) ==
    \A i \in DOMAIN lines :
        lines[i].seq \in 1 .. Len(evs) /\ lines[i].rp = Redacted(evs[lines[i].seq].rp)
ProofsOf(evs) == {n \in DOMAIN evs : evs[n].proof}

(* The log after the events evs and k faults.  A cut line has paid for the  *)
(* line that will be joined to it, and what is missing at the end of the    *)
(* file was lost to a fault.                                                *)
LogOK(log, ready, evs, k) ==
    /\ InOrder(log) /\ TellsOf(log, evs)
    /\ Cardinality((1 .. IF ready THEN Len(evs) ELSE Last(log)) \ Readable(log)) + Trailing(log) <= 2 * k
    /\ ready => Len(evs) <= Last(log) + k

NotesOK(notes, log, ready, evs, k) ==
    /\ InOrder(notes) /\ TellsOf(notes, evs)
    /\ Readable(notes) \subseteq ProofsOf(evs)
    /\ \A n \in Readable(notes) : n <= Last(log) + 1 + k
    /\ ready => Cardinality(ProofsOf(evs) \ Readable(notes)) + Trailing(notes) <= 2 * k

FilesInv ==
    session # 0 =>
        /\ sdReady = (statusLine = "SD ready")
        /\ LogOK(sessions[session], sdReady, events, faults)
        /\ proofs[session] # NoFile =>
              NotesOK(proofs[session], sessions[session], sdReady, events, faults)

RecorderInv == RecorderTypes /\ FilesInv /\ EarlierSessionsStay /\ HistoryIsLatest

-----------------------------------------------------------------------------
(* A file and a line that is put behind it.                                 *)

LEMMA RedactedIs == \A rp : Redacted(rp) \in Names
BY DEF Redacted, Names

LEMMA FileIs ==
    ASSUME NEW f \in Seq(Line)
    PROVE  /\ Len(f) \in Nat /\ DOMAIN f = 1 .. Len(f) /\ Last(f) \in Nat /\ Trailing(f) \in {0, 1}
           /\ \A i \in DOMAIN f : f[i] \in Line /\ f[i].seq \in Nat /\ f[i].whole \in BOOLEAN
           /\ Readable(f) \subseteq {f[i].seq : i \in DOMAIN f}
<1>1. Len(f) \in Nat /\ DOMAIN f = 1 .. Len(f) /\ \A i \in DOMAIN f : f[i] \in Line
  BY LenProperties, ElementOfSeq
<1>2. \A i \in DOMAIN f : f[i].seq \in Nat /\ f[i].whole \in BOOLEAN
  BY <1>1 DEF Line
<1>3. f # <<>> => Len(f) \in DOMAIN f
  BY <1>1, EmptySeq
<1>4. Last(f) \in Nat
  BY <1>2, <1>3 DEF Last
<1>5. Trailing(f) \in {0, 1}
  BY DEF Trailing
<1>6. Readable(f) \subseteq {f[i].seq : i \in DOMAIN f}
  BY DEF Readable
<1> QED
  BY <1>1, <1>2, <1>4, <1>5, <1>6

LEMMA AppendIs ==
    ASSUME NEW f \in Seq(Line), NEW l \in Line
    PROVE  LET g == Append(f, l) IN
           /\ g \in Seq(Line) /\ g # <<>> /\ Len(g) = Len(f) + 1
           /\ \A i \in 1 .. Len(f) : g[i] = f[i]
           /\ g[Len(f) + 1] = l
           /\ Last(g) = l.seq
           /\ Trailing(g) = IF l.whole THEN 0 ELSE 1
<1> DEFINE g == Append(f, l)
<1>1. /\ g \in Seq(Line) /\ g # <<>> /\ Len(g) = Len(f) + 1
      /\ \A i \in 1 .. Len(f) : g[i] = f[i]
      /\ g[Len(f) + 1] = l
  BY AppendProperties
<1> HIDE DEF g
<1>2. Last(g) = l.seq
  BY <1>1 DEF Last
<1>3. Trailing(g) = IF l.whole THEN 0 ELSE 1
  BY <1>1 DEF Trailing
<1> QED
  BY <1>1, <1>2, <1>3 DEF g

(* The new line can be read unless it is cut itself or joined to one.       *)
LEMMA AppendReadable ==
    ASSUME NEW f \in Seq(Line), NEW l \in Line
    PROVE  Readable(Append(f, l)) =
              Readable(f) \cup IF l.whole /\ Trailing(f) = 0 THEN {l.seq} ELSE {}
<1> DEFINE g == Append(f, l)
           n == Len(f)
           Ends(h, i) == h[i].whole /\ (i = 1 \/ h[i - 1].whole)
<1>1. n \in Nat /\ DOMAIN f = 1 .. n
  BY FileIs
<1>2. /\ g \in Seq(Line) /\ Len(g) = n + 1 /\ \A i \in 1 .. n : g[i] = f[i]
      /\ g[n + 1] = l
  BY AppendIs
<1>3. DOMAIN g = 1 .. n + 1
  BY <1>2, FileIs
<1>4. l.whole \in BOOLEAN
  BY DEF Line
<1> HIDE DEF g
<1>5. f = <<>> <=> n = 0
  BY EmptySeq DEF n
<1>6. \A i \in 1 .. n : Ends(g, i) <=> Ends(f, i)
  <2> TAKE i \in 1 .. n
  <2>1. i # 1 => i - 1 \in 1 .. n
    BY <1>1
  <2> QED
    BY <1>2, <2>1
<1>7. Ends(g, n + 1) <=> l.whole /\ Trailing(f) = 0
  <2>1. n + 1 - 1 = n /\ (n + 1 = 1 <=> n = 0)
    BY <1>1
  <2>2. CASE n = 0
    BY <1>2, <1>5, <2>1, <2>2 DEF Trailing
  <2>3. CASE n # 0
    <3>1. g[n] = f[n] /\ f[n].whole \in BOOLEAN
      BY <1>1, <1>2, <2>3, FileIs
    <3>2. Trailing(f) = 0 <=> f[n].whole
      BY <1>5, <2>3, <3>1 DEF Trailing, n
    <3> QED
      BY <1>2, <2>1, <2>3, <3>1, <3>2
  <2> QED
    BY <2>2, <2>3
<1>8. Readable(f) = {f[i].seq : i \in {j \in 1 .. n : Ends(f, j)}}
  BY <1>1 DEF Readable
<1>9. Readable(g) = {g[i].seq : i \in {j \in 1 .. n + 1 : Ends(g, j)}}
  BY <1>3 DEF Readable
<1> HIDE DEF Ends, n
<1>10. ASSUME NEW x PROVE x \in Readable(g) <=> x \in Readable(f) \/ (l.whole /\ Trailing(f) = 0 /\ x = l.seq)
  <2>1. x \in Readable(g) <=> \E i \in 1 .. n + 1 : Ends(g, i) /\ x = g[i].seq
    BY <1>9
  <2>2. x \in Readable(f) <=> \E i \in 1 .. n : Ends(f, i) /\ x = f[i].seq
    BY <1>8
  <2>3. \A i : i \in 1 .. n + 1 <=> i \in 1 .. n \/ i = n + 1
    BY <1>1
  <2> QED
    BY <1>2, <1>6, <1>7, <2>1, <2>2, <2>3
<1> QED
  BY <1>10 DEF g

LEMMA AppendInOrder ==
    ASSUME NEW f \in Seq(Line), NEW l \in Line, InOrder(f), \A i \in DOMAIN f : f[i].seq < l.seq
    PROVE  InOrder(Append(f, l))
<1> DEFINE g == Append(f, l)
           n == Len(f)
<1>1. n \in Nat /\ DOMAIN f = 1 .. n
  BY FileIs
<1>2. g \in Seq(Line) /\ Len(g) = n + 1 /\ (\A i \in 1 .. n : g[i] = f[i]) /\ g[n + 1] = l
  BY AppendIs
<1>3. DOMAIN g = 1 .. n + 1
  BY <1>2, FileIs
<1> HIDE DEF g, n
<1>4. ASSUME NEW i \in 1 .. n + 1, NEW j \in 1 .. n + 1, i < j PROVE g[i].seq < g[j].seq
  <2>1. i \in 1 .. n /\ g[i] = f[i]
    BY <1>1, <1>2, <1>4
  <2>2. CASE j = n + 1
    BY <1>1, <1>2, <2>1, <2>2
  <2>3. CASE j \in 1 .. n
    BY <1>1, <1>2, <1>4, <2>1, <2>3 DEF InOrder
  <2> QED
    BY <1>1, <2>2, <2>3
<1> QED
  BY <1>3, <1>4 DEF InOrder, g

(* Another event leaves what a file tells as true as it was.                *)
LEMMA EventIs ==
    ASSUME NEW evs \in Seq(Event), NEW e \in Event
    PROVE  LET more == Append(evs, e)
               n == Len(evs) + 1
           IN  /\ more \in Seq(Event) /\ Len(more) = n /\ Len(evs) \in Nat /\ more[n] = e
               /\ \A i \in 1 .. Len(evs) : more[i] = evs[i]
               /\ \A f : TellsOf(f, evs) => TellsOf(f, more)
               /\ ProofsOf(more) = ProofsOf(evs) \cup IF e.proof THEN {n} ELSE {}
               /\ ProofsOf(evs) \subseteq 1 .. Len(evs) /\ IsFiniteSet(ProofsOf(evs))
<1> DEFINE more == Append(evs, e)
           m == Len(evs)
<1>1. m \in Nat /\ DOMAIN evs = 1 .. m
  BY LenProperties
<1>2. more \in Seq(Event) /\ Len(more) = m + 1 /\ more[m + 1] = e /\ \A i \in 1 .. m : more[i] = evs[i]
  BY AppendProperties
<1>3. DOMAIN more = 1 .. m + 1
  BY <1>2, LenProperties
<1> HIDE DEF more, m
<1>4. 1 .. m + 1 = (1 .. m) \cup {m + 1}
  BY <1>1
<1>5. \A f : TellsOf(f, evs) => TellsOf(f, more)
  BY <1>1, <1>2, <1>4 DEF TellsOf, m
<1>6. ProofsOf(evs) = {i \in 1 .. m : evs[i].proof} /\ ProofsOf(more) = {i \in 1 .. m + 1 : more[i].proof}
  BY <1>1, <1>3 DEF ProofsOf
<1>7. ProofsOf(more) = ProofsOf(evs) \cup IF e.proof THEN {m + 1} ELSE {}
  <2>1. ASSUME NEW x PROVE x \in ProofsOf(more) <=> x \in ProofsOf(evs) \/ (e.proof /\ x = m + 1)
    BY <1>1, <1>2, <1>4, <1>6
  <2> QED
    BY <2>1
<1>8. ProofsOf(evs) \subseteq 1 .. m /\ IsFiniteSet(ProofsOf(evs))
  <2>1. ProofsOf(evs) \in SUBSET (1 .. m) /\ IsFiniteSet(1 .. m)
    BY <1>1, <1>6, FS_Interval
  <2> QED
    BY <2>1, FS_Subset
<1> QED
  BY <1>1, <1>2, <1>5, <1>7, <1>8 DEF more, m

LEMMA KeptIs ==
    ASSUME NEW f \in Seq(Line), NEW evs \in Seq(Event), NEW e \in Event, NEW outcome \in Outcomes,
           InOrder(f), TellsOf(f, evs)
    PROVE  LET n == Len(evs) + 1
               g == Kept(f, n, e, outcome)
           IN  /\ g \in Seq(Line) /\ InOrder(g) /\ TellsOf(g, Append(evs, e))
               /\ f # NoFile => g # NoFile
               /\ Last(g) = IF outcome = "lost" THEN Last(f) ELSE n
               /\ Readable(g) = Readable(f) \cup IF outcome = "whole" /\ Trailing(f) = 0 THEN {n} ELSE {}
               /\ Trailing(g) = IF outcome = "lost" THEN Trailing(f) ELSE IF outcome = "whole" THEN 0 ELSE 1
<1> DEFINE n == Len(evs) + 1
           l == [seq |-> n, rp |-> Redacted(e.rp), whole |-> outcome = "whole"]
           more == Append(evs, e)
           g == Append(f, l)
<1>1. Len(evs) \in Nat /\ n \in Nat /\ n # 0 /\ more[n] = e /\ Len(more) = n /\ TellsOf(f, more)
  BY EventIs
<1>2. CASE outcome = "lost"
  <2>1. Kept(f, n, e, outcome) = f
    BY <1>2 DEF Kept
  <2>2. (IF outcome = "whole" /\ Trailing(f) = 0 THEN {n} ELSE {}) = {}
    BY <1>2
  <2> QED
    BY <1>1, <1>2, <2>1, <2>2
<1>3. CASE outcome # "lost"
  <2>1. Kept(f, n, e, outcome) = g
    BY <1>3 DEF Kept
  <2>2. l \in Line /\ l.seq = n /\ l.rp = Redacted(e.rp) /\ (l.whole <=> outcome = "whole")
    BY <1>1, RedactedIs DEF Line
  <2> HIDE DEF l, more, n
  <2>3. /\ g \in Seq(Line) /\ Len(g) = Len(f) + 1
        /\ \A i \in 1 .. Len(f) : g[i] = f[i]
        /\ g[Len(f) + 1] = l /\ Last(g) = n
        /\ Trailing(g) = IF l.whole THEN 0 ELSE 1
    BY <2>2, AppendIs
  <2>4. Readable(g) = Readable(f) \cup IF l.whole /\ Trailing(f) = 0 THEN {n} ELSE {}
    BY <2>2, AppendReadable
  <2>5. Len(f) \in Nat /\ DOMAIN f = 1 .. Len(f)
    BY FileIs
  <2> HIDE DEF g
  <2>6. DOMAIN g = 1 .. Len(f) + 1
    BY <2>3, FileIs
  <2>7. InOrder(g)
    <3>1. \A i \in DOMAIN f : f[i].seq < l.seq
      BY <1>1, <2>2 DEF TellsOf, n
    <3> QED
      BY <2>2, <3>1, AppendInOrder DEF g
  <2>8. TellsOf(g, more)
    <3>1. \A i \in 1 .. Len(f) : g[i].seq \in 1 .. Len(more) /\ g[i].rp = Redacted(more[g[i].seq].rp)
      BY <1>1, <2>3, <2>5 DEF TellsOf
    <3>2. g[Len(f) + 1].seq \in 1 .. Len(more) /\ g[Len(f) + 1].rp = Redacted(more[g[Len(f) + 1].seq].rp)
      BY <1>1, <2>2, <2>3
    <3>3. \A i \in 1 .. Len(f) + 1 : i \in 1 .. Len(f) \/ i = Len(f) + 1
      BY <2>5
    <3> QED
      BY <2>6, <3>1, <3>2, <3>3 DEF TellsOf
  <2>9. g # NoFile
    <3>1. NoFile[1].seq = 0 /\ Len(NoFile) = 1
      BY DEF NoFile
    <3>2. Len(g) = 1 => g[1].seq = n
      BY <2>2, <2>3, <2>5
    <3> QED
      BY <1>1, <3>1, <3>2
  <2>10. /\ Readable(g) = Readable(f) \cup IF outcome = "whole" /\ Trailing(f) = 0 THEN {n} ELSE {}
         /\ Trailing(g) = IF outcome = "whole" THEN 0 ELSE 1
    BY <2>2, <2>3, <2>4
  <2> QED
    BY <1>3, <2>1, <2>3, <2>7, <2>8, <2>9, <2>10 DEF n, more
<1> QED
  BY <1>2, <1>3

-----------------------------------------------------------------------------
(* What is missing is paid for.                                             *)

Cost(outcome) == IF outcome = "whole" THEN 0 ELSE 1

LEMMA FaultsAre ==
    ASSUME NEW log \in Outcomes, NEW note \in Outcomes
    PROVE  Faults(<<log, note>>) = Cost(log) + Cost(note)
<1> DEFINE o == <<log, note>>
           S == {i \in DOMAIN o : o[i] # "whole"}
<1>1. DOMAIN o = {1, 2} /\ o[1] = log /\ o[2] = note
  OBVIOUS
<1>2. S = (IF log = "whole" THEN {} ELSE {1}) \cup (IF note = "whole" THEN {} ELSE {2})
  BY <1>1
<1> HIDE DEF S
<1>3. Cardinality({}) = 0 /\ Cardinality({1}) = 1 /\ Cardinality({2}) = 1 /\ Cardinality({1} \cup {2}) = 2
  <2>1. IsFiniteSet({1}) /\ Cardinality({1}) = 1 /\ Cardinality({2}) = 1
    BY FS_Singleton
  <2>2. Cardinality({1} \cup {2}) = IF 2 \in {1} THEN Cardinality({1}) ELSE Cardinality({1}) + 1
    BY <2>1, FS_AddElement
  <2> QED
    BY <2>1, <2>2, FS_EmptySet
<1>4. CASE log = "whole" /\ note = "whole"
  <2>1. S = {}
    BY <1>2, <1>4
  <2> QED
    BY <1>3, <1>4, <2>1 DEF Faults, Cost, S
<1>5. CASE log = "whole" /\ note # "whole"
  <2>1. S = {2}
    BY <1>2, <1>5
  <2> QED
    BY <1>3, <1>5, <2>1 DEF Faults, Cost, S
<1>6. CASE log # "whole" /\ note = "whole"
  <2>1. S = {1}
    BY <1>2, <1>6
  <2> QED
    BY <1>3, <1>6, <2>1 DEF Faults, Cost, S
<1>7. CASE log # "whole" /\ note # "whole"
  <2>1. S = {1} \cup {2}
    BY <1>2, <1>7
  <2> QED
    BY <1>3, <1>7, <2>1 DEF Faults, Cost, S
<1> QED
  BY <1>4, <1>5, <1>6, <1>7

(* A print the card spoils costs at most two events of those wanted: its    *)
(* own and the one that is joined to it.                                    *)
LEMMA CostIs ==
    ASSUME NEW f \in Seq(Line), NEW evs \in Seq(Event), NEW e \in Event, NEW outcome \in Outcomes,
           InOrder(f), TellsOf(f, evs),
           NEW S, IsFiniteSet(S), NEW k \in Nat, Cardinality(S \ Readable(f)) + Trailing(f) <= 2 * k
    PROVE  LET n == Len(evs) + 1
               g == Kept(f, n, e, outcome)
           IN  Cardinality((S \cup {n}) \ Readable(g)) + Trailing(g) <= 2 * (k + Cost(outcome))
<1> DEFINE n == Len(evs) + 1
           g == Kept(f, n, e, outcome)
           A == S \ Readable(f)
           B == (S \cup {n}) \ Readable(g)
<1>1. /\ Readable(g) = Readable(f) \cup IF outcome = "whole" /\ Trailing(f) = 0 THEN {n} ELSE {}
      /\ Trailing(g) = IF outcome = "lost" THEN Trailing(f) ELSE IF outcome = "whole" THEN 0 ELSE 1
  BY KeptIs
<1>2. Trailing(f) \in {0, 1}
  BY FileIs
<1>3. IsFiniteSet(A) /\ Cardinality(A) \in Nat
  <2>1. A \in SUBSET S
    OBVIOUS
  <2>2. IsFiniteSet(A)
    BY <2>1, FS_Subset
  <2> QED
    BY <2>2, FS_CardinalityType
<1>4. B \in SUBSET (A \cup {n}) /\ (outcome = "whole" /\ Trailing(f) = 0 => B \in SUBSET A)
  BY <1>1
<1> HIDE DEF A, B, g, n
<1>5. IsFiniteSet(A \cup {n}) /\ Cardinality(A \cup {n}) \in Nat /\ Cardinality(A \cup {n}) <= Cardinality(A) + 1
  <2>1. /\ IsFiniteSet(A \cup {n})
        /\ Cardinality(A \cup {n}) = IF n \in A THEN Cardinality(A) ELSE Cardinality(A) + 1
    BY <1>3, FS_AddElement
  <2> QED
    BY <1>3, <2>1
<1>6. IsFiniteSet(B) /\ Cardinality(B) <= Cardinality(A \cup {n})
  BY <1>4, <1>5, FS_Subset
<1>7. outcome = "whole" /\ Trailing(f) = 0 => Cardinality(B) <= Cardinality(A)
  BY <1>3, <1>4, FS_Subset
<1>8. Cardinality(B) \in Nat
  BY <1>6, FS_CardinalityType
<1>9. Cardinality(A) + Trailing(f) <= 2 * k
  BY DEF A
<1>10. Cardinality(B) + Trailing(g) <= 2 * (k + Cost(outcome))
  <2>1. CASE outcome = "whole" /\ Trailing(f) = 0
    <3>1. Trailing(g) = 0 /\ Cost(outcome) = 0
      BY <1>1, <2>1 DEF Cost
    <3> QED
      BY <1>2, <1>3, <1>7, <1>8, <1>9, <2>1, <3>1
  <2>2. CASE outcome = "whole" /\ Trailing(f) = 1
    <3>1. Trailing(g) = 0 /\ Cost(outcome) = 0
      BY <1>1, <2>2 DEF Cost
    <3> QED
      BY <1>3, <1>5, <1>6, <1>8, <1>9, <2>2, <3>1
  <2>3. CASE outcome # "whole"
    <3>1. Trailing(g) <= 1 + Trailing(f) /\ Cost(outcome) = 1 /\ Trailing(g) \in {0, 1}
      BY <1>1, <1>2, <2>3 DEF Cost
    <3> QED
      BY <1>1, <1>2, <1>3, <1>5, <1>6, <1>8, <1>9, <2>3, <3>1
  <2> QED
    BY <1>2, <2>1, <2>2, <2>3
<1> QED
  BY <1>10 DEF B, g, n

-----------------------------------------------------------------------------
(* The two files after another event.                                       *)

LEMMA LogKept ==
    ASSUME NEW log \in Seq(Line), NEW evs \in Seq(Event), NEW e \in Event, NEW outcome \in Outcomes,
           NEW k \in Nat, NEW more \in Nat, k + Cost(outcome) <= more, LogOK(log, TRUE, evs, k)
    PROVE  LET g == Kept(log, Len(evs) + 1, e, outcome) IN
           /\ g \in Seq(Line) /\ LogOK(g, TRUE, Append(evs, e), more)
           /\ Last(log) <= Last(g)
<1> DEFINE m == Len(evs)
           g == Kept(log, m + 1, e, outcome)
           all == Append(evs, e)
<1>1. m \in Nat /\ Len(all) = m + 1
  BY EventIs
<1>2. InOrder(log) /\ TellsOf(log, evs) /\ Cardinality((1 .. m) \ Readable(log)) + Trailing(log) <= 2 * k
      /\ m <= Last(log) + k
  BY DEF LogOK
<1>3. /\ g \in Seq(Line) /\ InOrder(g) /\ TellsOf(g, all)
      /\ Last(g) = IF outcome = "lost" THEN Last(log) ELSE m + 1
  BY <1>2, KeptIs
<1>4. Cost(outcome) \in {0, 1} /\ (outcome = "lost" => Cost(outcome) = 1)
  BY DEF Cost
<1>5. IsFiniteSet(1 .. m)
  BY <1>1, FS_Interval
<1>6. Cardinality(((1 .. m) \cup {m + 1}) \ Readable(g)) + Trailing(g) <= 2 * (k + Cost(outcome))
  BY <1>2, <1>5, CostIs
<1>7. (1 .. m) \cup {m + 1} = 1 .. m + 1
  BY <1>1
<1>8. Last(log) \in Nat /\ Last(log) <= m
  <2>1. Last(log) \in Nat /\ Len(log) \in Nat /\ DOMAIN log = 1 .. Len(log)
    BY FileIs
  <2>2. log # <<>> => Len(log) \in DOMAIN log
    BY <2>1, EmptySeq
  <2>3. log # <<>> => log[Len(log)].seq <= m
    BY <1>1, <1>2, <2>2 DEF TellsOf
  <2> QED
    BY <1>1, <2>1, <2>3 DEF Last
<1>9. Trailing(g) \in Nat /\ Cardinality((1 .. m + 1) \ Readable(g)) \in Nat
  <2>1. Trailing(g) \in {0, 1}
    BY <1>3, FileIs
  <2>2. IsFiniteSet(1 .. m + 1) /\ (1 .. m + 1) \ Readable(g) \in SUBSET (1 .. m + 1)
    BY <1>1, FS_Interval
  <2>3. IsFiniteSet((1 .. m + 1) \ Readable(g))
    BY <2>2, FS_Subset
  <2> QED
    BY <2>1, <2>3, FS_CardinalityType
<1> HIDE DEF m, g, all
<1>10. Cardinality((1 .. m + 1) \ Readable(g)) + Trailing(g) <= 2 * more
  <2>1. Cardinality((1 .. m + 1) \ Readable(g)) + Trailing(g) <= 2 * (k + Cost(outcome))
    BY <1>6, <1>7, Zenon
  <2> QED
    BY <1>4, <1>9, <2>1
<1>11. m + 1 <= Last(g) + more /\ Last(log) <= Last(g)
  BY <1>1, <1>2, <1>3, <1>4, <1>8
<1>12. LogOK(g, TRUE, all, more)
  BY <1>1, <1>3, <1>10, <1>11 DEF LogOK
<1> QED
  BY <1>3, <1>11, <1>12 DEF m, g, all

(* Once the log is given up, nothing behind its last line is missed.        *)
LEMMA LogGivenUp ==
    ASSUME NEW log \in Seq(Line), NEW evs \in Seq(Event), NEW e \in Event, NEW ready \in BOOLEAN,
           NEW k \in Nat, NEW more \in Nat, k <= more, LogOK(log, ready, evs, k)
    PROVE  LogOK(log, FALSE, Append(evs, e), more)
<1> DEFINE n == IF ready THEN Len(evs) ELSE Last(log)
<1>1. InOrder(log) /\ TellsOf(log, evs) /\ Cardinality((1 .. n) \ Readable(log)) + Trailing(log) <= 2 * k
  BY DEF LogOK
<1>2. TellsOf(log, Append(evs, e)) /\ Len(evs) \in Nat
  BY <1>1, EventIs
<1>3. Last(log) \in Nat /\ Trailing(log) \in {0, 1} /\ Len(log) \in Nat /\ DOMAIN log = 1 .. Len(log)
  BY FileIs
<1>4. Last(log) <= Len(evs)
  <2>1. log # <<>> => Len(log) \in DOMAIN log
    BY <1>3, EmptySeq
  <2>2. log # <<>> => log[Len(log)].seq <= Len(evs)
    BY <1>1, <1>2, <2>1 DEF TellsOf
  <2> QED
    BY <1>2, <2>2 DEF Last
<1>5. n \in Nat /\ Last(log) <= n
  BY <1>2, <1>3, <1>4
<1> DEFINE A == (1 .. n) \ Readable(log)
           B == (1 .. Last(log)) \ Readable(log)
<1> HIDE DEF n
<1>6. IsFiniteSet(1 .. n) /\ A \in SUBSET (1 .. n) /\ B \in SUBSET A
  <2>1. 1 .. Last(log) \subseteq 1 .. n
    BY <1>3, <1>5
  <2> QED
    BY <1>5, <2>1, FS_Interval
<1> HIDE DEF A, B
<1>7. IsFiniteSet(A) /\ IsFiniteSet(B) /\ Cardinality(B) <= Cardinality(A)
  <2>1. IsFiniteSet(A)
    BY <1>6, FS_Subset
  <2> QED
    BY <1>6, <2>1, FS_Subset
<1>8. Cardinality(A) \in Nat /\ Cardinality(B) \in Nat
  BY <1>7, FS_CardinalityType
<1>9. Cardinality(B) + Trailing(log) <= 2 * more
  <2>1. Cardinality(A) + Trailing(log) <= 2 * k
    BY <1>1 DEF A
  <2> QED
    BY <1>3, <1>7, <1>8, <2>1
<1> QED
  BY <1>1, <1>2, <1>9 DEF LogOK, B

LEMMA NotesKept ==
    ASSUME NEW notes \in Seq(Line), NEW evs \in Seq(Event), NEW e \in Event, NEW outcome \in Outcomes,
           ~e.proof => outcome = "whole", NEW log, NEW k \in Nat, NotesOK(notes, log, TRUE, evs, k),
           NEW longer, Last(longer) \in Nat, NEW ready \in BOOLEAN,
           NEW more \in Nat, k + Cost(outcome) <= more, Len(evs) <= Last(longer) + more
    PROVE  LET g == IF e.proof THEN Kept(notes, Len(evs) + 1, e, outcome) ELSE notes IN
           /\ g \in Seq(Line) /\ NotesOK(g, longer, ready, Append(evs, e), more)
           /\ notes # NoFile => g # NoFile
<1> DEFINE m == Len(evs)
           n == m + 1
           g == IF e.proof THEN Kept(notes, n, e, outcome) ELSE notes
           all == Append(evs, e)
<1>1. /\ m \in Nat /\ Len(all) = m + 1 /\ TellsOf(notes, all)
      /\ ProofsOf(all) = ProofsOf(evs) \cup IF e.proof THEN {n} ELSE {}
      /\ IsFiniteSet(ProofsOf(evs)) /\ ProofsOf(evs) \subseteq 1 .. m
  BY EventIs DEF NotesOK
<1>2. /\ InOrder(notes) /\ TellsOf(notes, evs) /\ Readable(notes) \subseteq ProofsOf(evs)
      /\ Cardinality(ProofsOf(evs) \ Readable(notes)) + Trailing(notes) <= 2 * k
  BY DEF NotesOK
<1>3. /\ g \in Seq(Line) /\ InOrder(g) /\ TellsOf(g, all)
      /\ Readable(g) \subseteq ProofsOf(all)
      /\ notes # NoFile => g # NoFile
      /\ Cardinality(ProofsOf(all) \ Readable(g)) + Trailing(g) <= 2 * (k + Cost(outcome))
  <2>1. CASE e.proof
    <3>1. g = Kept(notes, n, e, outcome) /\ ProofsOf(all) = ProofsOf(evs) \cup {n}
      BY <1>1, <2>1
    <3>2. /\ Kept(notes, n, e, outcome) \in Seq(Line) /\ InOrder(Kept(notes, n, e, outcome))
          /\ TellsOf(Kept(notes, n, e, outcome), all)
          /\ notes # NoFile => Kept(notes, n, e, outcome) # NoFile
          /\ Readable(Kept(notes, n, e, outcome)) =
                Readable(notes) \cup IF outcome = "whole" /\ Trailing(notes) = 0 THEN {n} ELSE {}
      BY <1>2, KeptIs
    <3>3. Cardinality((ProofsOf(evs) \cup {n}) \ Readable(Kept(notes, n, e, outcome)))
             + Trailing(Kept(notes, n, e, outcome)) <= 2 * (k + Cost(outcome))
      BY <1>1, <1>2, CostIs
    <3> HIDE DEF g, n, all
    <3>4. Readable(g) \subseteq ProofsOf(all)
      BY <1>2, <3>1, <3>2
    <3>5. g \in Seq(Line) /\ InOrder(g) /\ TellsOf(g, all)
      BY <3>1, <3>2
    <3>6. notes # NoFile => g # NoFile
      BY <3>1, <3>2
    <3>7. Cardinality(ProofsOf(all) \ Readable(g)) + Trailing(g) <= 2 * (k + Cost(outcome))
      BY <3>1, <3>3
    <3> QED
      BY <3>4, <3>5, <3>6, <3>7
  <2>2. CASE ~e.proof
    <3>1. g = notes /\ ProofsOf(all) = ProofsOf(evs)
      BY <1>1, <2>2
    <3>2. Cost(outcome) = 0
      BY <2>2 DEF Cost
    <3> HIDE DEF g, n, all
    <3>3. InOrder(g) /\ TellsOf(g, all) /\ Readable(g) \subseteq ProofsOf(all)
      BY <1>1, <1>2, <3>1
    <3>4. g \in Seq(Line) /\ (notes # NoFile => g # NoFile)
      BY <3>1
    <3>5. Cardinality(ProofsOf(all) \ Readable(g)) + Trailing(g) <= 2 * k
      BY <1>2, <3>1
    <3>6. 2 * (k + Cost(outcome)) = 2 * k
      BY <3>2
    <3> QED
      BY <3>3, <3>4, <3>5, <3>6
  <2> QED
    BY <2>1, <2>2
<1> HIDE DEF g, all, m
<1>4. IsFiniteSet(ProofsOf(all)) /\ ProofsOf(all) \subseteq 1 .. n
  <2>1. IsFiniteSet(ProofsOf(evs) \cup {n}) /\ ProofsOf(all) \in SUBSET (ProofsOf(evs) \cup {n})
    BY <1>1, FS_AddElement
  <2>2. 1 .. m \subseteq 1 .. n /\ n \in 1 .. n
    BY <1>1
  <2> QED
    BY <1>1, <2>1, <2>2, FS_Subset
<1>5. \A i \in Readable(g) : i <= Last(longer) + 1 + more
  <2> TAKE i \in Readable(g)
  <2>1. i \in 1 .. n
    BY <1>3, <1>4
  <2>2. m <= Last(longer) + more
    BY DEF m
  <2> QED
    BY <1>1, <2>1, <2>2
<1>6. Cardinality(ProofsOf(all) \ Readable(g)) + Trailing(g) <= 2 * more
  <2>1. IsFiniteSet(ProofsOf(all) \ Readable(g))
    BY <1>4, FS_Subset
  <2>2. Cardinality(ProofsOf(all) \ Readable(g)) \in Nat /\ Trailing(g) \in {0, 1}
    BY <1>3, <2>1, FS_CardinalityType, FileIs
  <2>3. Cost(outcome) \in {0, 1}
    BY DEF Cost
  <2> QED
    BY <1>3, <2>2, <2>3
<1>7. NotesOK(g, longer, ready, all, more)
  BY <1>3, <1>5, <1>6 DEF NotesOK
<1> QED
  BY <1>3, <1>7 DEF g, all, m

LEMMA NotesGivenUp ==
    ASSUME NEW notes \in Seq(Line), NEW evs \in Seq(Event), NEW e \in Event, NEW log, NEW k \in Nat,
           NotesOK(notes, log, FALSE, evs, k)
    PROVE  NotesOK(notes, log, FALSE, Append(evs, e), k)
BY EventIs DEF NotesOK

-----------------------------------------------------------------------------
(* history_.                                                                *)

LEMMA ModIs ==
    ASSUME NEW K \in Nat \ {0}, NEW a \in 0 .. 2 * K - 1
    PROVE  (a < K => a % K = a) /\ (~ (a < K) => a % K = a - K)
<1> DEFINE q == a \div K
           r == a % K
<1>1. a \in Nat /\ q \in Nat /\ r \in 0 .. K - 1 /\ a = K * q + r
  OBVIOUS
<1> HIDE DEF q, r
<1>2. CASE q = 0
  <2>1. K * q = 0
    BY <1>2
  <2>2. r = a /\ a < K
    BY <1>1, <2>1
  <2> QED
    BY <2>2 DEF r
<1>3. CASE q = 1
  <2>1. K * q = K
    BY <1>3
  <2>2. r = a - K /\ ~ (a < K)
    BY <1>1, <2>1
  <2> QED
    BY <2>2 DEF r
<1>4. CASE q # 0 /\ q # 1
  <2>1. q - 2 \in Nat
    BY <1>1, <1>4
  <2>2. \A p \in Nat : K * p \in Nat /\ K * (p + 2) = K * p + 2 * K
    OBVIOUS
  <2>3. (q - 2) + 2 = q
    BY <1>1
  <2>4. K * (q - 2) \in Nat /\ K * q = K * (q - 2) + 2 * K
    BY <2>1, <2>2, <2>3
  <2>5. a >= 2 * K
    BY <1>1, <2>4
  <2> QED
    BY <1>1, <2>5
<1> QED
  BY <1>2, <1>3, <1>4

LEMMA RoundsTurn ==
    ASSUME NEW K \in Nat \ {0}, NEW h \in 0 .. K - 1
    PROVE  /\ (h + 1) % K \in 0 .. K - 1
           /\ (((h + 1) % K) + K - 1) % K = h
           /\ \A i \in 2 .. K :
                 /\ i - 1 \in 1 .. K - 1
                 /\ (((h + 1) % K) + K - i) % K = (h + K - (i - 1)) % K
                 /\ (h + K - (i - 1)) % K # h /\ (h + K - (i - 1)) % K \in 0 .. K - 1
<1> DEFINE next == (h + 1) % K
<1>1. \A a \in 0 .. 2 * K - 1 : (a < K => a % K = a) /\ (~ (a < K) => a % K = a - K)
  BY ModIs
<1>2. next = IF h + 1 < K THEN h + 1 ELSE 0
  <2>1. PICK a \in 0 .. 2 * K - 1 : a = h + 1
    OBVIOUS
  <2>2. (a < K => a % K = a) /\ (~ (a < K) => a % K = a - K)
    BY <1>1
  <2> QED
    BY <2>1, <2>2 DEF next
<1>3. ASSUME NEW g \in 0 .. K - 1, NEW i \in 1 .. K
      PROVE  (g + K - i) % K = IF g < i THEN g + K - i ELSE g - i
  <2>1. PICK a \in 0 .. 2 * K - 1 : a = g + K - i
    OBVIOUS
  <2>2. (a < K => a % K = a) /\ (~ (a < K) => a % K = a - K)
    BY <1>1
  <2> QED
    BY <2>1, <2>2
<1> HIDE DEF next
<1>4. next \in 0 .. K - 1
  BY <1>2
<1>5. (next + K - 1) % K = h
  <2>1. (next + K - 1) % K = IF next < 1 THEN next + K - 1 ELSE next - 1
    BY <1>3, <1>4
  <2> QED
    BY <1>2, <2>1
<1>6. ASSUME NEW i \in 2 .. K
      PROVE  /\ i - 1 \in 1 .. K - 1
             /\ (next + K - i) % K = (h + K - (i - 1)) % K
             /\ (h + K - (i - 1)) % K # h /\ (h + K - (i - 1)) % K \in 0 .. K - 1
  <2>1. i - 1 \in 1 .. K - 1 /\ i \in 1 .. K /\ i - 1 \in 1 .. K
    OBVIOUS
  <2>2. (next + K - i) % K = IF next < i THEN next + K - i ELSE next - i
    BY <1>3, <1>4, <2>1
  <2>3. (h + K - (i - 1)) % K = IF h < i - 1 THEN h + K - (i - 1) ELSE h - (i - 1)
    BY <1>3, <2>1
  <2> QED
    BY <1>2, <2>1, <2>2, <2>3
<1> QED
  BY <1>4, <1>5, <1>6 DEF next

\* Where the i-th latest summary is, when the next one goes to place h.
Place(h, i) == (h + kHistoryDepth - i) % kHistoryDepth

LEMMA PlacesTurn ==
    ASSUME NEW h \in 0 .. kHistoryDepth - 1
    PROVE  /\ (h + 1) % kHistoryDepth \in 0 .. kHistoryDepth - 1
           /\ Place((h + 1) % kHistoryDepth, 1) = h
           /\ \A i \in 2 .. kHistoryDepth :
                 /\ i - 1 \in 1 .. kHistoryDepth - 1
                 /\ Place((h + 1) % kHistoryDepth, i) = Place(h, i - 1)
                 /\ Place(h, i - 1) # h /\ Place(h, i - 1) \in 0 .. kHistoryDepth - 1
BY RoundsTurn, RecorderSizes DEF Place

LEMMA HistoryTurns ==
    ASSUME RecorderTypes, HistoryIsLatest, NEW e \in Event,
           seq' = seq + 1, events' = Append(events, e), updateHistory(e)
    PROVE  /\ history' \in [0 .. kHistoryDepth - 1 -> Names \cup {"none"}]
           /\ historyNext' \in 0 .. kHistoryDepth - 1
           /\ HistoryIsLatest'
<1>1. /\ historyNext \in 0 .. kHistoryDepth - 1 /\ seq \in Nat /\ events \in Seq(Event) /\ Len(events) = seq
      /\ history \in [0 .. kHistoryDepth - 1 -> Names \cup {"none"}]
      /\ kHistoryDepth \in Nat \ {0}
  BY RecorderSizes DEF RecorderTypes
<1>2. /\ historyCount = IF seq < kHistoryDepth THEN seq ELSE kHistoryDepth
      /\ \A i \in 1 .. historyCount : history[Place(historyNext, i)] = Redacted(events[seq + 1 - i].rp)
  BY DEF HistoryIsLatest, Place
<1>3. /\ history' = [history EXCEPT ![historyNext] = Redacted(e.rp)]
      /\ historyNext' = (historyNext + 1) % kHistoryDepth
      /\ historyCount' = IF historyCount < kHistoryDepth THEN historyCount + 1 ELSE historyCount
  BY DEF updateHistory
<1>4. events'[seq + 1] = e /\ \A i \in 1 .. seq : events'[i] = events[i]
  BY <1>1, EventIs
<1>5. history' \in [0 .. kHistoryDepth - 1 -> Names \cup {"none"}]
  BY <1>1, <1>3, RedactedIs
<1>6. historyNext' \in 0 .. kHistoryDepth - 1
  BY <1>1, <1>3, PlacesTurn
<1>7. historyCount' = IF seq' < kHistoryDepth THEN seq' ELSE kHistoryDepth
  BY <1>1, <1>2, <1>3
<1>8. ASSUME NEW i \in 1 .. historyCount'
      PROVE  history'[Place(historyNext', i)] = Redacted(events'[seq' + 1 - i].rp)
  <2>1. CASE i = 1
    <3>1. Place(historyNext', i) = historyNext
      BY <1>1, <1>3, <2>1, PlacesTurn
    <3>2. seq' + 1 - i = seq + 1
      BY <1>1, <2>1
    <3>3. history'[historyNext] = Redacted(e.rp)
      BY <1>1, <1>3
    <3> QED
      BY <1>4, <3>1, <3>2, <3>3
  <2>2. CASE i # 1
    <3>1. i \in 2 .. kHistoryDepth /\ i - 1 \in 1 .. historyCount /\ i - 1 <= seq
      BY <1>1, <1>2, <1>7, <2>2
    <3>2. /\ Place(historyNext', i) = Place(historyNext, i - 1)
          /\ Place(historyNext, i - 1) # historyNext
          /\ Place(historyNext, i - 1) \in 0 .. kHistoryDepth - 1
      BY <1>1, <1>3, <3>1, PlacesTurn
    <3>3. history'[Place(historyNext, i - 1)] = history[Place(historyNext, i - 1)]
      BY <1>1, <1>3, <3>2
    <3>4. history[Place(historyNext, i - 1)] = Redacted(events[seq + 1 - (i - 1)].rp)
      BY <1>2, <3>1
    <3>5. seq' + 1 - i = seq + 1 - (i - 1) /\ seq + 1 - (i - 1) \in 1 .. seq
      BY <1>1, <3>1
    <3>6. events'[seq' + 1 - i] = events[seq + 1 - (i - 1)]
      BY <1>4, <3>5
    <3> QED
      BY <3>2, <3>3, <3>4, <3>6
  <2> QED
    BY <2>1, <2>2
<1> QED
  BY <1>5, <1>6, <1>7, <1>8 DEF HistoryIsLatest, Place

-----------------------------------------------------------------------------
(* The start of the recorder, on any card that earlier starts have left.    *)

LEMMA FreeIs ==
    ASSUME NEW k \in 0 .. MaxSession
    PROVE  LET files == Files(1 .. k) IN
           /\ Free(files) = {n \in SessionNumbers : n > k}
           /\ Free(files) # {} => FirstFree(files) \in Free(files)
<1>1. Earlier # NoFile
  <2>1. Earlier[1].seq = 1 /\ NoFile[1].seq = 0
    BY DEF Earlier, NoFile
  <2> QED
    BY <2>1
<1> DEFINE files == Files(1 .. k)
<1>2. \A n \in SessionNumbers : files[n] = NoFile <=> n \notin 1 .. k
  BY <1>1 DEF Files
<1>3. MaxSession \in Nat /\ \A n \in SessionNumbers : n \in Nat \ {0}
  BY RecorderSizes DEF SessionNumbers
<1> HIDE DEF files
<1>4. Free(files) = {n \in SessionNumbers : n > k}
  <2>1. \A n \in SessionNumbers : n \notin 1 .. k <=> n > k
    BY <1>3
  <2> QED
    BY <1>2, <2>1 DEF Free
<1>5. ASSUME Free(files) # {} PROVE FirstFree(files) \in Free(files)
  <2>1. k + 1 \in Free(files) /\ \A m \in Free(files) : k + 1 <= m
    BY <1>3, <1>4, <1>5 DEF SessionNumbers
  <2> QED
    BY <2>1 DEF FirstFree
<1> QED
  BY <1>4, <1>5 DEF files

LEMMA CardIs ==
    ASSUME NEW card \in Cards
    PROVE  LET n == FirstFree(card.sessions) IN
           /\ card.sessions \in [SessionNumbers -> Seq(Line)]
           /\ card.proofs \in [SessionNumbers -> Seq(Line)]
           /\ Free(card.sessions) # {} =>
                 n \in SessionNumbers /\ card.sessions[n] = NoFile /\ card.proofs[n] = NoFile
<1>1. PICK k \in 0 .. MaxSession :
         card \in {[sessions |-> Files(1 .. k), proofs |-> Files(S)] : S \in SUBSET (1 .. k)}
  BY DEF Cards
<1> PICK S \in SUBSET (1 .. k) : card = [sessions |-> Files(1 .. k), proofs |-> Files(S)]
  BY <1>1
<1>2. card.sessions = Files(1 .. k) /\ card.proofs = Files(S)
  OBVIOUS
<1>3. Earlier \in Seq(Line) /\ NoFile \in Seq(Line)
  BY DEF Earlier, NoFile, Line, Names
<1>4. Files(1 .. k) \in [SessionNumbers -> Seq(Line)] /\ Files(S) \in [SessionNumbers -> Seq(Line)]
  BY <1>3 DEF Files
<1>5. ASSUME Free(Files(1 .. k)) # {}, NEW n, n = FirstFree(Files(1 .. k))
      PROVE  n \in SessionNumbers /\ Files(1 .. k)[n] = NoFile /\ Files(S)[n] = NoFile
  <2>1. n \in Free(Files(1 .. k)) /\ n \in SessionNumbers /\ n > k
    BY <1>5, FreeIs
  <2>2. n \notin S
    BY <2>1, RecorderSizes DEF SessionNumbers
  <2> QED
    BY <2>1, <2>2 DEF Free, Files
<1> QED
  BY <1>2, <1>4, <1>5

LEMMA NothingYet ==
    ASSUME NEW ready \in BOOLEAN, NEW log
    PROVE  LogOK(Empty, ready, <<>>, 0) /\ NotesOK(Empty, log, ready, <<>>, 0)
<1>1. DOMAIN Empty = {} /\ Empty = <<>> /\ Len(<<>>) = 0
  BY DEF Empty
<1>2. /\ InOrder(Empty) /\ TellsOf(Empty, <<>>) /\ Readable(Empty) = {}
      /\ Last(Empty) = 0 /\ Trailing(Empty) = 0
  BY <1>1 DEF InOrder, TellsOf, Readable, Last, Trailing
<1>3. ProofsOf(<<>>) = {}
  BY DEF ProofsOf
<1>4. (1 .. 0) \ {} = {} /\ {} \ {} = {} /\ (IF ready THEN 0 ELSE 0) = 0 /\ Cardinality({}) = 0
  BY FS_EmptySet
<1>5. LogOK(Empty, ready, <<>>, 0)
  BY <1>1, <1>2, <1>4 DEF LogOK
<1>6. NotesOK(Empty, log, ready, <<>>, 0)
  BY <1>2, <1>3, <1>4 DEF NotesOK
<1> QED
  BY <1>5, <1>6

LEMMA RecorderStarts == LabInit => RecorderInv
<1> SUFFICES ASSUME LabInit PROVE RecorderInv
  OBVIOUS
<1>1. /\ before \in Cards /\ begin /\ faults = 0 /\ seq = 0 /\ events = <<>>
      /\ history = [i \in 0 .. kHistoryDepth - 1 |-> "none"] /\ historyNext = 0 /\ historyCount = 0
  BY DEF LabInit
<1>2. /\ before.sessions \in [SessionNumbers -> Seq(Line)] /\ before.proofs \in [SessionNumbers -> Seq(Line)]
  BY <1>1, CardIs
<1>3. /\ seq \in Nat /\ faults \in Nat /\ events \in Seq(Event) /\ Len(events) = seq
      /\ history \in [0 .. kHistoryDepth - 1 -> Names \cup {"none"}]
      /\ historyNext \in 0 .. kHistoryDepth - 1
  BY <1>1, RecorderSizes
<1>4. HistoryIsLatest
  BY <1>1, RecorderSizes DEF HistoryIsLatest
<1>5. ASSUME NEW status, BeginOff(status) PROVE RecorderInv
  <2>1. /\ sdReady = FALSE /\ session = 0
        /\ sessions = before.sessions /\ proofs = before.proofs
    BY <1>5 DEF BeginOff
  <2>2. session \in 0 .. MaxSession /\ sdReady \in BOOLEAN /\ ~sdReady
    <3>1. session \in 0 .. MaxSession
      BY <2>1, RecorderSizes
    <3>2. sdReady \in BOOLEAN /\ ~sdReady
      BY <2>1, Zenon
    <3> QED
      BY <3>1, <3>2
  <2>3. RecorderTypes
    BY <1>2, <1>3, <2>1, <2>2 DEF RecorderTypes
  <2>4. FilesInv /\ EarlierSessionsStay
    BY <2>1 DEF FilesInv, EarlierSessionsStay
  <2> QED
    BY <1>4, <2>3, <2>4 DEF RecorderInv
<1>6. ASSUME NEW status, NEW withProof \in BOOLEAN, BeginSession(status, withProof),
             withProof = (status = "SD ready")
      PROVE  RecorderInv
  <2> DEFINE n == FirstFree(before.sessions)
  <2>1. /\ n \in SessionNumbers /\ before.sessions[n] = NoFile /\ before.proofs[n] = NoFile
        /\ session = n /\ sessions = [before.sessions EXCEPT ![n] = Empty]
        /\ proofs = IF withProof THEN [before.proofs EXCEPT ![n] = Empty] ELSE before.proofs
        /\ sdReady = withProof /\ statusLine = status
    BY <1>1, <1>6, CardIs DEF BeginSession
  <2> HIDE DEF n
  <2>2. Empty \in Seq(Line) /\ Empty # NoFile
    BY DEF Empty, NoFile
  <2>3. /\ sessions \in [SessionNumbers -> Seq(Line)] /\ proofs \in [SessionNumbers -> Seq(Line)]
        /\ sessions[session] = Empty
        /\ proofs[session] = IF withProof THEN Empty ELSE NoFile
    BY <1>2, <2>1, <2>2
  <2>4. session \in 0 .. MaxSession /\ session # 0 /\ (sdReady => proofs[session] # NoFile)
    BY <2>1, <2>2, <2>3, RecorderSizes DEF SessionNumbers
  <2>5. RecorderTypes
    BY <1>3, <1>6, <2>1, <2>3, <2>4 DEF RecorderTypes
  <2>6. /\ sdReady = (statusLine = "SD ready")
        /\ LogOK(sessions[session], sdReady, events, faults)
        /\ proofs[session] # NoFile =>
              NotesOK(proofs[session], sessions[session], sdReady, events, faults)
    BY <1>1, <1>6, <2>1, <2>3, NothingYet
  <2>7. EarlierSessionsStay
    BY <1>2, <2>1 DEF EarlierSessionsStay
  <2> QED
    BY <1>4, <2>5, <2>6, <2>7 DEF RecorderInv, FilesInv
<1>7. BeginSession("SD off: write failed", FALSE) => RecorderInv
  BY <1>6
<1>8. BeginSession("SD ready", TRUE) => RecorderInv
  BY <1>6
<1> QED
  BY <1>1, <1>5, <1>7, <1>8 DEF begin

-----------------------------------------------------------------------------
(* record().                                                                *)

\* Nothing but the files of this session changes.
LEMMA OthersStay ==
    ASSUME RecorderTypes, EarlierSessionsStay, session # 0,
           NEW f, NEW g, session' = session, before' = before,
           sessions' = [sessions EXCEPT ![session] = f], proofs' = [proofs EXCEPT ![session] = g]
    PROVE  EarlierSessionsStay'
<1>1. sessions \in [SessionNumbers -> Seq(Line)] /\ proofs \in [SessionNumbers -> Seq(Line)]
  BY DEF RecorderTypes
<1>2. \A n \in SessionNumbers \ {session} : sessions'[n] = sessions[n] /\ proofs'[n] = proofs[n]
  BY <1>1
<1> QED
  BY <1>2 DEF EarlierSessionsStay

LEMMA RecordKeeps ==
    ASSUME RecorderInv, NEW e \in Event, record(e)
    PROVE  RecorderInv'
<1>1. /\ sessions \in [SessionNumbers -> Seq(Line)] /\ proofs \in [SessionNumbers -> Seq(Line)]
      /\ session \in 0 .. MaxSession /\ sdReady \in BOOLEAN
      /\ seq \in Nat /\ faults \in Nat /\ events \in Seq(Event) /\ Len(events) = seq
      /\ sdReady => session # 0 /\ proofs[session] # NoFile
  BY DEF RecorderInv, RecorderTypes
<1>2. seq' = seq + 1 /\ events' = Append(events, e) /\ updateHistory(e) /\ session' = session /\ before' = before
  BY DEF record
<1>3. /\ history' \in [0 .. kHistoryDepth - 1 -> Names \cup {"none"}]
      /\ historyNext' \in 0 .. kHistoryDepth - 1
      /\ HistoryIsLatest'
  BY <1>2, HistoryTurns DEF RecorderInv
<1>4. seq' \in Nat /\ events' \in Seq(Event) /\ Len(events') = seq'
  BY <1>1, <1>2, EventIs
<1>5. ASSUME sdReady PROVE RecorderInv'
  <2> DEFINE f == sessions[session]
             p == proofs[session]
  <2>1. PICK log \in Outcomes, note \in Outcomes :
           /\ ~e.proof => note = "whole"
           /\ faults' = faults + Faults(<<log, note>>)
           /\ appendJsonl(seq + 1, e, log)
           /\ appendProof(seq + 1, e, note)
    BY <1>5 DEF record
  <2>2. session # 0 /\ session \in SessionNumbers /\ f \in Seq(Line) /\ p \in Seq(Line) /\ p # NoFile
    <3>1. session # 0 /\ proofs[session] # NoFile
      BY <1>1, <1>5
    <3>2. session \in SessionNumbers
      BY <1>1, <3>1, RecorderSizes DEF SessionNumbers
    <3> QED
      BY <1>1, <3>1, <3>2
  <2>3. sdReady = (statusLine = "SD ready") /\ sdReady = TRUE
    BY <1>1, <1>5, <2>2 DEF RecorderInv, FilesInv
  <2>4. LogOK(f, TRUE, events, faults) /\ NotesOK(p, f, TRUE, events, faults)
    BY <2>2, <2>3 DEF RecorderInv, FilesInv
  <2>5. /\ faults' = faults + Cost(log) + Cost(note) /\ Cost(log) \in {0, 1} /\ Cost(note) \in {0, 1}
        /\ faults' \in Nat /\ faults + Cost(log) <= faults' /\ faults + Cost(note) <= faults' /\ faults <= faults'
    <3>1. Cost(log) \in {0, 1} /\ Cost(note) \in {0, 1}
      BY DEF Cost
    <3>2. Faults(<<log, note>>) = Cost(log) + Cost(note)
      BY FaultsAre
    <3> QED
      BY <1>1, <2>1, <3>1, <3>2
  <2> DEFINE g == Kept(f, seq + 1, e, log)
             q == IF e.proof THEN Kept(p, seq + 1, e, note) ELSE p
  <2>6. proofs' = [proofs EXCEPT ![session] = q]
    <3>1. CASE e.proof
      BY <2>1, <3>1 DEF appendProof
    <3>2. CASE ~e.proof
      <4>1. proofs' = proofs
        BY <2>1, <3>2 DEF appendProof
      <4> QED
        BY <1>1, <2>2, <3>2, <4>1
    <3> QED
      BY <3>1, <3>2
  <2>7. \/ /\ sessions' = [sessions EXCEPT ![session] = g]
           /\ sdReady' = sdReady /\ statusLine' = statusLine
        \/ /\ sessions' = sessions
           /\ sdReady' = FALSE /\ statusLine' = "SD off: append failed"
    BY <2>1 DEF appendJsonl
  <2>8. g \in Seq(Line) /\ LogOK(g, TRUE, events', faults') /\ Last(f) <= Last(g)
    BY <1>1, <1>2, <2>2, <2>4, <2>5, LogKept
  <2>9. LogOK(f, FALSE, events', faults')
    BY <1>1, <1>2, <2>2, <2>4, <2>5, LogGivenUp
  <2>10. /\ Last(f) \in Nat /\ Last(g) \in Nat
         /\ Len(events) <= Last(f) + faults' /\ Len(events) <= Last(g) + faults'
    <3>1. Last(f) \in Nat /\ Last(g) \in Nat
      BY <2>2, <2>8, FileIs
    <3>2. Len(events) <= Last(f) + faults
      BY <2>4 DEF LogOK
    <3> HIDE DEF f, g
    <3> QED
      BY <1>1, <2>5, <2>8, <3>1, <3>2
  <2>11. ASSUME NEW ready \in BOOLEAN, NEW longer \in {f, g}
         PROVE  /\ q \in Seq(Line) /\ NotesOK(q, longer, ready, events', faults')
                /\ q # NoFile
    <3>1. Last(longer) \in Nat /\ Len(events) <= Last(longer) + faults'
      BY <2>10
    <3> DEFINE h == IF e.proof THEN Kept(p, Len(events) + 1, e, note) ELSE p
    <3>2. faults' \in Nat /\ faults \in Nat /\ faults + Cost(note) <= faults' /\ (~e.proof => note = "whole")
      BY <1>1, <2>1, <2>5
    <3> HIDE DEF f, g, p
    <3>3. h \in Seq(Line) /\ NotesOK(h, longer, ready, Append(events, e), faults') /\ (p # NoFile => h # NoFile)
      BY <1>1, <2>2, <2>4, <3>1, <3>2, NotesKept
    <3>4. h = q
      BY <1>1
    <3> HIDE DEF h, q
    <3> QED
      BY <1>2, <2>2, <3>3, <3>4
  <2> HIDE DEF f, p, g, q
  <2>12. proofs'[session] = q /\ proofs' \in [SessionNumbers -> Seq(Line)] /\ q # NoFile
    BY <1>1, <2>2, <2>6, <2>11
  <2>13. CASE /\ sessions' = [sessions EXCEPT ![session] = g]
              /\ sdReady' = sdReady /\ statusLine' = statusLine
    <3>1. sessions'[session] = g /\ sessions' \in [SessionNumbers -> Seq(Line)]
      BY <1>1, <2>2, <2>8, <2>13
    <3>2. RecorderTypes'
      BY <1>1, <1>2, <1>3, <1>4, <2>2, <2>5, <2>12, <2>13, <3>1 DEF RecorderTypes
    <3>3. NotesOK(q, g, TRUE, events', faults')
      BY <2>11
    <3>4. FilesInv'
      BY <1>2, <2>3, <2>8, <2>12, <2>13, <3>1, <3>3 DEF FilesInv
    <3>5. EarlierSessionsStay'
      BY <1>2, <2>2, <2>6, <2>13, OthersStay DEF RecorderInv
    <3> QED
      BY <1>3, <3>2, <3>4, <3>5 DEF RecorderInv
  <2>14. CASE /\ sessions' = sessions
              /\ sdReady' = FALSE /\ statusLine' = "SD off: append failed"
    <3>1. sessions'[session] = f /\ sessions' \in [SessionNumbers -> Seq(Line)]
      BY <1>1, <2>14 DEF f
    <3>2. RecorderTypes'
      BY <1>1, <1>2, <1>3, <1>4, <2>2, <2>5, <2>12, <2>14, <3>1 DEF RecorderTypes
    <3>3. NotesOK(q, f, FALSE, events', faults')
      BY <2>11
    <3>4. FilesInv'
      BY <1>2, <2>9, <2>12, <2>14, <3>1, <3>3 DEF FilesInv
    <3>5. sessions' = [sessions EXCEPT ![session] = f]
      BY <1>1, <2>2, <2>14 DEF f
    <3>6. EarlierSessionsStay'
      BY <1>2, <2>2, <2>6, <3>5, OthersStay DEF RecorderInv
    <3> QED
      BY <1>3, <3>2, <3>4, <3>6 DEF RecorderInv
  <2> QED
    BY <2>7, <2>13, <2>14
<1>6. ASSUME ~sdReady PROVE RecorderInv'
  <2>1. sessions' = sessions /\ proofs' = proofs /\ sdReady' = sdReady /\ statusLine' = statusLine /\ faults' = faults
    BY <1>6 DEF record, file
  <2>2. RecorderTypes'
    BY <1>1, <1>2, <1>3, <1>4, <2>1 DEF RecorderTypes
  <2>3. ASSUME session # 0
        PROVE  /\ sdReady = (statusLine = "SD ready")
               /\ LogOK(sessions[session], sdReady, events', faults)
               /\ proofs[session] # NoFile =>
                     NotesOK(proofs[session], sessions[session], sdReady, events', faults)
    <3>1. /\ sdReady = (statusLine = "SD ready") /\ LogOK(sessions[session], sdReady, events, faults)
          /\ proofs[session] # NoFile =>
                NotesOK(proofs[session], sessions[session], sdReady, events, faults)
      BY <2>3 DEF RecorderInv, FilesInv
    <3>2. sdReady = FALSE
      BY <1>1, <1>6
    <3>3. session \in SessionNumbers
      BY <1>1, <2>3, RecorderSizes DEF SessionNumbers
    <3>4. sessions[session] \in Seq(Line) /\ proofs[session] \in Seq(Line)
      BY <1>1, <3>3
    <3>5. faults <= faults
      BY <1>1
    <3>6. LogOK(sessions[session], FALSE, events', faults)
      BY <1>1, <1>2, <3>1, <3>2, <3>4, <3>5, LogGivenUp
    <3>7. proofs[session] # NoFile => NotesOK(proofs[session], sessions[session], FALSE, events', faults)
      BY <1>1, <1>2, <3>1, <3>2, <3>4, NotesGivenUp
    <3> QED
      BY <3>1, <3>2, <3>6, <3>7
  <2>4. FilesInv'
    BY <1>2, <2>1, <2>3 DEF FilesInv
  <2>5. EarlierSessionsStay'
    BY <1>2, <2>1 DEF RecorderInv, EarlierSessionsStay
  <2> QED
    BY <1>3, <2>2, <2>4, <2>5 DEF RecorderInv
<1> QED
  BY <1>5, <1>6

LEMMA RecorderStep == RecorderInv /\ [LabNext]_labVars => RecorderInv'
<1> SUFFICES ASSUME RecorderInv, [LabNext]_labVars PROVE RecorderInv'
  OBVIOUS
<1>1. Boot \in Event /\ Wipe \in Event /\ \A e \in CommandEvents : e \in Event
  BY DEF Boot, Wipe, CommandEvents, Event, Public
<1>2. ASSUME UNCHANGED recorder PROVE RecorderInv'
  BY <1>2 DEF recorder, RecorderInv, RecorderTypes, FilesInv, EarlierSessionsStay, HistoryIsLatest
<1>3. CASE recordBoot
  BY <1>1, <1>3, RecordKeeps DEF recordBoot
<1>4. CASE AdminWiped
  BY <1>1, <1>4, RecordKeeps DEF AdminWiped
<1>5. CASE PollStep
  BY <1>2, <1>5 DEF PollStep
<1>6. CASE OutputStep
  BY <1>2, <1>6 DEF OutputStep
<1>7. CASE Handle
  <2>1. (\E e \in CommandEvents : record(e)) \/ UNCHANGED recorder
    BY <1>7 DEF Handle
  <2> QED
    BY <1>1, <1>2, <2>1, RecordKeeps
<1>8. CASE UNCHANGED labVars
  BY <1>2, <1>8 DEF labVars, recorder
<1> QED
  BY <1>3, <1>4, <1>5, <1>6, <1>7, <1>8 DEF LabNext, LabPoll

-----------------------------------------------------------------------------
(* What the invariant says of the files.                                    *)

LEMMA RecordedThen == RecorderInv => SessionIsRecorded
<1> SUFFICES ASSUME RecorderInv PROVE SessionIsRecorded
  OBVIOUS
<1>1. /\ sessions \in [SessionNumbers -> Seq(Line)] /\ proofs \in [SessionNumbers -> Seq(Line)]
      /\ session \in 0 .. MaxSession /\ sdReady \in BOOLEAN
      /\ seq \in Nat /\ faults \in Nat /\ events \in Seq(Event) /\ Len(events) = seq
      /\ history \in [0 .. kHistoryDepth - 1 -> Names \cup {"none"}]
  BY DEF RecorderInv, RecorderTypes
<1>2. (\A f : TellsOf(f, events) => Tells(f)) /\ Proofs = ProofsOf(events)
  BY <1>1 DEF TellsOf, Tells, Proofs, ProofsOf
<1>3. ASSUME NEW f \in Seq(Line), NEW S, IsFiniteSet(S), NEW k \in Nat,
             Cardinality(S \ Readable(f)) + Trailing(f) <= 2 * k
      PROVE  Cardinality(S \ Readable(f)) <= 2 * k
  <2>1. IsFiniteSet(S \ Readable(f))
    BY <1>3, FS_Subset
  <2>2. Cardinality(S \ Readable(f)) \in Nat /\ Trailing(f) \in {0, 1}
    BY <2>1, FS_CardinalityType, FileIs
  <2> QED
    BY <1>3, <2>2
<1>4. ASSUME session # 0
      PROVE  /\ sessions[session] \in Seq(Line) /\ proofs[session] \in Seq(Line)
             /\ sdReady = (statusLine = "SD ready")
             /\ LogOK(sessions[session], sdReady, events, faults)
             /\ proofs[session] # NoFile =>
                   NotesOK(proofs[session], sessions[session], sdReady, events, faults)
  <2>1. session \in SessionNumbers
    BY <1>1, <1>4, RecorderSizes DEF SessionNumbers
  <2> QED
    BY <1>1, <1>4, <2>1 DEF RecorderInv, FilesInv
<1>5. LogIsComplete
  <2> SUFFICES ASSUME session # 0
               PROVE  LET log == sessions[session] IN
                      /\ InOrder(log) /\ Tells(log)
                      /\ Cardinality((1 .. IF sdReady THEN seq ELSE Last(log)) \ Readable(log)) <= 2 * faults
                      /\ sdReady = (statusLine = "SD ready")
    BY DEF LogIsComplete
  <2> DEFINE log == sessions[session]
             n == IF sdReady THEN seq ELSE Last(log)
  <2>1. log \in Seq(Line) /\ LogOK(log, sdReady, events, faults) /\ sdReady = (statusLine = "SD ready")
    BY <1>4
  <2>2. InOrder(log) /\ TellsOf(log, events) /\ Cardinality((1 .. n) \ Readable(log)) + Trailing(log) <= 2 * faults
    BY <1>1, <2>1 DEF LogOK
  <2>3. n \in Nat
    BY <1>1, <2>1, FileIs
  <2> HIDE DEF n, log
  <2>4. IsFiniteSet(1 .. n)
    BY <2>3, FS_Interval
  <2>5. Cardinality((1 .. n) \ Readable(log)) <= 2 * faults
    BY <1>1, <1>3, <2>1, <2>2, <2>4
  <2> QED
    BY <1>2, <2>1, <2>2, <2>5 DEF n, log
<1>6. ProofsAreEvents
  <2> SUFFICES ASSUME session # 0, proofs[session] # NoFile
               PROVE  LET notes == proofs[session] IN
                      /\ InOrder(notes) /\ Tells(notes)
                      /\ Readable(notes) \subseteq Proofs
                      /\ \A n \in Readable(notes) : n <= Last(sessions[session]) + 1 + faults
                      /\ sdReady => Cardinality(Proofs \ Readable(notes)) <= 2 * faults
    BY DEF ProofsAreEvents
  <2> DEFINE notes == proofs[session]
  <2>1. notes \in Seq(Line) /\ NotesOK(notes, sessions[session], sdReady, events, faults)
    BY <1>4
  <2> HIDE DEF notes
  <2>2. /\ InOrder(notes) /\ TellsOf(notes, events) /\ Readable(notes) \subseteq ProofsOf(events)
        /\ \A n \in Readable(notes) : n <= Last(sessions[session]) + 1 + faults
        /\ sdReady => Cardinality(ProofsOf(events) \ Readable(notes)) + Trailing(notes) <= 2 * faults
    BY <2>1 DEF NotesOK
  <2>3. IsFiniteSet(ProofsOf(events))
    <3>1. Boot \in Event
      BY DEF Boot, Event
    <3> QED
      BY <1>1, <3>1, EventIs
  <2>4. sdReady => Cardinality(ProofsOf(events) \ Readable(notes)) <= 2 * faults
    BY <1>1, <1>3, <2>1, <2>2, <2>3
  <2> QED
    BY <1>2, <2>2, <2>4 DEF notes
<1>7. NamesStayPrivate
  <2>1. "private" \notin Names \cup {"no file"} /\ "private" \notin Names \cup {"none"}
    BY DEF Names, Public
  <2>2. ASSUME NEW f \in Seq(Line), NEW i \in DOMAIN f PROVE f[i].rp # "private"
    <3>1. f[i] \in Line
      BY FileIs
    <3> QED
      BY <2>1, <3>1 DEF Line
  <2>3. \A n \in SessionNumbers : sessions[n] \in Seq(Line) /\ proofs[n] \in Seq(Line)
    BY <1>1
  <2>4. \A i \in DOMAIN history : history[i] # "private"
    BY <1>1, <2>1
  <2> QED
    BY <2>2, <2>3, <2>4 DEF NamesStayPrivate
<1> QED
  BY <1>5, <1>6, <1>7 DEF SessionIsRecorded, RecorderInv

(* Whatever the card refuses or cuts, the files of this session hold its    *)
(* events in order; a spoilt print costs at most two of them; earlier       *)
(* sessions stay as they were; no private name is written; and history_     *)
(* holds the latest events.                                                 *)
THEOREM RecorderSessionIsRecorded == LabSpec => []SessionIsRecorded
<1>1. LabSpec => []RecorderInv
  BY RecorderStarts, RecorderStep, PTL DEF LabSpec
<1> QED
  BY <1>1, RecordedThen, PTL
=============================================================================
