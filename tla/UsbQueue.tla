------------------------------ MODULE UsbQueue ------------------------------
(***************************************************************************)
(* The report queue of src/src/UsbFidoHid.cpp: the USB task's callback     *)
(* _onOutput() puts reports in, poll() on the loop task takes them out,    *)
(* with two shared indexes and no lock.                                    *)
(*                                                                         *)
(* A step touches shared memory once.  A report is copied in two halves,   *)
(* so that a copy that overlaps another one of the same slot would mix     *)
(* them.  The steps of a task take effect in program order: the indexes    *)
(* are volatile, and the copies are calls of memcpy on one-byte-aligned    *)
(* arrays, which the compiler does not move across a volatile access.      *)
(***************************************************************************)
EXTENDS Integers, Sequences

CONSTANTS
    kQueueDepth,    \* slots of queue_
    MaxReports      \* bound: reports the host sends (they are numbered from 1)

ASSUME DepthIsEnough == kQueueDepth \in Nat /\ kQueueDepth >= 2
ASSUME MaxReportsIsNat == MaxReports \in Nat

VARIABLES
    queue,                  \* queue_: slot -> the two halves of its report
    readIndex, writeIndex,  \* readIndex_, writeIndex_
    dropped,                \* dropped_
    sent,                   \* reports _onOutput was called with
    wpc,                    \* where the USB task is in _onOutput
    rpc,                    \* where the loop task is in poll
    copy,                   \* poll's local report
    accepted, received      \* reports published, and handed to receivePacket

shared == <<queue, readIndex, writeIndex>>
writer == <<dropped, sent, wpc, accepted>>
reader == <<rpc, copy, received>>
vars == <<queue, readIndex, writeIndex, dropped, sent, wpc, accepted, rpc, copy, received>>

Slots == 0 .. kQueueDepth - 1
Halves == 0 .. MaxReports           \* 0: what the slot held at start
Report == Halves \X Halves
Whole(n) == <<n, n>>
WholeReports == {Whole(n) : n \in 1 .. MaxReports}

TypeOK ==
    /\ queue \in [Slots -> Report]
    /\ readIndex \in Slots /\ writeIndex \in Slots
    /\ dropped \in Nat /\ sent \in 0 .. MaxReports
    /\ wpc \in {"idle", "low", "high", "publish"}
    /\ rpc \in {"idle", "low", "high", "advance", "receive"}
    /\ copy \in Report
    /\ accepted \in Seq(WholeReports)
    /\ received \in Seq(Report)

Init ==
    /\ queue = [s \in Slots |-> Whole(0)]
    /\ readIndex = 0 /\ writeIndex = 0
    /\ dropped = 0 /\ sent = 0 /\ wpc = "idle"
    /\ rpc = "idle" /\ copy = Whole(0)
    /\ accepted = <<>> /\ received = <<>>

\* (i + 1) % kQueueDepth
IncrementNoWrap(i) == i + 1
Increment(i) == IF i + 1 = kQueueDepth THEN 0 ELSE i + 1

-----------------------------------------------------------------------------
(* _onOutput(), on the USB task.                                            *)

FullUnchecked == FALSE
FullEarly == Increment(Increment(writeIndex)) = readIndex
Full == Increment(writeIndex) = readIndex

OutputDropped ==
    /\ wpc = "idle" /\ sent < MaxReports /\ Full
    /\ sent' = sent + 1 /\ dropped' = dropped + 1
    /\ UNCHANGED <<shared, wpc, accepted, reader>>

OutputAdmitted ==
    /\ wpc = "idle" /\ sent < MaxReports /\ ~Full
    /\ sent' = sent + 1 /\ wpc' = "low"
    /\ UNCHANGED <<shared, dropped, accepted, reader>>

WriteLow ==
    /\ wpc = "low"
    /\ queue' = [queue EXCEPT ![writeIndex] = <<sent, @[2]>>]
    /\ wpc' = "high"
    /\ UNCHANGED <<readIndex, writeIndex, dropped, sent, accepted, reader>>

WriteHigh ==
    /\ wpc = "high"
    /\ queue' = [queue EXCEPT ![writeIndex] = <<@[1], sent>>]
    /\ wpc' = "publish"
    /\ UNCHANGED <<readIndex, writeIndex, dropped, sent, accepted, reader>>

Publish ==
    /\ wpc = "publish"
    /\ writeIndex' = Increment(writeIndex)
    /\ accepted' = Append(accepted, Whole(sent))
    /\ wpc' = "idle"
    /\ UNCHANGED <<queue, readIndex, dropped, sent, reader>>

-----------------------------------------------------------------------------
(* One round of poll()'s loop, on the loop task.                            *)

SomethingAhead == Increment(readIndex) # writeIndex /\ readIndex # writeIndex
Something == readIndex # writeIndex

Look ==
    /\ rpc = "idle" /\ Something
    /\ rpc' = "low"
    /\ UNCHANGED <<shared, writer, copy, received>>

ReadLow ==
    /\ rpc = "low"
    /\ copy' = <<queue[readIndex][1], copy[2]>>
    /\ rpc' = "high"
    /\ UNCHANGED <<shared, writer, received>>

ReadHigh ==
    /\ rpc = "high"
    /\ copy' = <<copy[1], queue[readIndex][2]>>
    /\ rpc' = "advance"
    /\ UNCHANGED <<shared, writer, received>>

Advance ==
    /\ rpc = "advance"
    /\ readIndex' = Increment(readIndex)
    /\ rpc' = "receive"
    /\ UNCHANGED <<queue, writeIndex, writer, copy, received>>

\* receivePacket(report.data), which can take as long as a wait for BOOT
Receive ==
    /\ rpc = "receive"
    /\ received' = Append(received, copy)
    /\ rpc' = "idle"
    /\ UNCHANGED <<shared, writer, copy>>

-----------------------------------------------------------------------------
Output == OutputDropped \/ OutputAdmitted \/ WriteLow \/ WriteHigh \/ Publish
Poll == Look \/ ReadLow \/ ReadHigh \/ Advance \/ Receive

Next == Output \/ Poll

Spec == Init /\ [][Next]_vars

\* loop() keeps calling poll(), and receivePacket returns: every wait in it is
\* bounded by a timeout.
FairSpec == Spec /\ WF_vars(Poll)

-----------------------------------------------------------------------------
(* The USB task never writes the slot the loop task is copying from, though *)
(* nothing but the two indexes keeps them apart.                            *)
NeverTheSameSlot ==
    (wpc \in {"low", "high"} /\ rpc \in {"low", "high"}) => writeIndex # readIndex

(* The queue is a first-in first-out buffer of kQueueDepth - 1 whole        *)
(* reports: none is torn, repeated, reordered or lost once accepted, and    *)
(* one is refused only when the queue is full.  A report counts as taken    *)
(* out when poll() frees its slot.                                          *)
TakenOut == IF rpc = "receive" THEN Append(received, copy) ELSE received

Fifo == INSTANCE BoundedFifo WITH
    Items <- WholeReports, Capacity <- kQueueDepth - 1,
    log <- accepted, out <- TakenOut, lost <- dropped

IsFifo == Fifo!Spec

(* Every accepted report reaches receivePacket.                             *)
AcceptedIsReceived ==
    \A n \in 1 .. MaxReports : Len(accepted) >= n ~> Len(received) >= n
=============================================================================
