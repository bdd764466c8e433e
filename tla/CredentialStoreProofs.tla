----------------------- MODULE CredentialStoreProofs -----------------------
(***************************************************************************)
(* Proofs about CredentialStore, for every number of slots, every set of   *)
(* credential ids, and any number of power losses and refused writes.      *)
(*                                                                         *)
(* LiveIsStored and IdleIsDense are not inductive: what keeps a record     *)
(* safe while compact() runs is where the two loop indices stand.  IInv    *)
(* adds that: Cursors orders the indices, Anchored names for each phase    *)
(* the slots in which a live record counts as safe, and Packed says which  *)
(* slots are full so far, and which are empty unless a remove was refused. *)
(* Single and Gone add, for as long as no power loss has hit a move and no *)
(* remove was refused, that a credential has one record and a removed one  *)
(* has none.                                                               *)
(*                                                                         *)
(* The last part shows that the store implements CredentialMap: every      *)
(* storage write is an operation of the map or does not show.              *)
(***************************************************************************)
EXTENDS CredentialStore, NaturalsInduction, WellFoundedInduction, TLAPS

Cursors ==
    /\ pc = "addCount" => count \in 1 .. kMaxCredentials /\ nvs[count - 1] # NoRecord
    /\ pc = "compact" => w <= r /\ r <= count
    /\ pc = "move" => w < r /\ r < count
    /\ pc = "trim" => w <= r /\ w <= count

\* The stored count covers every record the RAM count covers, but for the
\* record of an add that has not returned.
Counted ==
    ~lossy => /\ pc # "addCount" => count <= nvsCount
              /\ pc = "addCount" => count - 1 <= nvsCount

SafeSlot(j) ==
    \/ pc = "off" /\ j < nvsCount
    \/ pc = "idle" /\ j < count
    \/ pc = "addCount" /\ j < count - 1
    \/ pc = "compact" /\ (j < w \/ (r <= j /\ j < count))
    \/ pc = "move" /\ (j <= w \/ (r < j /\ j < count))
    \/ pc = "trim" /\ j < w

Anchored == ~lossy => \A id \in live : \E j \in Slots : Holds(j, id) /\ SafeSlot(j)

Full(j) == nvs[j] # NoRecord

Packed ==
    ~lossy =>
        \A j \in Slots :
            /\ pc \in {"idle", "addCount"} => (j < count => Full(j))
            /\ pc \in {"compact", "move", "trim"} => (j < w => Full(j))
            /\ pc = "move" => (j = w => Full(j))
            /\ ~stuck =>
                  /\ pc \in {"idle", "addCount"} => (Full(j) => j < count)
                  /\ pc \in {"compact", "trim"} => (w <= j /\ j < r => ~Full(j))
                  /\ pc = "move" => (w < j /\ j < r => ~Full(j))

IInv == TypeOK /\ Cursors /\ Counted /\ Anchored /\ Packed
-----------------------------------------------------------------------------
(* The initial state: power is off and storage is erased.                   *)
LEMMA InitIInv == Init => IInv
<1> SUFFICES ASSUME Init PROVE IInv
  OBVIOUS
<1> USE MaxIsPositive DEF Init, Slots
<1>1. TypeOK
  <2>1. lossy \in BOOLEAN /\ moveCrash \in BOOLEAN /\ stuck \in BOOLEAN
    BY Zenon
  <2> QED
    BY <2>1 DEF TypeOK, PcValues
<1>2. Cursors /\ Counted /\ Anchored /\ Packed
  BY DEF Cursors, Counted, Anchored, Packed
<1> QED
  BY <1>1, <1>2 DEF IInv

(* Saving a record over another of the same credential keeps IInv.          *)
LEMMA RewriteIInv ==
  ASSUME IInv, pc = "idle", NEW j \in Slots, Full(j),
         NEW rec \in Records, rec.id = nvs[j].id, Rewrite(j, rec)
  PROVE  IInv'
<1> USE NoRecordIsNone DEF Rewrite, Accepted, Refused, ghosts
<1>1. \A k \in Slots : Full(k)' <=> Full(k)
  BY DEF Full, IInv, TypeOK
<1>2. \A k \in Slots, id \in CredIds : Holds(k, id)' <=> Holds(k, id)
  BY DEF Full, Holds, IInv, TypeOK
<1>3. TypeOK'
  BY DEF IInv, TypeOK
<1>4. Cursors' /\ Counted'
  BY DEF IInv, Cursors, Counted
<1>5. Anchored'
  BY <1>2 DEF IInv, TypeOK, Anchored, SafeSlot
<1>6. Packed'
  BY <1>1 DEF IInv, Packed
<1> QED
  BY <1>3, <1>4, <1>5, <1>6 DEF IInv

(* prefs_.remove(): the key is gone, or it stays as it was and is stuck.    *)
LEMMA RemoveIs ==
  ASSUME TypeOK, NEW j \in Slots, Remove(j)
  PROVE  /\ nvs' \in [Slots -> Records \cup {NoRecord}]
         /\ \A k \in Slots : k # j => nvs'[k] = nvs[k]
         /\ nvs'[j] \in {NoRecord, nvs[j]}
         /\ nvs'[j] # NoRecord => stuck'
         /\ stuck => stuck'
         /\ failures' \in Nat /\ stuck' \in BOOLEAN
         /\ UNCHANGED <<nvsCount, crashes, lossy, moveCrash>>
<1> USE DEF TypeOK, Remove, Accepted, Refused
<1>1. /\ nvs' \in [Slots -> Records \cup {NoRecord}]
      /\ \A k \in Slots : k # j => nvs'[k] = nvs[k]
      /\ nvs'[j] \in {NoRecord, nvs[j]}
  BY DEF Without
<1>2. nvs'[j] # NoRecord => stuck'
  <2>1. CASE nvs' = Without(j)
    BY <2>1 DEF Without
  <2>2. CASE stuck' = TRUE
    BY <2>2
  <2> QED
    BY <2>1, <2>2
<1>3. (stuck => stuck') /\ stuck' \in BOOLEAN
  BY Zenon
<1>4. failures' \in Nat /\ UNCHANGED <<nvsCount, crashes, lossy, moveCrash>>
  OBVIOUS
<1> QED
  BY <1>1, <1>2, <1>3, <1>4

(* Every step of the store, every request, and every power loss keeps IInv. *)
LEMMA StepIInv == IInv /\ [Next]_vars => IInv'
<1> SUFFICES ASSUME IInv, [Next]_vars PROVE IInv'
  OBVIOUS
<1> USE MaxIsPositive, NoRecordIsNone DEF IInv, TypeOK, PcValues, Slots,
        store, ghosts, faults, Accepted, Refused
<1>1. CASE Boot
  BY <1>1 DEF Boot,
       Cursors, Counted, Anchored, SafeSlot, Packed, Full, Holds, Records
<1>2. CASE AddCount
  <2>1. TypeOK'
    <3>1. lossy' \in BOOLEAN /\ UNCHANGED <<moveCrash, stuck>>
      BY <1>2, Zenon DEF AddCount
    <3>2. nvs[count - 1] \in Records
      BY <1>2 DEF AddCount, Cursors
    <3>3. live' \in SUBSET CredIds
      BY <1>2, <3>2 DEF AddCount, Records
    <3> QED
      BY <1>2, <3>1, <3>3 DEF AddCount, Cursors
  <2>2. Cursors'
    BY <1>2 DEF AddCount, Cursors
  <2>3. Counted'
    BY <1>2 DEF AddCount, Cursors, Counted
  <2>4. Anchored'
    BY <1>2 DEF AddCount, Cursors, Anchored, SafeSlot, Packed, Full, Holds
  <2>5. Packed'
    BY <1>2 DEF AddCount, Cursors, Packed, Full
  <2> QED
    BY <2>1, <2>2, <2>3, <2>4, <2>5
<1>3. CASE CompactSkip
  BY <1>3 DEF CompactSkip, Scanning, AfterHole,
       Cursors, Counted, Anchored, SafeSlot, Packed, Full, Holds, Records
<1>4. CASE CompactKeep
  BY <1>4 DEF CompactKeep, Scanning,
       Cursors, Counted, Anchored, SafeSlot, Packed, Full, Holds, Records
<1>5. CASE CompactSave
  <2>1. TypeOK'
    <3>1. lossy' \in BOOLEAN /\ UNCHANGED <<moveCrash, stuck>>
      BY <1>5, Zenon DEF CompactSave
    <3> QED
      BY <1>5, <3>1 DEF CompactSave, Scanning, Moved, Cursors
  <2>2. Cursors'
    BY <1>5 DEF CompactSave, Scanning, Moved, Cursors
  <2>3. Counted'
    BY <1>5 DEF CompactSave, Scanning, Moved, Cursors, Counted
  <2>4. Anchored'
    BY <1>5 DEF CompactSave, Scanning, Moved, Cursors, Anchored, SafeSlot, Holds
  <2>5. Packed'
    BY <1>5 DEF CompactSave, Scanning, Moved, Cursors, Packed, Full
  <2> QED
    BY <2>1, <2>2, <2>3, <2>4, <2>5
<1>6. CASE CompactMove
  <2>1. r \in Slots /\ Remove(r) /\ pc = "move" /\ pc' = "compact" /\ r' = r + 1 /\ w' = w + 1
    BY <1>6 DEF CompactMove, Cursors
  <2>2. UNCHANGED <<count, live, doomed, deleted, used>>
    BY <1>6 DEF CompactMove
  <2>3. TypeOK'
    BY <2>1, <2>2, RemoveIs DEF Cursors
  <2>4. Cursors' /\ Counted'
    BY <2>1, <2>2, RemoveIs DEF Cursors, Counted
  <2>5. Anchored'
    BY <2>1, <2>2, RemoveIs DEF Cursors, Anchored, SafeSlot, Holds
  <2>6. Packed'
    BY <2>1, <2>2, RemoveIs DEF Cursors, Packed, Full
  <2> QED
    BY <2>3, <2>4, <2>5, <2>6
<1>7. CASE CompactScanned
  BY <1>7 DEF CompactScanned,
       Cursors, Counted, Anchored, SafeSlot, Packed, Full, Holds, Records
<1>8. CASE Trim
  <2>1. r \in Slots /\ Remove(r) /\ pc = "trim" /\ pc' = "trim" /\ r' = r + 1 /\ w' = w
    BY <1>8 DEF Trim, AfterTrim, Cursors
  <2>2. UNCHANGED <<count, live, doomed, deleted, used>>
    BY <1>8 DEF Trim
  <2>3. TypeOK'
    BY <2>1, <2>2, RemoveIs
  <2>4. Cursors' /\ Counted'
    BY <2>1, <2>2, RemoveIs DEF Cursors, Counted
  <2>5. Anchored'
    BY <2>1, <2>2, RemoveIs DEF Cursors, Anchored, SafeSlot, Holds
  <2>6. Packed'
    BY <2>1, <2>2, RemoveIs DEF Cursors, Packed, Full
  <2> QED
    BY <2>3, <2>4, <2>5, <2>6
<1>9. CASE TrimDone
  BY <1>9 DEF TrimDone,
       Cursors, Counted, Anchored, SafeSlot, Packed, Full, Holds, Records
<1>10. ASSUME NEW id \in CredIds, NEW u \in Users, Add(id, u) PROVE IInv'
  <2>1. TypeOK'
    BY <1>10 DEF Add, HasRoom, Records
  <2>2. Cursors'
    BY <1>10 DEF Add, HasRoom, Cursors, Records
  <2>3. Counted'
    BY <1>10 DEF Add, HasRoom, Counted
  <2>4. Anchored'
    <3> SUFFICES ASSUME ~lossy, NEW i \in live
                 PROVE  \E j \in Slots : Holds(j, i)' /\ SafeSlot(j)'
      BY <1>10 DEF Add, Anchored
    <3>1. PICK j \in Slots : Holds(j, i) /\ j < count
      BY <1>10 DEF Add, Anchored, SafeSlot
    <3>2. Holds(j, i)' /\ SafeSlot(j)'
      BY <1>10, <3>1 DEF Add, HasRoom, Holds, SafeSlot
    <3> QED
      BY <3>2
  <2>5. Packed'
    BY <1>10 DEF Add, HasRoom, Packed, Full, Records
  <2> QED
    BY <2>1, <2>2, <2>3, <2>4, <2>5
<1>11. ASSUME NEW j \in Slots, NEW id \in CredIds, UpdateCounter(j, id) PROVE IInv'
  <2>1. j < count /\ Full(j) /\ nvs[j] \in Records
    BY <1>11 DEF UpdateCounter, Found, IsFirst, Below, Holds, Full
  <2>2. [nvs[j] EXCEPT !.ctr = @ + 1] \in Records
    BY <2>1 DEF Records
  <2>3. [nvs[j] EXCEPT !.ctr = @ + 1].id = nvs[j].id
    BY <2>1 DEF Records
  <2> QED
    BY <1>11, <2>1, <2>2, <2>3, RewriteIInv DEF UpdateCounter
<1>12. ASSUME NEW j \in Slots, NEW id \in CredIds, NEW u \in Users, Update(j, id, u)
       PROVE IInv'
  <2>1. j < count /\ Full(j) /\ nvs[j] \in Records
    BY <1>12 DEF Update, Found, IsFirst, Below, Holds, Full
  <2>2. Updated(nvs[j], u) \in Records
    BY <2>1 DEF Records, Updated
  <2>3. Updated(nvs[j], u).id = nvs[j].id
    BY <2>1 DEF Records, Updated
  <2> QED
    BY <1>12, <2>1, <2>2, <2>3, RewriteIInv DEF Update
<1>13. ASSUME NEW j \in Slots, NEW id \in CredIds, Delete(j, id) PROVE IInv'
  <2>1. Remove(j) /\ pc = "idle" /\ pc' = "compact" /\ r' = 0 /\ w' = 0
    BY <1>13 DEF Delete
  <2>2. UNCHANGED <<count, deleted, used>> /\ live' = live \ {id} /\ doomed' = {id}
    BY <1>13 DEF Delete
  <2>3. Holds(j, id)
    BY <1>13 DEF Delete, Found, IsFirst, Below
  <2>4. TypeOK'
    BY <2>1, <2>2, RemoveIs
  <2>5. Cursors' /\ Counted'
    BY <2>1, <2>2, RemoveIs DEF Cursors, Counted
  <2>6. Anchored'
    BY <2>1, <2>2, <2>3, RemoveIs DEF Anchored, SafeSlot, Holds
  <2>7. Packed'
    BY <2>1, <2>2, RemoveIs DEF Packed, Full
  <2> QED
    BY <2>4, <2>5, <2>6, <2>7
<1>14. CASE Wipe
  BY <1>14 DEF Wipe,
       Cursors, Counted, Anchored, SafeSlot, Packed, Full, Holds, Records
<1>15. CASE Crash
  BY <1>15 DEF Crash,
       Cursors, Counted, Anchored, SafeSlot, Packed, Full, Holds, Records
<1>16. CASE UNCHANGED vars
  BY <1>16 DEF vars,
       Cursors, Counted, Anchored, SafeSlot, Packed, Full, Holds, Records
<1> QED
  BY <1>1, <1>2, <1>3, <1>4, <1>5, <1>6, <1>7, <1>8, <1>9, <1>10, <1>11, <1>12,
     <1>13, <1>14, <1>15, <1>16 DEF Next, Running, Requests
-----------------------------------------------------------------------------
(* IInv is an invariant of the store.                                       *)
THEOREM StoreIInv == Spec => []IInv
BY InitIInv, StepIInv, PTL DEF Spec

(* The indices of compact() and the counts stay in range, and every record  *)
(* slot holds a record or nothing: no write is outside cred0..cred<max-1>.  *)
THEOREM StoreTypeOK == Spec => []TypeOK
<1>1. IInv => TypeOK
  BY DEF IInv
<1> QED
  BY <1>1, StoreIInv, PTL

(* A confirmed credential survives any number of power losses.              *)
THEOREM StoreLiveIsStored == Spec => []LiveIsStored
<1>1. IInv => LiveIsStored
  <2> SUFFICES ASSUME IInv, ~lossy, NEW id \in live
               PROVE  \E j \in 0 .. nvsCount - 1 : Holds(j, id)
    BY DEF LiveIsStored, Below
  <2>1. PICK j \in Slots : Holds(j, id) /\ SafeSlot(j)
    BY DEF IInv, Anchored
  <2>2. j < nvsCount
    BY <2>1 DEF IInv, TypeOK, PcValues, SafeSlot, Cursors, Counted, Slots
  <2> QED
    BY <2>1, <2>2 DEF Slots, IInv, TypeOK
<1> QED
  BY <1>1, StoreIInv, PTL

(* An idle store finds every live credential and has no holes.              *)
THEOREM StoreIdleIsDense == Spec => []IdleIsDense
<1>1. IInv => IdleIsDense
  <2> SUFFICES ASSUME IInv, pc = "idle", ~lossy
               PROVE  /\ \A id \in live : IsKnown(id)
                      /\ \A j \in Slots : j < count => nvs[j] # NoRecord
                      /\ ~stuck => \A j \in Slots : nvs[j] # NoRecord => j < count
    BY DEF IdleIsDense
  <2>1. ASSUME NEW id \in live PROVE IsKnown(id)
    <3>1. PICK j \in Slots : Holds(j, id) /\ j < count
      BY DEF IInv, Anchored, SafeSlot
    <3> QED
      BY <3>1 DEF IsKnown, Below, Slots, IInv, TypeOK
  <2>2. /\ \A j \in Slots : j < count => nvs[j] # NoRecord
        /\ ~stuck => \A j \in Slots : nvs[j] # NoRecord => j < count
    BY DEF IInv, Packed, Full
  <2> QED
    BY <2>1, <2>2
<1> QED
  BY <1>1, StoreIInv, PTL
-----------------------------------------------------------------------------
(* Operations end: StepsLeft is a natural number with a bound that depends  *)
(* on the number of slots only, it is zero when nothing runs, and each step *)
(* of an operation makes it smaller, which the next theorem says.           *)
THEOREM StoreStepsAreBounded ==
    Spec => [](StepsLeft \in 0 .. 3 * kMaxCredentials + 4 /\ (StepsLeft = 0 <=> pc = "idle"))
<1>1. IInv => StepsLeft \in 0 .. 3 * kMaxCredentials + 4 /\ (StepsLeft = 0 <=> pc = "idle")
  <2> SUFFICES ASSUME IInv
               PROVE  StepsLeft \in 0 .. 3 * kMaxCredentials + 4 /\ (StepsLeft = 0 <=> pc = "idle")
    OBVIOUS
  <2>1. /\ kMaxCredentials \in Nat \ {0} /\ count \in 0 .. kMaxCredentials
        /\ r \in 0 .. kMaxCredentials /\ pc \in PcValues
    BY MaxIsPositive DEF IInv, TypeOK
  <2>2. (pc = "compact" => r <= count) /\ (pc = "move" => r < count)
    BY DEF IInv, Cursors
  <2> QED
    BY <2>1, <2>2 DEF StepsLeft, PcValues
<1> QED
  BY <1>1, StoreIInv, PTL

(* Each step of an operation or of the recovery, its writes refused or not, *)
(* brings the end nearer: compact() never goes round again.                 *)
THEOREM StoreStepsRunOut == Spec => StepsRunOut
<1>1. IInv /\ [Next]_vars => [Running => StepsLeft' < StepsLeft]_vars
  <2> SUFFICES ASSUME IInv, Running PROVE StepsLeft' < StepsLeft
    OBVIOUS
  <2>1. /\ kMaxCredentials \in Nat \ {0} /\ count \in 0 .. kMaxCredentials
        /\ nvsCount \in 0 .. kMaxCredentials
        /\ r \in 0 .. kMaxCredentials /\ w \in 0 .. kMaxCredentials
    BY MaxIsPositive DEF IInv, TypeOK
  <2>2. CASE Boot
    BY <2>1, <2>2 DEF Boot, StepsLeft
  <2>3. CASE AddCount
    BY <2>3 DEF AddCount, StepsLeft
  <2>4. CASE CompactSkip
    BY <2>1, <2>4 DEF CompactSkip, Scanning, store, StepsLeft
  <2>5. CASE CompactKeep
    BY <2>1, <2>5 DEF CompactKeep, Scanning, store, StepsLeft
  <2>6. CASE CompactSave
    BY <2>1, <2>6 DEF CompactSave, Scanning, StepsLeft
  <2>7. CASE CompactMove
    BY <2>1, <2>7 DEF CompactMove, Remove, StepsLeft
  <2>8. CASE CompactScanned
    BY <2>1, <2>8 DEF CompactScanned, store, StepsLeft
  <2>9. CASE Trim
    BY <2>1, <2>9 DEF Trim, AfterTrim, Remove, StepsLeft
  <2>10. CASE TrimDone
    BY <2>1, <2>10 DEF TrimDone, StepsLeft
  <2> QED
    BY <2>2, <2>3, <2>4, <2>5, <2>6, <2>7, <2>8, <2>9, <2>10 DEF Running
<1> QED
  BY <1>1, StoreIInv, PTL DEF Spec, StepsRunOut

-----------------------------------------------------------------------------
(* An id is new when it is added; and what a move has copied.               *)
Fresh ==
    /\ live \subseteq used
    /\ \A j \in Slots : Full(j) => nvs[j].id \in used
    /\ pc = "addCount" =>
          LET id == nvs[count - 1].id IN
          /\ id \notin live /\ nvs[count - 1].ctr = 1
          /\ \A j \in Slots : Holds(j, id) => j = count - 1
    /\ (pc = "move" /\ ~lossy) => nvs[w] = nvs[r]

(* Ids are generated at random and used once.                               *)
LEMMA StepFresh == IInv /\ Fresh /\ [Next]_vars => Fresh'
<1> SUFFICES ASSUME IInv, Fresh, [Next]_vars PROVE Fresh'
  OBVIOUS
<1> USE MaxIsPositive, NoRecordIsNone DEF IInv, TypeOK, PcValues, Slots, store, ghosts, faults,
        Accepted, Refused, Fresh, Full, Holds
<1>1. CASE Boot \/ Crash \/ CompactSkip \/ CompactKeep \/ CompactScanned \/ Wipe
  BY <1>1 DEF Boot, Crash, CompactSkip, CompactKeep, CompactScanned, Wipe, Scanning
<1>2. CASE AddCount
  BY <1>2 DEF AddCount, Cursors, Records
<1>3. CASE CompactSave
  BY <1>3 DEF CompactSave, Scanning, Moved, Cursors
<1>4. CASE CompactMove \/ Trim \/ TrimDone
  BY <1>4 DEF CompactMove, Trim, TrimDone, Remove, Without
<1>5. ASSUME NEW id \in CredIds, NEW u \in Users, Add(id, u) PROVE Fresh'
  BY <1>5 DEF Add, HasRoom, Records
<1>6. ASSUME NEW j \in Slots, NEW id \in CredIds, UpdateCounter(j, id) PROVE Fresh'
  BY <1>6 DEF UpdateCounter, Rewrite, Found, IsFirst, Below, Records
<1>7. ASSUME NEW j \in Slots, NEW id \in CredIds, NEW u \in Users, Update(j, id, u) PROVE Fresh'
  BY <1>7 DEF Update, Updated, Rewrite, Found, IsFirst, Below, Records
<1>8. ASSUME NEW j \in Slots, NEW id \in CredIds, Delete(j, id) PROVE Fresh'
  BY <1>8 DEF Delete, Remove, Without, Found, IsFirst, Below
<1>9. CASE UNCHANGED vars
  BY <1>9 DEF vars
<1> QED
  BY <1>1, <1>2, <1>3, <1>4, <1>5, <1>6, <1>7, <1>8, <1>9 DEF Next, Running, Requests

LEMMA InitFresh == Init => Fresh
BY NoRecordIsNone DEF Init, Fresh, Full

-----------------------------------------------------------------------------
(* What is removed, or was, has been added before.                          *)
Once ==
    /\ deleted \subseteq used /\ doomed \subseteq used
    /\ pc \in {"off", "idle", "addCount"} => doomed = {}

(* A credential has one record, and a second one during its move.           *)
Single ==
    (~moveCrash /\ ~stuck) =>
        \A j, k \in Slots :
            Full(j) /\ Full(k) /\ nvs[j].id = nvs[k].id =>
                j = k \/ (pc = "move" /\ {j, k} = {w, r})

(* A removed credential has no record; one that is being removed has none   *)
(* where the final removes have been.                                       *)
Gone ==
    (~moveCrash /\ ~stuck) =>
        \A j \in Slots : Full(j) =>
            /\ nvs[j].id \notin deleted
            /\ pc # "trim" \/ j < r => nvs[j].id \notin doomed

LEMMA StepOnce == IInv /\ Fresh /\ Once /\ [Next]_vars => Once'
<1> SUFFICES ASSUME IInv, Fresh, Once, [Next]_vars PROVE Once'
  OBVIOUS
<1> USE DEF Once, store, ghosts, faults
<1>1. CASE Boot \/ Crash \/ AddCount \/ CompactSkip \/ CompactKeep \/ CompactSave \/ CompactMove \/ CompactScanned
  BY <1>1 DEF Boot, Crash, AddCount, CompactSkip, CompactKeep, CompactSave, CompactMove, CompactScanned, Scanning
<1>2. CASE Trim \/ TrimDone \/ Wipe
  BY <1>2 DEF Trim, TrimDone, Wipe
<1>3. ASSUME NEW id \in CredIds, NEW u \in Users, Add(id, u) PROVE Once'
  BY <1>3 DEF Add
<1>4. ASSUME NEW j \in Slots, NEW id \in CredIds, UpdateCounter(j, id) PROVE Once'
  BY <1>4 DEF UpdateCounter, Rewrite
<1>5. ASSUME NEW j \in Slots, NEW id \in CredIds, NEW u \in Users, Update(j, id, u) PROVE Once'
  BY <1>5 DEF Update, Rewrite
<1>6. ASSUME NEW j \in Slots, NEW id \in CredIds, Delete(j, id) PROVE Once'
  <2>1. nvs[j].id = id /\ Full(j)
    BY <1>6 DEF Delete, Found, IsFirst, Below, Holds, Full
  <2>2. id \in used
    BY <2>1 DEF Fresh
  <2> QED
    BY <1>6, <2>2 DEF Delete
<1>7. CASE UNCHANGED vars
  BY <1>7 DEF vars
<1> QED
  BY <1>1, <1>2, <1>3, <1>4, <1>5, <1>6, <1>7 DEF Next, Running, Requests

(* A record is saved over one of the same credential.                       *)
LEMMA RewriteSingle ==
  ASSUME IInv, Single, Gone, pc = "idle", NEW j \in Slots, Full(j),
         NEW rec \in Records, rec.id = nvs[j].id, Rewrite(j, rec)
  PROVE  Single' /\ Gone'
<1>1. \A k \in Slots : (Full(k)' <=> Full(k)) /\ (Full(k) => nvs'[k].id = nvs[k].id)
  BY NoRecordIsNone DEF Rewrite, Accepted, Refused, Full, IInv, TypeOK
<1>2. pc' = "idle" /\ pc = "idle" /\ UNCHANGED <<deleted, doomed, moveCrash, stuck>> /\ UNCHANGED r
  BY DEF Rewrite, ghosts
<1> QED
  BY <1>1, <1>2 DEF Single, Gone

LEMMA StepSingle == IInv /\ Fresh /\ Once /\ Single /\ Gone /\ [Next]_vars => Single' /\ Gone'
<1> SUFFICES ASSUME IInv, Fresh, Once, Single, Gone, [Next]_vars PROVE Single' /\ Gone'
  OBVIOUS
<1>1. CASE Boot \/ Crash \/ CompactSkip \/ CompactKeep \/ CompactScanned \/ Wipe
  <2>1. UNCHANGED <<nvs, deleted>>
    BY <1>1 DEF Boot, Crash, CompactSkip, CompactKeep, CompactScanned, Wipe, store, ghosts
  <2>2. CASE Boot
    BY <2>1, <2>2 DEF Boot, ghosts, faults, Single, Gone, Full, Once
  <2>3. CASE Crash
    BY <2>1, <2>3 DEF Crash, Single, Gone, Full
  <2>4. CASE CompactSkip \/ CompactKeep \/ CompactScanned
    BY <2>1, <2>4 DEF CompactSkip, CompactKeep, CompactScanned, Scanning, ghosts, faults, Single, Gone, Full
  <2>5. CASE Wipe
    <3>1. \A k \in Slots : ~ (k < 0)
      BY DEF Slots
    <3> QED
      BY <2>1, <2>5, <3>1 DEF Wipe, faults, Single, Gone, Full
  <2> QED
    BY <1>1, <2>2, <2>3, <2>4, <2>5
<1>2. CASE AddCount
  BY <1>2 DEF AddCount, Single, Gone, Full
<1>3. CASE CompactSave
  <2>1. w \in Slots /\ r \in Slots /\ w # r /\ pc = "compact" /\ Full(r)
    BY <1>3, MaxIsPositive DEF CompactSave, Scanning, IInv, TypeOK, Cursors, Slots, Full
  <2>2. nvs' = nvs \/ nvs' = [nvs EXCEPT ![w] = nvs[r]]
    BY <1>3 DEF CompactSave, Moved
  <2>3. pc' = "move" /\ UNCHANGED <<r, w, doomed, deleted, moveCrash, stuck>>
    BY <1>3 DEF CompactSave, ghosts
  <2>4. \A k \in Slots : nvs'[k] = nvs[k] \/ (k = w /\ nvs'[k] = nvs[r])
    BY <2>1, <2>2 DEF IInv, TypeOK
  <2> QED
    BY <2>1, <2>3, <2>4 DEF Single, Gone, Full
<1>4. CASE CompactMove
  <2>1. w \in Slots /\ r \in Slots /\ w # r /\ pc = "move"
    BY <1>4, MaxIsPositive DEF CompactMove, IInv, TypeOK, Cursors, Slots
  <2>2. pc' = "compact" /\ UNCHANGED <<doomed, deleted>> /\ Remove(r)
    BY <1>4 DEF CompactMove, ghosts
  <2>3. /\ moveCrash' = moveCrash /\ (stuck => stuck')
        /\ ~stuck' => \A k \in Slots : nvs'[k] = IF k = r THEN NoRecord ELSE nvs[k]
    BY <2>1, <2>2, RemoveIs DEF IInv
  <2> QED
    BY <2>1, <2>2, <2>3 DEF Single, Gone, Full
<1>5. CASE Trim
  <2>1. r \in Slots /\ pc = "trim" /\ pc' = "trim" /\ r' = r + 1 /\ UNCHANGED <<doomed, deleted>> /\ Remove(r)
    BY <1>5, MaxIsPositive DEF Trim, AfterTrim, IInv, TypeOK, Slots, ghosts
  <2>2. /\ moveCrash' = moveCrash /\ (stuck => stuck')
        /\ ~stuck' => \A k \in Slots : nvs'[k] = IF k = r THEN NoRecord ELSE nvs[k]
    BY <2>1, RemoveIs DEF IInv
  <2>3. \A k \in Slots : k # r /\ k < r' => k < r
    BY <2>1 DEF Slots
  <2> QED
    BY <2>1, <2>2, <2>3 DEF Single, Gone, Full
<1>6. CASE TrimDone
  <2>1. pc = "trim" /\ pc' = "idle" /\ doomed' = {} /\ deleted' = deleted \cup doomed /\ UNCHANGED <<nvs, moveCrash, stuck>>
    BY <1>6 DEF TrimDone
  <2>2. \A k \in Slots : k < r
    BY <1>6, MaxIsPositive DEF TrimDone, Slots
  <2> QED
    BY <2>1, <2>2 DEF Single, Gone, Full
<1>7. ASSUME NEW id \in CredIds, NEW u \in Users, Add(id, u) PROVE Single' /\ Gone'
  <2>1. count \in Slots /\ pc = "idle" /\ id \notin used
    BY <1>7, MaxIsPositive DEF Add, HasRoom, IInv, TypeOK, Slots
  <2>2. doomed = {} /\ UNCHANGED <<doomed, deleted, moveCrash, stuck>> /\ pc' \in {"idle", "addCount"}
    BY <1>7, <2>1 DEF Add, Once
  <2>3. \/ nvs' = nvs
        \/ nvs' = [nvs EXCEPT ![count] = [id |-> id, user |-> u, ctr |-> 1]]
    BY <1>7 DEF Add
  <2>4. \A k \in Slots : nvs'[k] = nvs[k] \/ (k = count /\ nvs'[k].id = id)
    BY <2>1, <2>3 DEF IInv, TypeOK
  <2>5. \A k \in Slots : Full(k) => nvs[k].id # id
    BY <2>1 DEF Fresh
  <2>6. id \notin deleted
    BY <2>1 DEF Once
  <2> QED
    BY <2>1, <2>2, <2>4, <2>5, <2>6 DEF Single, Gone, Full
<1>8. ASSUME NEW j \in Slots, NEW id \in CredIds, UpdateCounter(j, id) PROVE Single' /\ Gone'
  <2>1. Full(j) /\ nvs[j] \in Records
    BY <1>8 DEF UpdateCounter, Found, IsFirst, Below, Holds, Full, IInv, TypeOK
  <2>2. [nvs[j] EXCEPT !.ctr = @ + 1] \in Records /\ [nvs[j] EXCEPT !.ctr = @ + 1].id = nvs[j].id
    BY <2>1 DEF Records
  <2> QED
    BY <1>8, <2>1, <2>2, RewriteSingle DEF UpdateCounter
<1>9. ASSUME NEW j \in Slots, NEW id \in CredIds, NEW u \in Users, Update(j, id, u) PROVE Single' /\ Gone'
  <2>1. Full(j) /\ nvs[j] \in Records
    BY <1>9 DEF Update, Found, IsFirst, Below, Holds, Full, IInv, TypeOK
  <2>2. Updated(nvs[j], u) \in Records /\ Updated(nvs[j], u).id = nvs[j].id
    BY <2>1 DEF Records, Updated
  <2> QED
    BY <1>9, <2>1, <2>2, RewriteSingle DEF Update
<1>10. ASSUME NEW j \in Slots, NEW id \in CredIds, Delete(j, id) PROVE Single' /\ Gone'
  <2>1. Full(j) /\ nvs[j].id = id /\ pc = "idle" /\ pc' = "compact" /\ doomed' = {id} /\ UNCHANGED deleted /\ Remove(j)
    BY <1>10 DEF Delete, Found, IsFirst, Below, Holds, Full
  <2>2. /\ moveCrash' = moveCrash /\ (stuck => stuck')
        /\ ~stuck' => \A k \in Slots : nvs'[k] = IF k = j THEN NoRecord ELSE nvs[k]
    BY <2>1, RemoveIs DEF IInv
  <2> QED
    BY <2>1, <2>2 DEF Single, Gone, Full
<1>11. CASE UNCHANGED vars
  BY <1>11 DEF vars, Single, Gone, Full
<1> QED
  BY <1>1, <1>2, <1>3, <1>4, <1>5, <1>6, <1>7, <1>8, <1>9, <1>10, <1>11 DEF Next, Running, Requests

(* Power loss is harmless for deletion at every point but between the save  *)
(* and the remove of a move: otherwise no credential has two records and a  *)
(* deleted one has none, unless the storage refused to remove a record.     *)
THEOREM StoreCrashSafeOutsideMove == Spec => []CrashSafeOutsideMove
<1>1. Init => Once /\ Single /\ Gone
  BY DEF Init, Once, Single, Gone, Full
<1>2. Single /\ Gone => CrashSafeOutsideMove
  BY DEF Single, Gone, CrashSafeOutsideMove, Full
<1> QED
  BY <1>1, <1>2, InitIInv, InitFresh, StepIInv, StepFresh, StepOnce, StepSingle, PTL DEF Spec

-----------------------------------------------------------------------------
(* The first record of an id, among all slots.                              *)
IsCopy(j, id) ==
    /\ j \in Slots /\ nvs[j] # NoRecord /\ nvs[j].id = id
    /\ \A k \in Slots : (nvs[k] # NoRecord /\ nvs[k].id = id) => j <= k

Shown(j) == [user |-> nvs[j].user, ctr |-> nvs[j].ctr]

(* A slot in which a live record counts as safe is below the stored count.  *)
LEMMA SafeIsStored ==
    IInv => (~lossy => \A j \in Slots : SafeSlot(j) => j < nvsCount)
BY MaxIsPositive DEF IInv, TypeOK, PcValues, Slots, Cursors, Counted, SafeSlot

(* A live credential has a first record, at or before a safe one.           *)
LEMMA LiveHasCopy ==
    ASSUME IInv, ~lossy, NEW id \in live
    PROVE  \E j \in Slots : IsCopy(j, id)
<1> DEFINE S == {j \in Slots : nvs[j] # NoRecord /\ nvs[j].id = id}
<1>1. S \subseteq Nat /\ S # {}
  BY MaxIsPositive DEF IInv, Anchored, Holds, Slots
<1>2. PICK j \in S : \A y \in S : ~ (<<y, j>> \in OpToRel(<, Nat))
  BY <1>1, NatLessThanWellFounded, WFMin
<1>3. \A y \in S : ~ (y < j)
  BY <1>1, <1>2 DEF OpToRel
<1>4. IsCopy(j, id)
  BY <1>1, <1>3 DEF IsCopy
<1> QED
  BY <1>4

(* What the map shows of a live credential is its first record.             *)
LEMMA KeptIs ==
    IInv => (~lossy => \A id \in live : \A j \in Slots : IsCopy(j, id) => Kept(id) = Shown(j))
<1> SUFFICES ASSUME IInv, ~lossy, NEW id \in live, NEW j \in Slots, IsCopy(j, id)
             PROVE  Kept(id) = Shown(j)
  OBVIOUS
<1>1. PICK s \in Slots : Holds(s, id) /\ SafeSlot(s)
  BY DEF IInv, Anchored
<1>2. j <= s /\ s < nvsCount
  BY <1>1, SafeIsStored DEF IsCopy, Holds
<1>3. IsFirst(j, Below(nvsCount, id))
  BY <1>2, MaxIsPositive DEF IsFirst, Below, IsCopy, Holds, Slots, IInv, TypeOK
<1>4. \A k : IsFirst(k, Below(nvsCount, id)) => k = j
  BY <1>3 DEF IsFirst, Below
<1>5. First(nvsCount, id) = j
  BY <1>3, <1>4 DEF First, IsFirst
<1> QED
  BY <1>5 DEF Kept, Shown

(* The same after a step.                                                   *)
LEMMA KeptIsNext ==
    (IInv => (~lossy => \A id \in live : \A j \in Slots : IsCopy(j, id) => Kept(id) = Shown(j)))'
BY KeptIs, PTL
-----------------------------------------------------------------------------
(* The map as a function of the store.                                      *)
Creds == [id \in IF lossy THEN {} ELSE live |-> Kept(id)]

(* An id keeps its entry when what its first record shows stays.            *)
Stays(id) == \E j, k \in Slots : IsCopy(j, id) /\ IsCopy(k, id)' /\ Shown(k)' = Shown(j)

(* What the map shows of such an id does not change.                        *)
LEMMA StaysKept ==
    ASSUME IInv, IInv', ~lossy, ~lossy', NEW id \in live, id \in live', Stays(id)
    PROVE  Kept(id)' = Kept(id)
<1>1. PICK j, k \in Slots : IsCopy(j, id) /\ IsCopy(k, id)' /\ Shown(k)' = Shown(j)
  BY DEF Stays
<1>2. Kept(id) = Shown(j)
  BY <1>1, KeptIs
<1>3. Kept(id)' = Shown(k)'
  BY <1>1, KeptIsNext DEF Slots
<1> QED
  BY <1>1, <1>2, <1>3

(* A step that keeps what every live credential shows is not seen.          *)
LEMMA Unseen ==
    ASSUME IInv, IInv', lossy' = lossy, live' = live, ~lossy => \A id \in live : Stays(id)
    PROVE  UNCHANGED <<Creds, lossy>>
<1>1. CASE lossy
  BY <1>1 DEF Creds
<1>2. CASE ~lossy
  <2>1. \A id \in live : Kept(id)' = Kept(id)
    BY <1>2, StaysKept
  <2> QED
    BY <1>2, <2>1 DEF Creds
<1> QED
  BY <1>1, <1>2

(* When no record of a live credential is written, none of them changes.    *)
LEMMA Untouched ==
    ASSUME IInv, ~lossy, NEW id \in live,
           \A k \in Slots : (nvs[k] # NoRecord /\ nvs[k].id = id) => nvs'[k] = nvs[k],
           \A k \in Slots : (nvs'[k] # NoRecord /\ nvs'[k].id = id) => nvs'[k] = nvs[k]
    PROVE  Stays(id)
<1>1. PICK j \in Slots : IsCopy(j, id)
  BY LiveHasCopy
<1>2. IsCopy(j, id)' /\ Shown(j)' = Shown(j)
  BY <1>1 DEF IsCopy, Shown, Slots
<1> QED
  BY <1>1, <1>2 DEF Stays
-----------------------------------------------------------------------------
(* A record that a refused remove left among the slots compact() has gone   *)
(* through has another of the same credential before it.                    *)
Shadowed ==
    ~lossy =>
        \A k \in Slots : Full(k) =>
            /\ pc = "compact" /\ w <= k /\ k < r =>
                  \E j \in Slots : j < w /\ Holds(j, nvs[k].id)
            /\ pc = "move" /\ w < k /\ k < r =>
                  \E j \in Slots : j <= w /\ Holds(j, nvs[k].id)

LEMMA StepShadowed == IInv /\ Fresh /\ Shadowed /\ [Next]_vars => Shadowed'
<1> SUFFICES ASSUME IInv, Fresh, Shadowed, [Next]_vars, ~lossy' PROVE Shadowed'
  BY DEF Shadowed
<1> USE MaxIsPositive, NoRecordIsNone DEF IInv, TypeOK, Slots, Shadowed, Full, Holds
<1>1. ~lossy
  BY DEF Next, Running, Requests, Boot, Crash, CompactSkip, CompactKeep, CompactScanned, CompactMove,
     Trim, TrimDone, CompactSave, Add, AddCount, UpdateCounter, Update, Rewrite, Delete, Wipe, Remove, faults, vars
<1>2. CASE CompactSkip \/ CompactKeep
  BY <1>1, <1>2 DEF CompactSkip, CompactKeep, Scanning, AfterHole, store, Cursors
<1>3. CASE CompactSave
  <2>1. /\ w \in Slots /\ w < r /\ nvs' = [nvs EXCEPT ![w] = nvs[r]]
        /\ pc = "compact" /\ pc' = "move" /\ w' = w /\ r' = r
    BY <1>1, <1>3 DEF CompactSave, Scanning, Moved, Accepted, Refused, Cursors
  <2> SUFFICES ASSUME NEW k \in Slots, nvs'[k] # NoRecord, w < k, k < r
               PROVE  \E j \in Slots : j <= w /\ nvs'[j] # NoRecord /\ nvs'[j].id = nvs'[k].id
    BY <2>1
  <2>2. nvs'[k] = nvs[k]
    BY <2>1
  <2>3. PICK j \in Slots : j < w /\ Holds(j, nvs[k].id)
    BY <1>1, <2>1, <2>2
  <2>4. nvs'[j] = nvs[j]
    BY <2>1, <2>3
  <2> QED
    BY <2>2, <2>3, <2>4
<1>4. CASE CompactMove
  <2>1. /\ w \in Slots /\ r \in Slots /\ w < r /\ Remove(r) /\ nvs[w] = nvs[r] /\ nvs[w] # NoRecord
        /\ pc = "move" /\ pc' = "compact" /\ w' = w + 1 /\ r' = r + 1
    BY <1>1, <1>4 DEF CompactMove, Cursors, Packed, Fresh
  <2> SUFFICES ASSUME NEW k \in Slots, nvs'[k] # NoRecord, w + 1 <= k, k < r + 1
               PROVE  \E j \in Slots : j < w + 1 /\ nvs'[j] # NoRecord /\ nvs'[j].id = nvs'[k].id
    BY <2>1
  <2>2. nvs'[k] = nvs[k] /\ nvs'[w] = nvs[w]
    BY <2>1, RemoveIs
  <2>3. CASE k = r
    BY <2>1, <2>2, <2>3
  <2>4. CASE k # r
    <3>1. PICK j \in Slots : j <= w /\ Holds(j, nvs[k].id)
      BY <1>1, <2>1, <2>2, <2>4
    <3>2. nvs'[j] = nvs[j]
      BY <2>1, <3>1, RemoveIs
    <3> QED
      BY <2>2, <3>1, <3>2
  <2> QED
    BY <2>3, <2>4
<1>5. CASE pc' \notin {"compact", "move"}
  BY <1>5
<1>6. CASE pc' = "compact" /\ r' = 0
  BY <1>6
<1>7. CASE UNCHANGED <<nvs, pc, r, w>>
  BY <1>1, <1>7
<1> QED
  BY <1>2, <1>3, <1>4, <1>5, <1>6, <1>7 DEF Next, Running, Requests, Boot, Crash, CompactScanned,
     Trim, TrimDone, Add, AddCount, UpdateCounter, Update, Rewrite, Delete, Wipe, vars

(* The steps that do not show.                                              *)
LEMMA QuietSteps ==
    ASSUME IInv, IInv', Fresh,
           Boot \/ Crash \/ CompactSkip \/ CompactKeep \/ CompactScanned \/ CompactMove \/ Trim \/ TrimDone
    PROVE  UNCHANGED <<Creds, lossy>>
<1>1. lossy' = lossy /\ live' = live
  BY DEF Boot, Crash, CompactSkip, CompactKeep, CompactScanned, CompactMove, Trim, TrimDone, Remove, ghosts, faults
<1>2. ASSUME ~lossy, NEW id \in live PROVE Stays(id)
  <2>1. CASE UNCHANGED nvs
    BY <1>2, <2>1, Untouched
  <2>2. CASE CompactMove /\ nvs' = Without(r)
    <3>1. PICK j \in Slots : IsCopy(j, id)
      BY <1>2, LiveHasCopy
    <3>2. j # r /\ nvs'[j] = nvs[j]
      BY <1>2, <2>2, <3>1, NoRecordIsNone, MaxIsPositive
         DEF CompactMove, Without, Fresh, IsCopy, IInv, TypeOK, Cursors, Slots, Packed, Full
    <3>3. IsCopy(j, id)' /\ Shown(j)' = Shown(j)
      BY <2>2, <3>1, <3>2 DEF Without, IsCopy, Shown, IInv, TypeOK, Slots
    <3> QED
      BY <3>1, <3>3 DEF Stays
  <2>3. CASE Trim /\ nvs' = Without(r)
    <3>1. PICK j \in Slots : IsCopy(j, id)
      BY <1>2, LiveHasCopy
    <3>2. PICK s \in Slots : Holds(s, id) /\ s < w
      BY <1>2, <2>3 DEF Trim, IInv, Anchored, SafeSlot
    <3>3. j # r /\ nvs'[j] = nvs[j]
      BY <2>3, <3>1, <3>2 DEF Trim, Without, IsCopy, Holds, IInv, TypeOK, Cursors, Slots
    <3>4. IsCopy(j, id)' /\ Shown(j)' = Shown(j)
      BY <2>3, <3>1, <3>3 DEF Without, IsCopy, Shown, IInv, TypeOK, Slots
    <3> QED
      BY <3>1, <3>4 DEF Stays
  <2> QED
    BY <2>1, <2>2, <2>3 DEF Boot, Crash, CompactSkip, CompactKeep, CompactScanned, CompactMove, Trim, TrimDone,
       Remove, store
<1> QED
  BY <1>1, <1>2, Unseen

(* A save of compact() moves a first record to a slot that no first record  *)
(* is in, with none between the two, so that the copy is the first now.     *)
LEMMA SaveIsQuiet ==
    ASSUME IInv, IInv', Shadowed, CompactSave, lossy' = lossy
    PROVE  UNCHANGED <<Creds, lossy>>
<1>1. live' = live
  BY DEF CompactSave, ghosts
<1>2. ASSUME ~lossy, NEW id \in live PROVE Stays(id)
  <2> USE MaxIsPositive DEF CompactSave, Scanning, Moved, Accepted, Refused, IInv, TypeOK, Cursors, Slots
  <2>1. nvs' = [nvs EXCEPT ![w] = nvs[r]] /\ w < r
    BY <1>2
  <2>2. PICK j \in Slots : IsCopy(j, id)
    BY <1>2, LiveHasCopy
  <2>3. ~ (w <= j /\ j < r)
    <3> SUFFICES ASSUME w <= j, j < r PROVE FALSE
      OBVIOUS
    <3>1. PICK k \in Slots : k < w /\ Holds(k, nvs[j].id)
      BY <1>2, <2>2 DEF Shadowed, Full, IsCopy
    <3> QED
      BY <2>2, <3>1 DEF IsCopy, Holds
  <2>4. CASE j = r
    <3>1. IsCopy(w, id)' /\ Shown(w)' = Shown(j)
      BY <2>1, <2>2, <2>4 DEF IsCopy, Shown
    <3> QED
      BY <2>2, <3>1 DEF Stays
  <2>5. CASE j # r
    <3>1. nvs[r].id = id => j < w
      BY <2>2, <2>3, <2>5 DEF IsCopy
    <3>2. IsCopy(j, id)' /\ Shown(j)' = Shown(j)
      BY <2>1, <2>2, <2>3, <3>1 DEF IsCopy, Shown
    <3> QED
      BY <2>2, <3>2 DEF Stays
  <2> QED
    BY <2>4, <2>5
<1> QED
  BY <1>1, <1>2, Unseen
-----------------------------------------------------------------------------
(* The steps that do, in terms of Creds.                                    *)

(* A record that is being added is of no live credential yet, and goes to a *)
(* slot behind the first record of each: what it overwrites is no first.    *)
LEMMA AddIsQuiet ==
    ASSUME IInv, IInv', Fresh, NEW id \in CredIds, NEW u \in Users, Add(id, u)
    PROVE  UNCHANGED <<Creds, lossy>>
<1>1. lossy' = lossy /\ live' = live
  BY DEF Add
<1>2. ASSUME ~lossy, NEW i \in live PROVE Stays(i)
  <2> USE DEF Add, HasRoom, Accepted, Refused, IInv, TypeOK, Slots
  <2>1. CASE UNCHANGED nvs
    BY <1>2, <2>1, Untouched
  <2>2. CASE nvs' = [nvs EXCEPT ![count] = [id |-> id, user |-> u, ctr |-> 1]]
    <3>1. count \in Slots /\ i # id
      BY <1>2, MaxIsPositive DEF Fresh
    <3>2. PICK j \in Slots : IsCopy(j, i)
      BY <1>2, LiveHasCopy
    <3>3. PICK k \in Slots : Holds(k, i) /\ k < count
      BY <1>2 DEF Anchored, SafeSlot
    <3>4. j < count
      BY <3>2, <3>3 DEF IsCopy, Holds
    <3>5. IsCopy(j, i)' /\ Shown(j)' = Shown(j)
      BY <2>2, <3>1, <3>2, <3>4 DEF IsCopy, Shown
    <3> QED
      BY <3>2, <3>5 DEF Stays
  <2> QED
    BY <2>1, <2>2
<1> QED
  BY <1>1, <1>2, Unseen

(* The write of the count makes the new record a credential with count 1:   *)
(* add() is over.                                                           *)
LEMMA AddCountRegisters ==
    ASSUME IInv, IInv', Fresh, AddCount, ~lossy, ~lossy'
    PROVE  \E id \in CredIds, u \in Users :
              /\ id \notin live
              /\ Creds' = [x \in live \cup {id} |-> IF x = id THEN [user |-> u, ctr |-> 1] ELSE Creds[x]]
<1> USE MaxIsPositive, NoRecordIsNone DEF AddCount, IInv, TypeOK, Slots, Cursors
<1> DEFINE id == nvs[count - 1].id
           u == nvs[count - 1].user
<1>1. count - 1 \in Slots /\ nvs[count - 1] \in Records
  OBVIOUS
<1>2. id \in CredIds /\ u \in Users /\ live' = live \cup {id} /\ id \notin live
  BY <1>1 DEF Fresh, Records
<1>3. IsCopy(count - 1, id)'
  BY <1>1 DEF IsCopy, Fresh, Holds
<1>4. Kept(id)' = Shown(count - 1)'
  BY <1>1, <1>2, <1>3, KeptIsNext
<1>5. Shown(count - 1)' = [user |-> u, ctr |-> 1]
  BY DEF Shown, Fresh
<1>6. \A x \in live : Kept(x)' = Kept(x)
  BY <1>2, Untouched, StaysKept
<1>7. Creds' = [x \in live \cup {id} |-> Kept(x)']
  BY <1>2 DEF Creds
<1>8. \A x \in live : Creds[x] = Kept(x)
  BY DEF Creds
<1>9. Creds' = [x \in live \cup {id} |-> IF x = id THEN [user |-> u, ctr |-> 1] ELSE Creds[x]]
  BY <1>2, <1>4, <1>5, <1>6, <1>7, <1>8
<1> QED
  BY <1>2, <1>9

(* What a lookup finds is the first record.                                 *)
LEMMA FoundIsCopy ==
    ASSUME IInv, ~lossy, pc = "idle", NEW j \in Slots, NEW id \in live, Found(j, id)
    PROVE  IsCopy(j, id)
BY DEF Found, IsFirst, Below, Holds, IsCopy, Slots, IInv, TypeOK

(* update() and updateCounter() write a record over the one they found.     *)
Rewritten(j, id, rec) ==
    pc = "idle" /\ live' = live /\ Found(j, id) /\ rec.id = id /\ nvs' = [nvs EXCEPT ![j] = rec]

(* Only the credential of the record changes, to what was written; a record *)
(* found under a deleted id (a copy a power loss left) changes nothing.     *)
LEMMA RewriteShows ==
    ASSUME IInv, IInv', ~lossy, ~lossy', NEW j \in Slots, NEW id \in CredIds,
           NEW rec \in Records, Rewritten(j, id, rec)
    PROVE  \/ id \notin live /\ UNCHANGED Creds
           \/ /\ id \in live /\ Creds[id] = Shown(j)
              /\ Creds' = [Creds EXCEPT ![id] = [user |-> rec.user, ctr |-> rec.ctr]]
<1> USE NoRecordIsNone DEF IInv, TypeOK, Rewritten
<1>1. nvs[j] # NoRecord /\ nvs[j].id = id
  BY DEF Found, IsFirst, Below, Holds
<1>2. ASSUME NEW x \in live, x # id PROVE Kept(x)' = Kept(x)
  BY <1>1, <1>2, Untouched, StaysKept
<1>3. Creds = [x \in live |-> Kept(x)] /\ Creds' = [x \in live |-> Kept(x)']
  BY DEF Creds
<1>4. CASE id \notin live
  BY <1>2, <1>3, <1>4
<1>5. CASE id \in live
  <2>1. IsCopy(j, id)
    BY <1>5, FoundIsCopy
  <2>2. IsCopy(j, id)'
    BY <1>1, <2>1 DEF IsCopy
  <2>3. Kept(id) = Shown(j) /\ Kept(id)' = Shown(j)'
    BY <1>5, <2>1, <2>2, KeptIs, KeptIsNext DEF Slots
  <2>4. Shown(j)' = [user |-> rec.user, ctr |-> rec.ctr]
    BY DEF Shown
  <2> QED
    BY <1>2, <1>3, <1>5, <2>3, <2>4
<1> QED
  BY <1>4, <1>5

(* The remove takes the credential away and leaves the others as they were. *)
LEMMA DeleteShows ==
    ASSUME IInv, IInv', ~lossy, NEW j \in Slots, NEW id \in CredIds, Delete(j, id)
    PROVE  Creds' = [x \in live \ {id} |-> Creds[x]] /\ live' = live \ {id} /\ ~lossy'
<1> USE NoRecordIsNone DEF IInv, TypeOK, Delete, Remove, Without
<1>1. nvs[j] # NoRecord /\ nvs[j].id = id /\ ~lossy' /\ live' = live \ {id}
  BY DEF Found, IsFirst, Below, Holds
<1>2. ASSUME NEW x \in live, x # id PROVE Kept(x)' = Kept(x)
  BY <1>1, <1>2, Untouched, StaysKept
<1> QED
  BY <1>1, <1>2 DEF Creds
-----------------------------------------------------------------------------
(* How a change of Creds reads as a step of the map.                        *)

(* A step that shows neither in the credentials nor in what was lost is a   *)
(* stutter of the map.                                                      *)
LEMMA SameShows == UNCHANGED <<Creds, lossy>> => [Map!Next]_(Map!map)
<1> SUFFICES ASSUME Creds' = Creds, lossy' = lossy PROVE [Map!Next]_(Map!map)
  OBVIOUS
<1>1. (Map!map)' = Map!map
  BY DEF Map!map, Creds
<1> QED
  BY <1>1

(* The first refused write that goes unnoticed ends the promise.            *)
LEMMA LossShows == ASSUME ~lossy, lossy' PROVE Map!Next
BY DEF Map!Next, Map!Empty

(* While the promise stands, an operation is a step of the map.             *)
LEMMA OperationShows == ASSUME ~lossy, ~lossy', Map!Operation PROVE Map!Next
BY DEF Map!Next

(* A refused write of update() or updateCounter() does not show.            *)
LEMMA RefusalShows == ASSUME IInv, IInv', lossy' = lossy, live' = live, UNCHANGED nvs
                      PROVE  UNCHANGED <<Creds, lossy>>
BY Untouched, Unseen

(* updateCounter() adds one to the count of the credential.                 *)
LEMMA CounterShows ==
    ASSUME IInv, IInv', ~lossy, ~lossy', NEW j \in Slots, NEW id \in CredIds, UpdateCounter(j, id)
    PROVE  [Map!Next]_(Map!map)
<1> USE DEF UpdateCounter, Rewrite, ghosts, faults
<1>1. lossy' = lossy /\ live' = live
  OBVIOUS
<1>2. Found(j, id) /\ pc = "idle"
  OBVIOUS
<1>3. CASE UNCHANGED nvs
  BY <1>1, <1>3, RefusalShows, SameShows
<1>4. CASE nvs' = [nvs EXCEPT ![j] = [nvs[j] EXCEPT !.ctr = @ + 1]]
  <2>1. nvs[j] \in Records /\ nvs[j].id = id
    BY DEF Found, IsFirst, Below, Holds, IInv, TypeOK
  <2>2. [nvs[j] EXCEPT !.ctr = @ + 1] = [id |-> id, user |-> nvs[j].user, ctr |-> nvs[j].ctr + 1]
    BY <2>1 DEF Records
  <2>3. [id |-> id, user |-> nvs[j].user, ctr |-> nvs[j].ctr + 1] \in Records
    BY <2>1 DEF Records
  <2>4. PICK rec \in Records : /\ nvs' = [nvs EXCEPT ![j] = rec]
                              /\ rec.id = id /\ rec.user = nvs[j].user /\ rec.ctr = nvs[j].ctr + 1
    BY <1>4, <2>2, <2>3
  <2> HIDE DEF UpdateCounter, Update, Rewrite, ghosts, faults
  <2>5. \/ UNCHANGED Creds
        \/ /\ id \in live /\ Creds[id] = Shown(j)
           /\ Creds' = [Creds EXCEPT ![id] = [user |-> rec.user, ctr |-> rec.ctr]]
    <3>1. Rewritten(j, id, rec)
      BY <1>1, <1>2, <2>4 DEF Rewritten
    <3> QED
      BY <2>4, <3>1, RewriteShows
  <2>6. ASSUME id \in live, Creds[id] = Shown(j),
               Creds' = [Creds EXCEPT ![id] = [user |-> rec.user, ctr |-> rec.ctr]]
        PROVE  Map!Operation
    <3>1. id \in DOMAIN Creds
      BY <2>6 DEF Creds
    <3>2. [Creds[id] EXCEPT !.ctr = @ + 1] = [user |-> rec.user, ctr |-> rec.ctr]
      BY <2>4, <2>6 DEF Shown
    <3>3. Creds' = [Creds EXCEPT ![id].ctr = @ + 1]
      BY <2>6, <3>2
    <3> QED
      BY <3>1, <3>3 DEF Map!Operation, Map!Count, Creds
  <2> QED
    BY <1>1, <2>5, <2>6, SameShows, OperationShows
<1> QED
  BY <1>3, <1>4

(* update() replaces the user of the credential and keeps its count.        *)
LEMMA UserShows ==
    ASSUME IInv, IInv', ~lossy, ~lossy', NEW j \in Slots, NEW id \in CredIds, NEW u \in Users,
           Update(j, id, u)
    PROVE  [Map!Next]_(Map!map)
<1> USE DEF Update, Rewrite, Updated, ghosts, faults
<1>1. lossy' = lossy /\ live' = live
  OBVIOUS
<1>2. Found(j, id) /\ pc = "idle"
  OBVIOUS
<1>3. CASE UNCHANGED nvs
  BY <1>1, <1>3, RefusalShows, SameShows
<1>4. CASE nvs' = [nvs EXCEPT ![j] = [nvs[j] EXCEPT !.user = u]]
  <2>1. nvs[j] \in Records /\ nvs[j].id = id
    BY DEF Found, IsFirst, Below, Holds, IInv, TypeOK
  <2>2. [nvs[j] EXCEPT !.user = u] = [id |-> id, user |-> u, ctr |-> nvs[j].ctr]
    BY <2>1 DEF Records
  <2>3. [id |-> id, user |-> u, ctr |-> nvs[j].ctr] \in Records
    BY <2>1 DEF Records
  <2>4. PICK rec \in Records : /\ nvs' = [nvs EXCEPT ![j] = rec]
                              /\ rec.id = id /\ rec.user = u /\ rec.ctr = nvs[j].ctr
    BY <1>4, <2>2, <2>3
  <2> HIDE DEF UpdateCounter, Update, Rewrite, ghosts, faults
  <2>5. \/ UNCHANGED Creds
        \/ /\ id \in live /\ Creds[id] = Shown(j)
           /\ Creds' = [Creds EXCEPT ![id] = [user |-> rec.user, ctr |-> rec.ctr]]
    <3>1. Rewritten(j, id, rec)
      BY <1>1, <1>2, <2>4 DEF Rewritten
    <3> QED
      BY <2>4, <3>1, RewriteShows
  <2>6. ASSUME id \in live, Creds[id] = Shown(j),
               Creds' = [Creds EXCEPT ![id] = [user |-> rec.user, ctr |-> rec.ctr]]
        PROVE  Map!Operation
    <3>1. id \in DOMAIN Creds
      BY <2>6 DEF Creds
    <3>2. [Creds[id] EXCEPT !.user = u] = [user |-> rec.user, ctr |-> rec.ctr]
      BY <2>4, <2>6 DEF Shown
    <3>3. Creds' = [Creds EXCEPT ![id].user = u]
      BY <2>6, <3>2
    <3> QED
      BY <3>1, <3>3 DEF Map!Operation, Map!SetUser, Creds
  <2> QED
    BY <1>1, <2>5, <2>6, SameShows, OperationShows
<1> QED
  BY <1>3, <1>4

(* Every step is a step of the map, or does not show.                       *)
LEMMA StepMap ==
    IInv /\ IInv' /\ Fresh /\ Shadowed /\ [Next]_vars => [Map!Next]_(Map!map)
<1> SUFFICES ASSUME IInv, IInv', Fresh, Shadowed, [Next]_vars PROVE [Map!Next]_(Map!map)
  OBVIOUS
<1>1. lossy \in BOOLEAN /\ lossy' \in BOOLEAN
  BY DEF IInv, TypeOK
<1>2. ~lossy => DOMAIN Creds = live
  BY DEF Creds
<1>3. ASSUME lossy, lossy' PROVE [Map!Next]_(Map!map)
  <2>1. lossy' = lossy
    BY <1>1, <1>3
  <2>2. Creds' = Creds
    BY <1>3 DEF Creds
  <2> QED
    BY <2>1, <2>2, SameShows
<1>4. ASSUME UNCHANGED <<Creds, lossy>> PROVE [Map!Next]_(Map!map)
  BY <1>4, SameShows
<1>5. ASSUME ~lossy, lossy' PROVE [Map!Next]_(Map!map)
  BY <1>5, LossShows
<1>6. CASE Boot \/ Crash \/ CompactSkip \/ CompactKeep \/ CompactScanned \/ CompactMove \/ Trim \/ TrimDone
  BY <1>4, <1>6, QuietSteps
<1>7. ASSUME lossy, ~lossy' PROVE FALSE
  BY <1>7 DEF Next, Running, Requests, Boot, Crash, CompactSkip, CompactKeep, CompactScanned, CompactMove,
        Trim, TrimDone, CompactSave, Add, AddCount, UpdateCounter, Update, Rewrite, Delete, Wipe, Remove, faults, vars
<1>8. CASE lossy
  BY <1>1, <1>3, <1>7, <1>8
<1>9. CASE ~lossy /\ ~lossy'
  <2>0. ~lossy /\ ~lossy' /\ lossy' = lossy /\ DOMAIN Creds = live
    BY <1>1, <1>2, <1>9
  <2>1. ASSUME CompactSave PROVE [Map!Next]_(Map!map)
    BY <1>4, <2>0, <2>1, SaveIsQuiet
  <2>2. ASSUME NEW id \in CredIds, NEW u \in Users, Add(id, u) PROVE [Map!Next]_(Map!map)
    BY <1>4, <2>2, AddIsQuiet
  <2>3. ASSUME AddCount PROVE Map!Operation
    <3>1. PICK id \in CredIds, u \in Users :
             /\ id \notin live
             /\ Creds' = [x \in live \cup {id} |-> IF x = id THEN [user |-> u, ctr |-> 1] ELSE Creds[x]]
      BY <2>0, <2>3, AddCountRegisters
    <3>2. Map!Register(id, u)
      BY <2>0, <3>1 DEF Map!Register, Creds
    <3> QED
      BY <3>2 DEF Map!Operation
  <2>4. ASSUME NEW j \in Slots, NEW id \in CredIds, UpdateCounter(j, id) PROVE [Map!Next]_(Map!map)
    BY <2>0, <2>4, CounterShows
  <2>5. ASSUME NEW j \in Slots, NEW id \in CredIds, NEW u \in Users, Update(j, id, u)
        PROVE  [Map!Next]_(Map!map)
    BY <2>0, <2>5, UserShows
  <2>6. ASSUME NEW j \in Slots, NEW id \in CredIds, Delete(j, id) PROVE [Map!Next]_(Map!map)
    <3>1. Creds' = [x \in live \ {id} |-> Creds[x]] /\ live' = live \ {id}
      BY <2>0, <2>6, DeleteShows
    <3>2. CASE id \in live
      <4>1. Map!Remove(id)
        BY <2>0, <3>1, <3>2 DEF Map!Remove, Creds
      <4> QED
        BY <2>0, <4>1, OperationShows DEF Map!Operation
    <3>3. CASE id \notin live
      <4>1. Creds' = Creds
        BY <2>0, <3>1, <3>3 DEF Creds
      <4> QED
        BY <2>0, <4>1, SameShows
    <3> QED
      BY <3>2, <3>3
  <2>7. ASSUME Wipe PROVE Map!Operation
    <3>1. live' = {}
      BY <2>7 DEF Wipe
    <3>2. Creds' = [x \in {} |-> {}]
      BY <2>0, <3>1 DEF Creds
    <3> QED
      BY <3>2 DEF Map!Operation, Map!RemoveAll, Map!Empty, Creds
  <2>8. ASSUME UNCHANGED vars PROVE [Map!Next]_(Map!map)
    <3>1. Creds' = Creds
      BY <2>8 DEF vars, Creds, Kept, First, IsFirst, Below, Holds
    <3> QED
      BY <2>0, <3>1, SameShows
  <2> QED
    BY <1>6, <2>0, <2>1, <2>2, <2>3, <2>4, <2>5, <2>6, <2>7, <2>8, OperationShows
       DEF Next, Running, Requests
<1> QED
  BY <1>1, <1>5, <1>8, <1>9

(* The store is a map of credentials, each operation of which happens at    *)
(* once or not at all, whatever compact() moves and wherever power is lost. *)
THEOREM StoreIsMap == Spec => IsMap
<1>1. Init => Map!Init
  <2> SUFFICES ASSUME Init PROVE Map!Init
    OBVIOUS
  <2>1. live = {} /\ lossy = FALSE
    BY DEF Init
  <2> QED
    BY <2>1 DEF Map!Init, Map!Empty
<1>2. Init => Shadowed
  BY NoRecordIsNone DEF Init, Shadowed
<1> QED
  BY <1>1, <1>2, InitFresh, InitIInv, StepIInv, StepFresh, StepShadowed, StepMap, PTL DEF Spec, IsMap, Map!Spec
=============================================================================
