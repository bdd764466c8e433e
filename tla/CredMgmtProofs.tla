--------------------------- MODULE CredMgmtProofs ---------------------------
(***************************************************************************)
(* Proofs about CredMgmt, for every number of slots, of credentials and of *)
(* relying parties.                                                        *)
(*                                                                         *)
(* The two completeness properties hold at the end of an enumeration;      *)
(* RpsListed and CredentialsListed say how far it is at every moment.      *)
(* NeverTwice holds whatever is removed: Behind says that what was shown   *)
(* is at or before the index shown last, and the list ascends.             *)
(* MgmtUsesMap says that the store is used as CredentialMap.               *)
(***************************************************************************)
EXTENDS CredMgmt, TLAPS, FiniteSetTheorems, SequenceTheorems, WellFoundedInduction

StoredIds ==
    /\ \A i \in Indexes : recs[i].id <= issued
    /\ \A i, j \in Indexes : recs[i].id = recs[j].id => i = j

Started ==
    /\ cmRpNext = 0 => cmRp = <<>> /\ rpShown = {}
    /\ cmCredentialNext = 0 => cmCredential = <<>> /\ credShown = {}
    /\ \A j, k \in 1 .. Len(cmCredential) : j < k => cmCredential[j] < cmCredential[k]

Behind ==
    /\ \A id \in credShown : id <= issued
    /\ \A i \in Indexes : recs[i].id \in credShown => i <= cmCredential[cmCredentialNext]

RpsListed ==
    rpFresh =>
        /\ \A k \in 1 .. Len(cmRp) : cmRp[k] \in Indexes
        /\ \A j, k \in 1 .. Len(cmRp) : recs[cmRp[j]].rp = recs[cmRp[k]].rp => j = k
        /\ rpShown = {recs[cmRp[k]].rp : k \in 1 .. cmRpNext}
        /\ rpWanted = {recs[cmRp[k]].rp : k \in 1 .. Len(cmRp)}

CredentialsListed ==
    credFresh =>
        /\ \A k \in 1 .. Len(cmCredential) : cmCredential[k] \in Indexes
        /\ credShown = {recs[cmCredential[k]].id : k \in 1 .. cmCredentialNext}
        /\ credWanted = {recs[cmCredential[k]].id : k \in 1 .. Len(cmCredential)}

IInv == TypeOK /\ StoredIds /\ Started /\ Behind /\ RpsListed /\ CredentialsListed /\ NeverTwice

-----------------------------------------------------------------------------
(* Facts about lists and the store.                                         *)

(* What TypeOK says of the records and the lists, entry by entry.           *)
LEMMA Types ==
    ASSUME TypeOK
    PROVE  /\ Len(recs) \in Nat /\ Len(cmRp) \in Nat /\ Len(cmCredential) \in Nat
           /\ kMaxCredentials \in Nat /\ MaxIds \in Nat /\ issued \in Nat
           /\ cmRpNext \in Nat /\ cmCredentialNext \in Nat /\ credAnswers \in Nat
           /\ \A i \in Indexes : recs[i] \in Records
           /\ \A i \in Indexes : recs[i].id \in Ids /\ recs[i].rp \in Rps /\ recs[i].id \in Nat
           /\ \A k \in 1 .. Len(cmRp) : cmRp[k] \in Slots /\ cmRp[k] \in Nat
           /\ \A k \in 1 .. Len(cmCredential) : cmCredential[k] \in Slots /\ cmCredential[k] \in Nat
           /\ IsFiniteSet(credShown)
<1>1. /\ Len(recs) \in Nat /\ Len(cmRp) \in Nat /\ Len(cmCredential) \in Nat
      /\ kMaxCredentials \in Nat /\ MaxIds \in Nat /\ issued \in Nat
      /\ cmRpNext \in Nat /\ cmCredentialNext \in Nat /\ credAnswers \in Nat
  BY MaxIsPositive, MaxIdsIsNat DEF TypeOK
<1>2. \A i \in Indexes : recs[i] \in Records
  BY ElementOfSeq DEF TypeOK, Indexes
<1>3. \A i \in Indexes : recs[i].id \in Ids /\ recs[i].rp \in Rps /\ recs[i].id \in Nat
  BY <1>1, <1>2 DEF Records, Ids
<1>4. \A k \in 1 .. Len(cmRp) : cmRp[k] \in Slots /\ cmRp[k] \in Nat
  BY <1>1, ElementOfSeq DEF TypeOK, Slots
<1>5. \A k \in 1 .. Len(cmCredential) : cmCredential[k] \in Slots /\ cmCredential[k] \in Nat
  BY <1>1, ElementOfSeq DEF TypeOK, Slots
<1>6. IsFiniteSet(credShown)
  <2>1. IsFiniteSet(Ids)
    BY <1>1, FS_Interval DEF Ids
  <2>2. credShown \in SUBSET Ids
    BY DEF TypeOK
  <2> QED
    BY <2>1, <2>2, FS_Subset
<1> QED
  BY <1>1, <1>2, <1>3, <1>4, <1>5, <1>6

(* The list an enumeration begins with: every index of S, ascending.        *)
LEMMA AscendingList ==
    ASSUME NEW S \in SUBSET Slots, NEW list \in Ascending(S)
    PROVE  /\ list \in Seq(Slots) /\ Len(list) \in Nat
           /\ \A k \in 1 .. Len(list) : list[k] \in S
           /\ \A i \in S : \E k \in 1 .. Len(list) : list[k] = i
           /\ \A j, k \in 1 .. Len(list) : j < k => list[j] < list[k]
           /\ list = <<>> <=> Len(list) = 0
           /\ list # <<>> => 1 \in 1 .. Len(list)
<1>1. PICK n \in 0 .. kMaxCredentials :
          /\ list \in [1 .. n -> S]
          /\ \A i \in S : \E k \in 1 .. n : list[k] = i
          /\ \A j, k \in 1 .. n : j < k => list[j] < list[k]
  BY DEF Ascending
<1>2. n \in Nat
  BY MaxIsPositive
<1>3. list \in Seq(S)
  BY <1>1, <1>2, SeqDef
<1>4. Len(list) = n
  BY <1>1, <1>2, <1>3, LenProperties
<1>5. list \in Seq(Slots)
  BY <1>3, SeqMonotonic
<1>6. list = <<>> <=> Len(list) = 0
  BY <1>5, EmptySeq
<1> QED
  BY <1>1, <1>2, <1>4, <1>5, <1>6

(* compact(): the records behind the removed one move down by one.          *)
LEMMA Removal ==
    ASSUME TypeOK, NEW i \in Indexes, recs' = Without(i)
    PROVE  /\ recs' \in Seq(Records) /\ Len(recs') = Len(recs) - 1
           /\ \A j \in 1 .. Len(recs') :
                 \E m \in Indexes : m >= j /\ recs'[j] = recs[m]
           /\ \A j, k \in 1 .. Len(recs') : j # k =>
                 \E m, n \in Indexes : m # n /\ recs'[j] = recs[m] /\ recs'[k] = recs[n]
<1> DEFINE At0(j) == IF j < i THEN j ELSE j + 1
<1>1. Len(recs) \in Nat /\ Len(recs) - 1 \in Nat /\ i \in 1 .. Len(recs)
  BY Types DEF Indexes
<1>2. \A j \in 1 .. Len(recs) - 1 : At0(j) \in Indexes /\ At0(j) >= j
  BY <1>1 DEF Indexes
<1>3. \A j \in 1 .. Len(recs) - 1 : recs'[j] = recs[At0(j)]
  BY <1>1 DEF Without
<1>4. recs' \in [1 .. Len(recs) - 1 -> Records]
  <2>1. \A j \in 1 .. Len(recs) - 1 : recs[At0(j)] \in Records
    BY <1>2, Types
  <2>2. recs' = [j \in 1 .. Len(recs) - 1 |-> recs[At0(j)]]
    BY <1>1 DEF Without
  <2> QED
    BY <2>1, <2>2
<1>5. recs' \in Seq(Records)
  BY <1>1, <1>4, SeqDef
<1>6. Len(recs') = Len(recs) - 1
  BY <1>1, <1>4, <1>5, LenProperties
<1>7. \A j, k \in 1 .. Len(recs) - 1 : j # k => At0(j) # At0(k)
  BY <1>1
<1> HIDE DEF At0
<1>8. \A j \in 1 .. Len(recs') : \E m \in Indexes : m >= j /\ recs'[j] = recs[m]
  BY <1>2, <1>3, <1>6
<1>9. \A j, k \in 1 .. Len(recs') : j # k =>
         \E m, n \in Indexes : m # n /\ recs'[j] = recs[m] /\ recs'[k] = recs[n]
  BY <1>2, <1>3, <1>6, <1>7
<1> QED
  BY <1>5, <1>6, <1>8, <1>9

(* Every relying party with a discoverable credential has a first one.      *)
LEMMA FirstExists ==
    ASSUME TypeOK, NEW i \in Indexes, Resident(i)
    PROVE  \E j \in FirstOfRp : recs[j].rp = recs[i].rp
<1> DEFINE T == {j \in Indexes : Resident(j) /\ recs[j].rp = recs[i].rp}
<1>1. T \subseteq Nat /\ T # {}
  BY DEF Indexes
<1>2. PICK j \in T : \A y \in T : ~ (<<y, j>> \in OpToRel(<, Nat))
  BY <1>1, NatLessThanWellFounded, WFMin
<1>3. \A y \in T : ~ (y < j)
  BY <1>1, <1>2 DEF OpToRel
<1>4. j \in FirstOfRp
  <2> SUFFICES ASSUME NEW k \in 1 .. j - 1, Resident(k), recs[k].rp = recs[j].rp
               PROVE  FALSE
    BY DEF FirstOfRp
  <2>1. k \in Indexes /\ k < j
    BY Types DEF Indexes
  <2> QED
    BY <1>3, <2>1
<1> QED
  BY <1>4

-----------------------------------------------------------------------------
(* The invariant, action by action.                                         *)

(* An empty store and nothing enumerated.                                   *)
LEMMA InitIInv == Init => IInv
<1> SUFFICES ASSUME Init PROVE IInv
  OBVIOUS
<1> USE MaxIsPositive, MaxIdsIsNat DEF Init
<1>1. Len(recs) = 0 /\ Len(cmRp) = 0 /\ Len(cmCredential) = 0
  BY EmptySeq
<1>2. TypeOK
  <2>1. recs \in Seq(Records) /\ cmRp \in Seq(Slots) /\ cmCredential \in Seq(Slots)
    BY EmptySeq
  <2>2. Len(recs) <= kMaxCredentials /\ issued \in 0 .. MaxIds
    BY <1>1
  <2>3. cmRpNext \in 0 .. Len(cmRp) /\ cmCredentialNext \in 0 .. Len(cmCredential)
    BY <1>1
  <2> QED
    BY <2>1, <2>2, <2>3 DEF TypeOK
<1>3. StoredIds /\ Started /\ Behind /\ RpsListed /\ CredentialsListed
  BY <1>1 DEF StoredIds, Started, Behind, RpsListed, CredentialsListed, Indexes
<1>4. NeverTwice
  BY FS_EmptySet DEF NeverTwice
<1> QED
  BY <1>2, <1>3, <1>4 DEF IInv

(* makeCredential, U2F register: a record of a new id after all others.     *)
LEMMA RegisterStep ==
    ASSUME IInv, NEW rp \in Rps, NEW resident \in BOOLEAN, Register(rp, resident)
    PROVE  IInv'
<1> USE DEF IInv
<1> DEFINE new == [id |-> issued + 1, rp |-> rp, resident |-> resident]
<1>1. new \in Records /\ issued' \in 0 .. MaxIds
  BY Types DEF Register, Records, Ids, TypeOK
<1>2. /\ recs' \in Seq(Records) /\ Len(recs') = Len(recs) + 1
      /\ \A i \in Indexes : recs'[i] = recs[i]
      /\ recs'[Len(recs) + 1] = new
  BY <1>1, AppendProperties DEF Register, TypeOK, Indexes
<1>3. /\ Indexes \subseteq Indexes' /\ Indexes' = Indexes \cup {Len(recs) + 1}
      /\ Len(recs) + 1 \notin Indexes
  BY <1>2, Types DEF Indexes
<1>4. issued' = issued + 1 /\ recs'[Len(recs) + 1].id = issued + 1
  BY <1>2 DEF Register
<1> HIDE DEF new
<1>5. TypeOK'
  BY <1>1, <1>2, Types DEF TypeOK, Register, HasRoom, rpEnumeration, credEnumeration
<1>6. StoredIds'
  <2>1. \A i \in Indexes : recs'[i].id = recs[i].id /\ recs[i].id <= issued /\ recs[i].id \in Nat
    BY <1>2, Types DEF StoredIds
  <2>2. issued \in Nat
    BY Types
  <2> QED
    BY <1>3, <1>4, <2>1, <2>2 DEF StoredIds
<1>7. Started'
  BY DEF Started, Register, rpEnumeration, credEnumeration
<1>8. Behind'
  <2>1. \A id \in credShown : id <= issued /\ id \in Nat
    BY DEF Behind, TypeOK, Ids
  <2>2. issued \in Nat
    BY Types
  <2>3. issued + 1 \notin credShown
    BY <2>1, <2>2
  <2>4. \A i \in Indexes : recs'[i].id = recs[i].id
    BY <1>2
  <2>5. UNCHANGED <<credShown, cmCredential, cmCredentialNext>>
    BY DEF Register, credEnumeration
  <2> QED
    BY <1>3, <1>4, <2>1, <2>2, <2>3, <2>4, <2>5 DEF Behind
<1>9. RpsListed'
  <2> SUFFICES ASSUME rpFresh PROVE RpsListed'
    BY DEF RpsListed, Register, rpEnumeration
  <2>1. \A k \in 1 .. Len(cmRp) : cmRp[k] \in Indexes /\ recs'[cmRp[k]] = recs[cmRp[k]]
    BY <1>2 DEF RpsListed
  <2>2. 1 .. cmRpNext \subseteq 1 .. Len(cmRp)
    BY Types DEF TypeOK
  <2>3. UNCHANGED <<cmRp, cmRpNext, rpShown, rpWanted>>
    BY DEF Register, rpEnumeration
  <2>4. /\ {recs'[cmRp[k]].rp : k \in 1 .. cmRpNext} = {recs[cmRp[k]].rp : k \in 1 .. cmRpNext}
        /\ {recs'[cmRp[k]].rp : k \in 1 .. Len(cmRp)} = {recs[cmRp[k]].rp : k \in 1 .. Len(cmRp)}
    BY <2>1, <2>2
  <2>5. \A j, k \in 1 .. Len(cmRp) : recs'[cmRp[j]].rp = recs'[cmRp[k]].rp => j = k
    BY <2>1 DEF RpsListed
  <2>6. \A k \in 1 .. Len(cmRp) : cmRp[k] \in Indexes'
    BY <1>3, <2>1
  <2>7. /\ rpShown = {recs'[cmRp[k]].rp : k \in 1 .. cmRpNext}
        /\ rpWanted = {recs'[cmRp[k]].rp : k \in 1 .. Len(cmRp)}
    BY <2>4 DEF RpsListed
  <2> QED
    BY <2>3, <2>5, <2>6, <2>7 DEF RpsListed
<1>10. CredentialsListed'
  <2> SUFFICES ASSUME credFresh PROVE CredentialsListed'
    BY DEF CredentialsListed, Register, credEnumeration
  <2>1. \A k \in 1 .. Len(cmCredential) :
           cmCredential[k] \in Indexes /\ recs'[cmCredential[k]] = recs[cmCredential[k]]
    BY <1>2 DEF CredentialsListed
  <2>2. 1 .. cmCredentialNext \subseteq 1 .. Len(cmCredential)
    BY Types DEF TypeOK
  <2>3. UNCHANGED <<cmCredential, cmCredentialNext, credShown, credWanted>>
    BY DEF Register, credEnumeration
  <2>4. /\ {recs'[cmCredential[k]].id : k \in 1 .. cmCredentialNext} =
              {recs[cmCredential[k]].id : k \in 1 .. cmCredentialNext}
        /\ {recs'[cmCredential[k]].id : k \in 1 .. Len(cmCredential)} =
              {recs[cmCredential[k]].id : k \in 1 .. Len(cmCredential)}
    BY <2>1, <2>2
  <2> QED
    BY <1>3, <2>1, <2>3, <2>4 DEF CredentialsListed
<1>11. NeverTwice'
  BY DEF NeverTwice, Register, credEnumeration
<1> QED
  BY <1>5, <1>6, <1>7, <1>8, <1>9, <1>10, <1>11

(* deleteCredential: what was shown moves down at most.                     *)
LEMMA DeleteStep ==
    ASSUME IInv, NEW i \in Indexes, Delete(i)
    PROVE  IInv'
<1> USE DEF IInv
<1>1. /\ recs' \in Seq(Records) /\ Len(recs') = Len(recs) - 1
      /\ \A j \in Indexes' : \E m \in Indexes : m >= j /\ recs'[j] = recs[m]
      /\ \A j, k \in Indexes' : j # k =>
            \E m, n \in Indexes : m # n /\ recs'[j] = recs[m] /\ recs'[k] = recs[n]
  BY Removal DEF Delete, Indexes
<1>2. TypeOK'
  <2>1. recs' \in Seq(Records) /\ Len(recs') <= kMaxCredentials
    BY <1>1, Types DEF TypeOK
  <2> QED
    BY <2>1 DEF TypeOK, Delete, Stale
<1>3. StoredIds'
  BY <1>1 DEF StoredIds, Delete, Stale
<1>4. Started'
  BY DEF Started, Delete, Stale
<1>5. Behind'
  <2>1. \A id \in credShown' : id <= issued'
    BY DEF Behind, Delete, Stale
  <2>2. ASSUME NEW j \in Indexes', recs'[j].id \in credShown'
        PROVE  j <= cmCredential'[cmCredentialNext']
    <3>1. PICK m \in Indexes : m >= j /\ recs'[j] = recs[m]
      BY <1>1
    <3>2. m <= cmCredential[cmCredentialNext]
      BY <2>2, <3>1 DEF Behind, Delete, Stale
    <3>3. cmCredentialNext \in 1 .. Len(cmCredential)
      BY <2>2, Types DEF Started, TypeOK, Delete, Stale
    <3>4. cmCredential[cmCredentialNext] \in Nat /\ m \in Nat /\ j \in Nat
      BY <3>3, Types DEF Indexes
    <3> QED
      BY <3>1, <3>2, <3>4 DEF Delete, Stale
  <2> QED
    BY <2>1, <2>2 DEF Behind
<1>6. RpsListed' /\ CredentialsListed'
  BY DEF RpsListed, CredentialsListed, Delete, Stale
<1>7. NeverTwice'
  BY DEF NeverTwice, Delete, Stale
<1> QED
  BY <1>2, <1>3, <1>4, <1>5, <1>6, <1>7

(* wipeLabState: no record is left, and no id is used again.                *)
LEMMA WipeStep ==
    ASSUME IInv, Wipe
    PROVE  IInv'
<1> USE DEF IInv
<1>1. recs' \in Seq(Records) /\ Len(recs') = 0
  BY EmptySeq DEF Wipe
<1>2. TypeOK'
  <2>1. recs' \in Seq(Records) /\ Len(recs') <= kMaxCredentials
    BY <1>1, MaxIsPositive
  <2> QED
    BY <2>1 DEF TypeOK, Wipe, Stale
<1>3. StoredIds' /\ Started' /\ Behind' /\ RpsListed' /\ CredentialsListed'
  BY <1>1 DEF StoredIds, Started, Behind, RpsListed, CredentialsListed, Indexes, Wipe, Stale
<1>4. NeverTwice'
  BY DEF NeverTwice, Wipe, Stale
<1> QED
  BY <1>2, <1>3, <1>4

(* Power loss: both lists are gone.                                         *)
LEMMA CrashStep ==
    ASSUME IInv, Crash
    PROVE  IInv'
<1> USE DEF IInv
<1>1. Len(cmRp') = 0 /\ Len(cmCredential') = 0
  BY EmptySeq DEF Crash
<1>2. TypeOK'
  <2>1. cmRp' \in Seq(Slots) /\ cmCredential' \in Seq(Slots)
    BY EmptySeq DEF Crash
  <2>2. cmRpNext' \in 0 .. Len(cmRp') /\ cmCredentialNext' \in 0 .. Len(cmCredential')
    BY <1>1 DEF Crash
  <2>3. credAnswers' \in 0 .. cmCredentialNext'
    BY DEF Crash
  <2> QED
    BY <2>1, <2>2, <2>3 DEF TypeOK, Crash, store
<1>3. StoredIds' /\ Started' /\ Behind' /\ RpsListed' /\ CredentialsListed'
  BY <1>1 DEF StoredIds, Started, Behind, RpsListed, CredentialsListed, Indexes, Crash, store
<1>4. NeverTwice'
  BY FS_EmptySet DEF NeverTwice, Crash
<1> QED
  BY <1>2, <1>3, <1>4

(* enumerateRPsBegin: the list of the first records.                        *)
LEMMA RpsBeginStep ==
    ASSUME IInv, EnumerateRpsBegin
    PROVE  IInv'
<1> USE DEF IInv
<1> DEFINE residents == {i \in Indexes : Resident(i)}
<1>1. FirstOfRp \in SUBSET Slots /\ FirstOfRp \subseteq Indexes /\ residents \subseteq Indexes
  BY Types DEF FirstOfRp, Slots, Indexes, TypeOK
<1>2. /\ cmRp' \in Seq(Slots) /\ Len(cmRp') \in Nat
      /\ \A k \in 1 .. Len(cmRp') : cmRp'[k] \in FirstOfRp
      /\ \A i \in FirstOfRp : \E k \in 1 .. Len(cmRp') : cmRp'[k] = i
      /\ \A j, k \in 1 .. Len(cmRp') : j < k => cmRp'[j] < cmRp'[k]
      /\ cmRp' = <<>> <=> Len(cmRp') = 0
      /\ cmRp' # <<>> => 1 \in 1 .. Len(cmRp')
  BY <1>1, AscendingList DEF EnumerateRpsBegin
<1>3. cmRpNext' = IF cmRp' = <<>> THEN 0 ELSE 1
  BY DEF EnumerateRpsBegin, Begun
<1>4. /\ UNCHANGED <<store, credEnumeration>> /\ rpFresh' = TRUE
      /\ rpWanted' = RpsOf(residents) /\ rpShown' = RpsOf(ShownAtOnce(cmRp'))
  BY DEF EnumerateRpsBegin
<1> HIDE DEF residents
<1>5. \A i \in FirstOfRp : i \in residents /\ recs[i].rp \in Rps
  BY <1>1, Types DEF FirstOfRp, residents
<1>6. rpShown' = {recs[cmRp'[k]].rp : k \in 1 .. cmRpNext'}
  <2>1. CASE cmRp' = <<>>
    BY <1>3, <1>4, <2>1 DEF ShownAtOnce, RpsOf
  <2>2. CASE cmRp' # <<>>
    <3>1. rpShown' = {recs[cmRp'[1]].rp} /\ 1 .. cmRpNext' = {1}
      BY <1>3, <1>4, <2>2 DEF ShownAtOnce, RpsOf
    <3> QED
      BY <3>1
  <2> QED
    BY <2>1, <2>2
<1>7. rpWanted' = {recs[cmRp'[k]].rp : k \in 1 .. Len(cmRp')}
  <2>1. ASSUME NEW i \in residents
        PROVE  \E k \in 1 .. Len(cmRp') : recs[cmRp'[k]].rp = recs[i].rp
    <3>1. PICK j \in FirstOfRp : recs[j].rp = recs[i].rp
      BY <2>1, FirstExists DEF residents
    <3> QED
      BY <1>2, <3>1
  <2>2. \A k \in 1 .. Len(cmRp') : cmRp'[k] \in residents
    BY <1>2, <1>5
  <2> QED
    BY <1>4, <2>1, <2>2 DEF RpsOf
<1>8. TypeOK'
  <2>1. cmRpNext' \in 0 .. Len(cmRp')
    BY <1>2, <1>3
  <2>2. rpWanted' \in SUBSET Rps /\ rpShown' \in SUBSET Rps
    <3>1. \A k \in 1 .. Len(cmRp') : recs[cmRp'[k]].rp \in Rps
      BY <1>2, <1>5
    <3>2. 1 .. cmRpNext' \subseteq 1 .. Len(cmRp')
      BY <1>2, <1>3
    <3> QED
      BY <1>6, <1>7, <3>1, <3>2
  <2> QED
    BY <1>2, <1>4, <2>1, <2>2 DEF TypeOK, store, credEnumeration
<1>9. RpsListed'
  <2>1. \A i, j \in FirstOfRp : recs[i].rp = recs[j].rp => i = j
    <3> SUFFICES ASSUME NEW i \in FirstOfRp, NEW j \in FirstOfRp, recs[i].rp = recs[j].rp, i < j
                 PROVE  FALSE
      BY <1>1, Types DEF Indexes
    <3>1. i \in 1 .. j - 1
      BY <1>1, Types DEF Indexes
    <3> QED
      BY <3>1 DEF FirstOfRp
  <2>2. \A j, k \in 1 .. Len(cmRp') : recs[cmRp'[j]].rp = recs[cmRp'[k]].rp => j = k
    <3> SUFFICES ASSUME NEW j \in 1 .. Len(cmRp'), NEW k \in 1 .. Len(cmRp'),
                        recs[cmRp'[j]].rp = recs[cmRp'[k]].rp, j < k
                 PROVE  FALSE
      BY <1>2
    <3>1. cmRp'[j] = cmRp'[k]
      BY <1>2, <2>1
    <3>2. cmRp'[j] < cmRp'[k]
      BY <1>2
    <3>3. cmRp'[j] \in Nat
      <4>1. cmRp'[j] \in Indexes
        BY <1>1, <1>2
      <4> QED
        BY <4>1 DEF Indexes
    <3> QED
      BY <3>1, <3>2, <3>3
  <2>3. recs' = recs /\ Indexes' = Indexes
    BY <1>4 DEF store, Indexes
  <2>4. \A k \in 1 .. Len(cmRp') : cmRp'[k] \in Indexes
    BY <1>1, <1>2
  <2> QED
    BY <1>6, <1>7, <2>2, <2>3, <2>4 DEF RpsListed
<1>10. Started'
  <2>1. cmRpNext' = 0 => cmRp' = <<>> /\ rpShown' = {}
    BY <1>3, <1>4 DEF RpsOf, ShownAtOnce
  <2> QED
    BY <1>4, <2>1 DEF Started, credEnumeration
<1>11. StoredIds' /\ Behind' /\ CredentialsListed' /\ NeverTwice'
  BY <1>4 DEF StoredIds, Behind, CredentialsListed, NeverTwice, Indexes, store, credEnumeration
<1> QED
  BY <1>8, <1>9, <1>10, <1>11

(* enumerateRPsGetNextRP: one more of the list.                             *)
LEMMA NextRpStep ==
    ASSUME IInv, EnumerateRpsGetNextRp
    PROVE  IInv'
<1> USE DEF IInv
<1> DEFINE i == cmRp[cmRpNext + 1]
<1>1. /\ cmRpNext + 1 \in 1 .. Len(cmRp) /\ cmRpNext' = cmRpNext + 1 /\ cmRpNext \in Nat
      /\ 1 .. cmRpNext + 1 = (1 .. cmRpNext) \cup {cmRpNext + 1}
  BY Types DEF EnumerateRpsGetNextRp, TypeOK
<1>2. UNCHANGED <<store, credEnumeration, cmRp, rpWanted, rpFresh>>
  BY DEF EnumerateRpsGetNextRp
<1>3. rpShown' = rpShown \cup RpsOf(At(i))
  BY DEF EnumerateRpsGetNextRp
<1> HIDE DEF i
<1>4. RpsOf(At(i)) \subseteq Rps
  BY Types DEF RpsOf, At
<1>5. TypeOK'
  <2>1. cmRpNext' \in 0 .. Len(cmRp')
    BY <1>1, <1>2
  <2> QED
    BY <1>2, <1>3, <1>4, <2>1 DEF TypeOK, store, credEnumeration
<1>6. RpsListed'
  <2> SUFFICES ASSUME rpFresh
               PROVE  /\ RpsListed
                      /\ rpShown' = {recs[cmRp[k]].rp : k \in 1 .. cmRpNext + 1}
    BY <1>1, <1>2 DEF RpsListed, store, Indexes
  <2>1. i \in Indexes
    BY <1>1 DEF RpsListed, i
  <2>2. RpsOf(At(i)) = {recs[cmRp[cmRpNext + 1]].rp}
    BY <2>1 DEF RpsOf, At, i
  <2>3. rpShown = {recs[cmRp[k]].rp : k \in 1 .. cmRpNext}
    BY DEF RpsListed
  <2> QED
    BY <1>1, <1>3, <2>2, <2>3
<1>7. Started'
  BY <1>1, <1>2 DEF Started, credEnumeration
<1>8. StoredIds' /\ Behind' /\ CredentialsListed' /\ NeverTwice'
  BY <1>2 DEF StoredIds, Behind, CredentialsListed, NeverTwice, Indexes, store, credEnumeration
<1> QED
  BY <1>5, <1>6, <1>7, <1>8

(* enumerateCredentialsBegin: the list of what is collected.                *)
LEMMA CredentialsBeginStep ==
    ASSUME IInv, NEW rp \in Rps, EnumerateCredentialsBegin(rp)
    PROVE  IInv'
<1> USE DEF IInv
<1>1. Collected(rp) \in SUBSET Slots /\ Collected(rp) \subseteq Indexes
  BY Types DEF Collected, Slots, Indexes, TypeOK
<1>2. /\ cmCredential' \in Seq(Slots) /\ Len(cmCredential') \in Nat
      /\ \A k \in 1 .. Len(cmCredential') : cmCredential'[k] \in Collected(rp)
      /\ \A i \in Collected(rp) : \E k \in 1 .. Len(cmCredential') : cmCredential'[k] = i
      /\ \A j, k \in 1 .. Len(cmCredential') : j < k => cmCredential'[j] < cmCredential'[k]
      /\ cmCredential' = <<>> <=> Len(cmCredential') = 0
      /\ cmCredential' # <<>> => 1 \in 1 .. Len(cmCredential')
  BY <1>1, AscendingList DEF EnumerateCredentialsBegin
<1>3. cmCredentialNext' = IF cmCredential' = <<>> THEN 0 ELSE 1
  BY DEF EnumerateCredentialsBegin, Begun
<1>4. /\ UNCHANGED <<store, rpEnumeration>> /\ credFresh' = TRUE
      /\ credWanted' = IdsOf(Collected(rp))
      /\ credShown' = IdsOf(ShownAtOnce(cmCredential'))
      /\ credAnswers' = Cardinality(ShownAtOnce(cmCredential'))
  BY DEF EnumerateCredentialsBegin, Collected
<1>5. \A i \in Collected(rp) : recs[i].id \in Ids /\ recs[i].id <= issued
  BY <1>1, Types DEF StoredIds
<1>6. CASE cmCredential' = <<>>
  <2>1. /\ cmCredentialNext' = 0 /\ credShown' = {} /\ credAnswers' = 0 /\ Len(cmCredential') = 0
        /\ Collected(rp) = {} /\ credWanted' = {}
    BY <1>2, <1>3, <1>4, <1>6, FS_EmptySet DEF ShownAtOnce, IdsOf
  <2>2. TypeOK'
    BY <1>2, <1>4, <2>1 DEF TypeOK, store, rpEnumeration
  <2>3. StoredIds' /\ Started' /\ Behind' /\ RpsListed' /\ CredentialsListed'
    BY <1>4, <1>6, <2>1
    DEF StoredIds, Started, Behind, RpsListed, CredentialsListed, Indexes, store, rpEnumeration
  <2>4. NeverTwice'
    BY <2>1, FS_EmptySet DEF NeverTwice
  <2> QED
    BY <2>2, <2>3, <2>4
<1>7. CASE cmCredential' # <<>>
  <2>1. /\ cmCredentialNext' = 1 /\ 1 \in 1 .. Len(cmCredential')
        /\ credShown' = {recs[cmCredential'[1]].id} /\ credAnswers' = 1
        /\ cmCredential'[1] \in Collected(rp)
    BY <1>2, <1>3, <1>4, <1>7, FS_Singleton DEF ShownAtOnce, IdsOf
  <2>2. credWanted' \in SUBSET Ids /\ credShown' \in SUBSET Ids
    BY <1>4, <1>5, <2>1 DEF IdsOf
  <2>3. TypeOK'
    <3>1. cmCredentialNext' \in 0 .. Len(cmCredential') /\ credAnswers' \in 0 .. cmCredentialNext'
      BY <2>1
    <3> QED
      BY <1>2, <1>4, <2>2, <3>1 DEF TypeOK, store, rpEnumeration
  <2>4. StoredIds' /\ RpsListed'
    BY <1>4 DEF StoredIds, RpsListed, Indexes, store, rpEnumeration
  <2>5. Started'
    <3>1. \A j, k \in 1 .. Len(cmCredential') : j < k => cmCredential'[j] < cmCredential'[k]
      BY <1>2
    <3>2. UNCHANGED <<cmRp, cmRpNext, rpShown>> /\ cmCredentialNext' # 0
      BY <1>4, <2>1 DEF rpEnumeration
    <3> QED
      BY <3>1, <3>2 DEF Started
  <2>6. Behind'
    <3>1. cmCredential'[1] \in Indexes /\ cmCredential'[1] \in Nat
      BY <1>1, <2>1 DEF Indexes
    <3>2. \A i \in Indexes : recs[i].id \in credShown' => i = cmCredential'[1]
      BY <2>1, <3>1 DEF StoredIds
    <3>3. \A id \in credShown' : id <= issued
      BY <1>5, <2>1
    <3> QED
      BY <1>4, <2>1, <3>1, <3>2, <3>3 DEF Behind, store, Indexes
  <2>7. CredentialsListed'
    <3>1. \A k \in 1 .. Len(cmCredential') : cmCredential'[k] \in Indexes
      BY <1>1, <1>2
    <3>2. credShown' = {recs[cmCredential'[k]].id : k \in 1 .. cmCredentialNext'}
      <4>1. 1 .. cmCredentialNext' = {1}
        BY <2>1
      <4> QED
        BY <2>1, <4>1
    <3>3. credWanted' = {recs[cmCredential'[k]].id : k \in 1 .. Len(cmCredential')}
      BY <1>2, <1>4 DEF IdsOf
    <3>4. recs' = recs /\ Indexes' = Indexes
      BY <1>4 DEF store, Indexes
    <3> QED
      BY <3>1, <3>2, <3>3, <3>4 DEF CredentialsListed
  <2>8. NeverTwice'
    BY <2>1, FS_Singleton DEF NeverTwice
  <2> QED
    BY <2>3, <2>4, <2>5, <2>6, <2>7, <2>8
<1> QED
  BY <1>6, <1>7

(* enumerateCredentialsGetNextCredential: the record that is at the next    *)
(* index by now, which is past all that were shown.                         *)
LEMMA NextCredentialStep ==
    ASSUME IInv, EnumerateCredentialsGetNextCredential
    PROVE  IInv'
<1> USE DEF IInv
<1> DEFINE i == cmCredential[cmCredentialNext + 1]
           n == cmCredentialNext
<1>1. /\ n + 1 \in 1 .. Len(cmCredential) /\ cmCredentialNext' = n + 1 /\ n \in Nat
      /\ 1 .. n + 1 = (1 .. n) \cup {n + 1} /\ i \in Nat /\ credAnswers \in 0 .. n
  BY Types DEF EnumerateCredentialsGetNextCredential, TypeOK
<1>2. UNCHANGED <<store, rpEnumeration, cmCredential, credWanted, credFresh>>
  BY DEF EnumerateCredentialsGetNextCredential
<1>3. /\ credShown' = credShown \cup IdsOf(At(i))
      /\ credAnswers' = credAnswers + Cardinality(At(i))
  BY DEF EnumerateCredentialsGetNextCredential
<1>4. i \in Indexes => recs[i].id \notin credShown
  <2> SUFFICES ASSUME i \in Indexes, recs[i].id \in credShown PROVE FALSE
    OBVIOUS
  <2>1. n \in 1 .. Len(cmCredential)
    BY <1>1 DEF Started
  <2>2. cmCredential[n] < i /\ cmCredential[n] \in Nat
    BY <1>1, <2>1, Types DEF Started
  <2>3. i <= cmCredential[n]
    BY DEF Behind
  <2> QED
    BY <1>1, <2>2, <2>3
<1>5. \A j \in Indexes : recs[j].id \in credShown => j <= i
  <2> SUFFICES ASSUME NEW j \in Indexes, recs[j].id \in credShown PROVE j <= i
    OBVIOUS
  <2>1. n \in 1 .. Len(cmCredential)
    BY <1>1 DEF Started
  <2>2. cmCredential[n] < i /\ cmCredential[n] \in Nat
    BY <1>1, <2>1, Types DEF Started
  <2>3. j <= cmCredential[n] /\ j \in Nat
    BY DEF Behind, Indexes
  <2> QED
    BY <1>1, <2>2, <2>3
<1> HIDE DEF i
<1>6. /\ i \in Indexes => /\ IdsOf(At(i)) = {recs[i].id} /\ credAnswers' = credAnswers + 1
                          /\ recs[i].id \in Ids /\ recs[i].id <= issued
      /\ i \notin Indexes => IdsOf(At(i)) = {} /\ credAnswers' = credAnswers
  <2>1. ASSUME i \in Indexes
        PROVE  At(i) = {i} /\ IdsOf(At(i)) = {recs[i].id} /\ Cardinality(At(i)) = 1
    BY <2>1, FS_Singleton DEF At, IdsOf
  <2>2. ASSUME i \notin Indexes
        PROVE  At(i) = {} /\ IdsOf(At(i)) = {} /\ Cardinality(At(i)) = 0
    BY <2>2, FS_EmptySet DEF At, IdsOf
  <2>3. credAnswers \in Nat
    BY Types
  <2> QED
    BY <1>3, <2>1, <2>2, <2>3, Types DEF StoredIds
<1>7. TypeOK'
  <2>1. cmCredentialNext' \in 0 .. Len(cmCredential') /\ credAnswers' \in 0 .. cmCredentialNext'
    BY <1>1, <1>2, <1>6
  <2>2. credShown' \in SUBSET Ids
    BY <1>3, <1>6 DEF TypeOK
  <2> QED
    BY <1>2, <2>1, <2>2 DEF TypeOK, store, rpEnumeration
<1>8. Started'
  BY <1>1, <1>2 DEF Started, rpEnumeration
<1>9. Behind'
  <2>1. \A id \in credShown' : id <= issued
    BY <1>3, <1>6 DEF Behind
  <2>2. \A j \in Indexes : recs[j].id \in credShown' => j <= i
    <3>1. i \in Indexes => i <= i
      BY <1>1
    <3> QED
      BY <1>3, <1>5, <1>6, <3>1 DEF StoredIds
  <2> QED
    BY <1>1, <1>2, <2>1, <2>2 DEF Behind, store, Indexes, i
<1>10. CredentialsListed'
  <2> SUFFICES ASSUME credFresh
               PROVE  credShown' = {recs[cmCredential[k]].id : k \in 1 .. n + 1}
    BY <1>1, <1>2 DEF CredentialsListed, store, Indexes
  <2>1. i \in Indexes
    BY <1>1 DEF CredentialsListed, i
  <2>2. IdsOf(At(i)) = {recs[cmCredential[n + 1]].id}
    BY <1>6, <2>1 DEF i
  <2>3. credShown = {recs[cmCredential[k]].id : k \in 1 .. n}
    BY DEF CredentialsListed
  <2> QED
    BY <1>1, <1>3, <2>2, <2>3
<1>11. NeverTwice'
  <2>1. IsFiniteSet(credShown)
    BY Types
  <2>2. CASE i \in Indexes
    <3>1. Cardinality(credShown \cup {recs[i].id}) = Cardinality(credShown) + 1
      BY <1>4, <2>1, <2>2, FS_AddElement DEF i
    <3> QED
      BY <1>3, <1>6, <2>2, <3>1 DEF NeverTwice
  <2>3. CASE i \notin Indexes
    <3>1. credShown' = credShown
      BY <1>3, <1>6, <2>3
    <3> QED
      BY <1>6, <2>3, <3>1 DEF NeverTwice
  <2> QED
    BY <2>2, <2>3
<1>12. StoredIds' /\ RpsListed'
  BY <1>2 DEF StoredIds, RpsListed, Indexes, store, rpEnumeration
<1> QED
  BY <1>7, <1>8, <1>9, <1>10, <1>11, <1>12

(* Every step keeps the invariant.                                          *)
LEMMA StepIInv == IInv /\ [Next]_vars => IInv'
<1> SUFFICES ASSUME IInv, [Next]_vars PROVE IInv'
  OBVIOUS
<1>1. CASE UNCHANGED vars
  BY <1>1 DEF vars, IInv, TypeOK, StoredIds, Started, Behind, RpsListed, CredentialsListed,
              NeverTwice, Indexes
<1>2. CASE Next
  BY <1>2, RegisterStep, DeleteStep, WipeStep, CrashStep, RpsBeginStep, NextRpStep,
     CredentialsBeginStep, NextCredentialStep DEF Next
<1> QED
  BY <1>1, <1>2

-----------------------------------------------------------------------------
(* A list of n different things has n of them.                              *)
LEMMA AsManyAsListed ==
    ASSUME NEW n \in Nat, NEW f, f = [k \in 1 .. n |-> f[k]],
           \A j, k \in 1 .. n : f[j] = f[k] => j = k
    PROVE  Cardinality({f[k] : k \in 1 .. n}) = n
<1> DEFINE W == {f[k] : k \in 1 .. n}
<1>1. f \in Surjection(1 .. n, W) /\ f \in Injection(1 .. n, W)
  <2>1. f \in [1 .. n -> W]
    OBVIOUS
  <2> QED
    BY <2>1 DEF Surjection, Injection, IsInjective
<1>2. IsFiniteSet(1 .. n) /\ Cardinality(1 .. n) = n
  <2>1. 1 \in Int /\ n \in Int /\ (IF 1 > n THEN 0 ELSE n - 1 + 1) = n
    OBVIOUS
  <2> QED
    BY <2>1, FS_Interval
<1> QED
  BY <1>1, <1>2, FS_Surjection

(* The inductive invariant holds always.                                    *)
THEOREM MgmtIInv == Spec => []IInv
BY InitIInv, StepIInv, PTL DEF Spec

(* handleCredentialManagement: the cached lists and positions stay in       *)
(* range.                                                                   *)
THEOREM MgmtTypeOK == Spec => []TypeOK
<1>1. IInv => TypeOK
  BY DEF IInv
<1> QED
  BY <1>1, MgmtIInv, PTL

(* enumerateRPsGetNextRP: with nothing removed, each relying party once.    *)
LEMMA MgmtRpsComplete == Spec => []RpsComplete
<1>1. IInv => RpsComplete
  <2> SUFFICES ASSUME IInv, rpFresh, cmRpNext = Len(cmRp)
               PROVE  rpShown = rpWanted /\ Cardinality(rpWanted) = Len(cmRp)
    BY DEF RpsComplete
  <2> DEFINE f == [k \in 1 .. Len(cmRp) |-> recs[cmRp[k]].rp]
  <2>1. \A j, k \in 1 .. Len(cmRp) : f[j] = f[k] => j = k
    BY DEF IInv, RpsListed
  <2>2. rpWanted = {f[k] : k \in 1 .. Len(cmRp)} /\ rpShown = rpWanted
    BY DEF IInv, RpsListed
  <2>3. Len(cmRp) \in Nat /\ f = [k \in 1 .. Len(cmRp) |-> f[k]]
    BY Types DEF IInv
  <2> HIDE DEF f
  <2> QED
    BY <2>1, <2>2, <2>3, AsManyAsListed
<1> QED
  BY <1>1, MgmtIInv, PTL

(* enumerateCredentialsGetNextCredential: with nothing removed, each        *)
(* credential of the relying party once.                                    *)
LEMMA MgmtCredentialsComplete == Spec => []CredentialsComplete
<1>1. IInv => CredentialsComplete
  <2> SUFFICES ASSUME IInv, credFresh, cmCredentialNext = Len(cmCredential)
               PROVE  /\ credShown = credWanted
                      /\ Cardinality(credWanted) = Len(cmCredential)
    BY DEF CredentialsComplete
  <2> DEFINE f == [k \in 1 .. Len(cmCredential) |-> recs[cmCredential[k]].id]
  <2>1. \A j, k \in 1 .. Len(cmCredential) : f[j] = f[k] => j = k
    <3> SUFFICES ASSUME NEW j \in 1 .. Len(cmCredential), NEW k \in 1 .. Len(cmCredential),
                        recs[cmCredential[j]].id = recs[cmCredential[k]].id, j < k
                 PROVE  FALSE
      BY Types DEF IInv
    <3>1. cmCredential[j] = cmCredential[k]
      BY DEF IInv, CredentialsListed, StoredIds
    <3>2. cmCredential[j] < cmCredential[k] /\ cmCredential[j] \in Nat
      BY Types DEF IInv, Started
    <3> QED
      BY <3>1, <3>2
  <2>2. credWanted = {f[k] : k \in 1 .. Len(cmCredential)} /\ credShown = credWanted
    BY DEF IInv, CredentialsListed
  <2>3. Len(cmCredential) \in Nat /\ f = [k \in 1 .. Len(cmCredential) |-> f[k]]
    BY Types DEF IInv
  <2> HIDE DEF f
  <2> QED
    BY <2>1, <2>2, <2>3, AsManyAsListed
<1> QED
  BY <1>1, MgmtIInv, PTL

(* Both enumerations of handleCredentialManagement are complete.            *)
THEOREM MgmtEnumerationsComplete == Spec => []EnumerationsComplete
<1>1. RpsComplete /\ CredentialsComplete => EnumerationsComplete
  BY DEF EnumerationsComplete
<1> QED
  BY <1>1, MgmtRpsComplete, MgmtCredentialsComplete, PTL

(* No credential twice, also when the store shrinks under the enumeration.  *)
THEOREM MgmtNeverTwice == Spec => []NeverTwice
<1>1. IInv => NeverTwice
  BY DEF IInv
<1> QED
  BY <1>1, MgmtIInv, PTL
-----------------------------------------------------------------------------
(* The store as a map.  Users and counts are not in CredMgmt: one value     *)
(* stands for them.                                                         *)

KeptIds(s) == {s[i].id : i \in 1 .. Len(s)}
Map == INSTANCE CredentialMap WITH
    CredIds <- Ids, Users <- {"kept"}, intact <- TRUE,
    creds <- [id \in KeptIds(recs) |-> [user |-> "kept", ctr |-> 1]]

\* One operation of the map, or none.
Operates == [Map!Next]_(Map!map)

(* A registration adds an id that was not there.                            *)
LEMMA RegisterShows ==
    ASSUME IInv, NEW rp \in Rps, NEW resident \in BOOLEAN, Register(rp, resident)
    PROVE  Operates
<1> DEFINE new == [id |-> issued + 1, rp |-> rp, resident |-> resident]
<1>1. new \in Records /\ issued + 1 \in Ids
  BY Types DEF IInv, Register, Records, Ids, TypeOK
<1>2. /\ Len(recs') = Len(recs) + 1
      /\ \A i \in Indexes : recs'[i] = recs[i]
      /\ recs'[Len(recs) + 1] = new
  BY <1>1, AppendProperties DEF IInv, Register, TypeOK, Indexes
<1> HIDE DEF new
<1>3. KeptIds(recs') = KeptIds(recs) \cup {issued + 1}
  <2>1. Len(recs) \in Nat /\ new.id = issued + 1
    BY Types DEF IInv, new
  <2>2. \A i \in 1 .. Len(recs') : i \in Indexes \/ i = Len(recs) + 1
    BY <1>2, <2>1 DEF Indexes
  <2>3. \A i \in Indexes : i \in 1 .. Len(recs')
    BY <1>2, <2>1 DEF Indexes
  <2>4. Len(recs) + 1 \in 1 .. Len(recs')
    BY <1>2, <2>1
  <2> QED
    BY <1>2, <2>1, <2>2, <2>3, <2>4 DEF KeptIds, Indexes
<1>4. issued + 1 \notin KeptIds(recs)
  BY Types DEF IInv, StoredIds, KeptIds, Indexes
<1>5. Map!Register(issued + 1, "kept")
  BY <1>3, <1>4 DEF Map!Register
<1> QED
  BY <1>1, <1>5 DEF Operates, Map!Next, Map!Operation

(* A deletion takes the id of one record away, and no other.                *)
LEMMA DeleteShows == ASSUME IInv, NEW i \in Indexes, Delete(i) PROVE Operates
<1>1. Len(recs) \in Nat /\ i \in 1 .. Len(recs) /\ recs[i].id \in Ids
  BY Types DEF IInv, Indexes
<1>2. recs' = [j \in 1 .. Len(recs) - 1 |-> IF j < i THEN recs[j] ELSE recs[j + 1]]
  BY DEF Delete, Without
<1>3. Len(recs') = Len(recs) - 1
  BY Removal DEF IInv, Delete
<1>4. \A j, k \in 1 .. Len(recs) : recs[j].id = recs[k].id => j = k
  BY DEF IInv, StoredIds, Indexes
<1>5. KeptIds(recs') = KeptIds(recs) \ {recs[i].id}
  <2>1. ASSUME NEW id \in KeptIds(recs') PROVE id \in KeptIds(recs) /\ id # recs[i].id
    <3>1. PICK j \in 1 .. Len(recs) - 1 : id = recs'[j].id
      BY <1>3, <2>1 DEF KeptIds
    <3>2. PICK m \in 1 .. Len(recs) : m # i /\ recs'[j] = recs[m]
      BY <1>1, <1>2, <3>1
    <3> QED
      BY <1>1, <1>4, <3>1, <3>2 DEF KeptIds
  <2>2. ASSUME NEW id \in KeptIds(recs), id # recs[i].id PROVE id \in KeptIds(recs')
    <3>1. PICK m \in 1 .. Len(recs) : m # i /\ id = recs[m].id
      BY <2>2 DEF KeptIds
    <3>2. PICK j \in 1 .. Len(recs) - 1 : recs'[j] = recs[m]
      <4>1. CASE m < i
        BY <1>1, <1>2, <3>1, <4>1
      <4>2. CASE m > i
        <5>1. m - 1 \in 1 .. Len(recs) - 1 /\ ~(m - 1 < i) /\ (m - 1) + 1 = m
          BY <1>1, <4>2
        <5> QED
          BY <1>2, <5>1
      <4> QED
        BY <1>1, <3>1, <4>1, <4>2
    <3> QED
      BY <1>3, <3>1, <3>2 DEF KeptIds
  <2> QED
    BY <2>1, <2>2
<1>6. recs[i].id \in KeptIds(recs)
  BY <1>1 DEF KeptIds
<1>7. Map!Remove(recs[i].id)
  BY <1>5, <1>6 DEF Map!Remove
<1> QED
  BY <1>1, <1>7 DEF Operates, Map!Next, Map!Operation

(* Nothing is stored: the map is empty.                                     *)
LEMMA NothingKept == KeptIds(<<>>) = {} /\ [id \in {} |-> [user |-> "kept", ctr |-> 1]] = Map!Empty
<1>1. Len(<<>>) = 0
  BY EmptySeq
<1>2. KeptIds(<<>>) = {}
  BY <1>1 DEF KeptIds
<1>3. [id \in {} |-> [user |-> "kept", ctr |-> 1]] = Map!Empty
  BY DEF Map!Empty
<1> QED
  BY <1>2, <1>3

(* Registrations, deletions and the wipe are operations of CredentialMap,   *)
(* each at once or not at all; enumerating changes nothing in the store,    *)
(* however stale the cached indexes are.  So what is shown of the store     *)
(* holds under credential management, too.                                  *)
THEOREM MgmtUsesMap == Spec => Map!Spec
<1>1. Init => Map!Init
  BY NothingKept DEF Init, Map!Init
<1>2. IInv /\ [Next]_vars => [Map!Next]_(Map!map)
  <2> SUFFICES ASSUME IInv, [Next]_vars PROVE Operates
    BY DEF Operates
  <2>1. ASSUME UNCHANGED recs PROVE Operates
    BY <2>1 DEF Operates, Map!map
  <2>2. CASE Wipe
    <3>1. Map!RemoveAll
      BY <2>2, NothingKept DEF Wipe, Map!RemoveAll
    <3> QED
      BY <3>1 DEF Operates, Map!Next, Map!Operation
  <2>3. CASE EnumerateRpsBegin \/ EnumerateRpsGetNextRp \/ EnumerateCredentialsGetNextCredential \/ Crash
    BY <2>1, <2>3 DEF EnumerateRpsBegin, EnumerateRpsGetNextRp, EnumerateCredentialsGetNextCredential, Crash, store
  <2>4. ASSUME NEW rp \in Rps, EnumerateCredentialsBegin(rp) PROVE Operates
    BY <2>1, <2>4 DEF EnumerateCredentialsBegin, store
  <2>5. CASE UNCHANGED vars
    BY <2>1, <2>5 DEF vars
  <2> QED
    BY <2>2, <2>3, <2>4, <2>5, RegisterShows, DeleteShows DEF Next
<1> QED
  BY <1>1, <1>2, MgmtIInv, PTL DEF Spec, Map!Spec
=============================================================================
