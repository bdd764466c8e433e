------------------------- MODULE Ctap2SessionProofs -------------------------
(***************************************************************************)
(* What the run "session" checks, for every number of relying parties,     *)
(* slots, ids and resets, and for counts of any size; and that the session *)
(* uses the store as the map of CredentialMap.                             *)
(***************************************************************************)
EXTENDS Ctap2Session, SequenceTheorems, FiniteSetTheorems, TLAPS

(* Ids up to issued have been generated, and no others are in use.          *)
Generated ==
    /\ \A i \in Indexes : recs[i].id <= issued
    /\ \A s \in wrapped : s.id <= issued /\ s.secret <= secret
    /\ \A id \in removed : id <= issued
    /\ \A m \in tx : m.id <= issued
    /\ \A id \in Ids : id > issued => seen[id] = 0

(* An id is that of one record or of one stateless credential.              *)
Distinct ==
    /\ \A i, j \in Indexes : recs[i].id = recs[j].id => i = j
    /\ \A s \in wrapped : \A i \in Indexes : s.id # recs[i].id

(* What was removed is neither in the store nor under the present secret.   *)
Alive ==
    /\ \A i \in Indexes : recs[i].id \notin removed
    /\ \A s \in wrapped : s.secret = secret => s.id \notin removed
    /\ RemovedNeverSigns

(* The count that the next signature goes on from covers what the host was  *)
(* shown and what is on its way to it.                                      *)
Covered ==
    /\ \A i \in Indexes : seen[recs[i].id] <= recs[i].ctr
    /\ \A s \in wrapped : s.secret = secret => seen[s.id] <= gctr
    /\ \A m \in tx :
          /\ \A i \in Indexes : recs[i].id = m.id => m.ctr <= recs[i].ctr
          /\ \A s \in wrapped : (s.secret = secret /\ s.id = m.id) => m.ctr <= gctr
    /\ CounterAdvances

(* The rest of the chain while nothing was removed.                         *)
Left == next + 1 .. Len(chain)
Listed ==
    /\ \A k \in Left : chain[k] \in Indexes
    /\ \A k \in Left : recs[chain[k]].rp = hash.rp /\ recs[chain[k]].resident
    /\ \A j, k \in Left : j < k => chain[j] < chain[k]
    /\ due = {IdAt(chain[k]) : k \in Left}
Walk == fresh => Listed

IInv == TypeOK /\ Generated /\ Distinct /\ Alive /\ Covered /\ Walk

-----------------------------------------------------------------------------
(* Sequences.                                                               *)

LEMMA RemoveAtIs ==
    ASSUME NEW S, NEW s \in Seq(S), NEW i \in 1 .. Len(s)
    PROVE  /\ RemoveAt(s, i) \in Seq(S)
           /\ Len(RemoveAt(s, i)) = Len(s) - 1
           /\ \A j \in 1 .. Len(s) - 1 : RemoveAt(s, i)[j] = IF j < i THEN s[j] ELSE s[j + 1]
<1> DEFINE a == SubSeq(s, 1, i - 1)
           b == SubSeq(s, i + 1, Len(s))
<1>1. Len(s) \in Nat /\ \A k \in 1 .. Len(s) : s[k] \in S
  BY LenProperties, ElementOfSeq
<1>2. a \in Seq(S) /\ Len(a) = i - 1 /\ \A k \in 1 .. i - 1 : a[k] = s[k]
  <2>1. 1 \in Int /\ i - 1 \in Int /\ \A k \in 1 .. i - 1 : s[k] \in S
    BY <1>1
  <2>2. /\ a \in Seq(S)
        /\ Len(a) = IF 1 <= i - 1 THEN i - 1 - 1 + 1 ELSE 0
        /\ \A k \in 1 .. i - 1 - 1 + 1 : a[k] = s[1 + k - 1]
    BY <2>1, SubSeqProperties
  <2> HIDE DEF a
  <2> QED
    BY <1>1, <2>2
<1>3. b \in Seq(S) /\ Len(b) = Len(s) - i /\ \A k \in 1 .. Len(s) - i : b[k] = s[i + k]
  <2>1. i + 1 \in Int /\ Len(s) \in Int /\ \A k \in i + 1 .. Len(s) : s[k] \in S
    BY <1>1
  <2>2. /\ b \in Seq(S)
        /\ Len(b) = IF i + 1 <= Len(s) THEN Len(s) - (i + 1) + 1 ELSE 0
        /\ \A k \in 1 .. Len(s) - (i + 1) + 1 : b[k] = s[i + 1 + k - 1]
    BY <2>1, SubSeqProperties
  <2> HIDE DEF b
  <2> QED
    BY <1>1, <2>2
<1>4. /\ a \o b \in Seq(S)
      /\ Len(a \o b) = Len(a) + Len(b)
      /\ \A k \in 1 .. Len(a) + Len(b) : (a \o b)[k] = IF k <= Len(a) THEN a[k] ELSE b[k - Len(a)]
  BY <1>2, <1>3, ConcatProperties
<1>5. RemoveAt(s, i) = a \o b
  BY DEF RemoveAt
<1> HIDE DEF a, b
<1>6. ASSUME NEW j \in 1 .. Len(s) - 1
      PROVE  (a \o b)[j] = IF j < i THEN s[j] ELSE s[j + 1]
  <2>1. CASE j < i
    BY <1>1, <1>2, <1>3, <1>4, <2>1
  <2>2. CASE ~(j < i)
    <3>1. j \in 1 .. Len(a) + Len(b) /\ ~(j <= Len(a)) /\ j - Len(a) = j - i + 1 /\ j - i + 1 \in 1 .. Len(s) - i
      BY <1>1, <1>2, <1>3, <2>2
    <3>2. (a \o b)[j] = b[j - i + 1]
      BY <1>4, <3>1
    <3>3. b[j - i + 1] = s[i + (j - i + 1)] /\ i + (j - i + 1) = j + 1
      BY <1>3, <3>1
    <3> QED
      BY <2>2, <3>2, <3>3
  <2> QED
    BY <2>1, <2>2
<1> QED
  BY <1>1, <1>2, <1>3, <1>4, <1>5, <1>6

(* The one list of a set of indexes.                                        *)
LEMMA AscendingList ==
    ASSUME NEW n \in Nat, NEW S \in SUBSET (1 .. n), NEW list \in Ascending(S)
    PROVE  /\ list \in Seq(S) /\ Len(list) = Cardinality(S) /\ Len(list) <= n
           /\ \A j, k \in 1 .. Len(list) : j < k => list[j] < list[k]
           /\ \A i \in S : \E k \in 1 .. Len(list) : list[k] = i
<1> DEFINE c == Cardinality(S)
<1>1. IsFiniteSet(S) /\ c \in Nat /\ c <= n
  <2>1. IsFiniteSet(1 .. n) /\ Cardinality(1 .. n) = n
    BY FS_Interval
  <2> QED
    BY <2>1, FS_Subset, FS_CardinalityType
<1>2. IsFiniteSet(1 .. c) /\ Cardinality(1 .. c) = c
  BY <1>1, FS_Interval
<1>3. list \in [1 .. c -> S] /\ \A j, k \in 1 .. c : j < k => list[j] < list[k]
  BY DEF Ascending
<1>4. \A k \in 1 .. c : list[k] \in Nat
  <2>1. \A i \in S : i \in Nat
    OBVIOUS
  <2> HIDE DEF c
  <2> QED
    BY <1>3, <2>1
<1>5. \A j, k \in 1 .. c : list[j] = list[k] => j = k
  BY <1>1, <1>3, <1>4
<1>6. list \in Injection(1 .. c, S)
  BY <1>3, <1>5 DEF Injection, IsInjective
<1>7. c = Cardinality(1 .. c) => list \in Surjection(1 .. c, S)
  BY <1>1, <1>6, FS_Injection
<1> HIDE DEF c
<1>8. \A i \in S : \E k \in 1 .. c : list[k] = i
  BY <1>2, <1>7 DEF Surjection
<1>9. list \in Seq(S) /\ Len(list) = c
  BY <1>1, <1>3
<1> QED
  BY <1>1, <1>3, <1>8, <1>9 DEF c

-----------------------------------------------------------------------------
(* The records, as numbers.                                                 *)
LEMMA RecordTypes ==
    ASSUME TypeOK
    PROVE  /\ Len(recs) \in Nat
           /\ \A i \in Indexes :
                 /\ recs[i] \in Records /\ recs[i].id \in Ids /\ recs[i].rp \in Rps
                 /\ recs[i].resident \in BOOLEAN /\ recs[i].ctr \in 1 .. MaxCounter
<1>1. Len(recs) \in Nat /\ \A i \in 1 .. Len(recs) : recs[i] \in Records
  BY LenProperties, ElementOfSeq DEF TypeOK
<1> QED
  BY <1>1 DEF Indexes, Records

(* The initial state satisfies the invariant.                               *)
LEMMA InitIInv == Init => IInv
<1> SUFFICES ASSUME Init PROVE IInv
  OBVIOUS
<1> USE BoundsAreNat, MaxIsPositive DEF Init, Indexes
<1>1. Len(recs) = 0 /\ recs \in Seq(Records) /\ Len(chain) = 0 /\ chain \in Seq(1 .. kMaxCredentials)
  OBVIOUS
<1>2. Cardinality(tx) = 0
  BY FS_EmptySet
<1>3. TypeOK
  <2>1. hash \in Hashes
    BY DEF Hashes
  <2>2. seen \in [Ids -> 0 .. MaxCounter]
    OBVIOUS
  <2>3. secret \in 0 .. MaxWipes /\ gctr \in 0 .. MaxCounter /\ issued \in 0 .. MaxIds
    OBVIOUS
  <2>4. Len(recs) <= kMaxCredentials /\ Len(chain) <= kMaxCredentials /\ next \in 0 .. Len(chain)
    BY <1>1
  <2>5. wrapped \in SUBSET [id : Ids, rp : Rps, secret : 0 .. MaxWipes]
    OBVIOUS
  <2>6. tx \in SUBSET Answers /\ removed \in SUBSET Ids /\ due \in SUBSET Ids /\ fresh \in BOOLEAN
    OBVIOUS
  <2>7. Cardinality(tx) <= 1
    BY <1>2
  <2> HIDE DEF Init
  <2> QED
    BY <1>1, <2>1, <2>2, <2>3, <2>4, <2>5, <2>6, <2>7 DEF TypeOK
<1>4. Generated
  BY <1>1 DEF Generated
<1>5. Distinct /\ Alive /\ Covered /\ Walk
  BY <1>1 DEF Distinct, Alive, RemovedNeverSigns, Covered, CounterAdvances, Walk
<1> QED
  BY <1>3, <1>4, <1>5 DEF IInv

(* What a step that leaves the store and the counts alone keeps.            *)
LEMMA StoreStays ==
    ASSUME IInv, UNCHANGED <<recs, wrapped, secret, gctr, issued, seen, removed>>,
           tx' = tx \/ tx' = {}
    PROVE  Generated' /\ Distinct' /\ Alive' /\ Covered'
BY DEF IInv, Generated, Distinct, Alive, RemovedNeverSigns, Covered, CounterAdvances, Indexes

(* The chain may go on while every record in it stays where it is.          *)
LEMMA WalkStays ==
    ASSUME IInv, UNCHANGED <<chain, next, hash, due, fresh>>,
           Len(recs') \in Nat, Len(recs) <= Len(recs'),
           \A i \in Indexes : /\ recs'[i].id = recs[i].id /\ recs'[i].rp = recs[i].rp
                              /\ recs'[i].resident = recs[i].resident
    PROVE  Walk'
<1>1. Left' = Left
  BY DEF Left
<1>2. Indexes \subseteq Indexes'
  BY RecordTypes DEF IInv, Indexes
<1>3. \A i \in Indexes : IdAt(i)' = IdAt(i)
  BY DEF IdAt
<1>4. SUFFICES ASSUME fresh PROVE Listed'
  BY DEF Walk
<1>5. Listed
  BY <1>4 DEF IInv, Walk
<1> QED
  BY <1>1, <1>2, <1>3, <1>5 DEF Listed

-----------------------------------------------------------------------------
(* Registration.                                                            *)

(* A new record has an id nobody saw, at the end of the store.              *)
LEMMA StoredKeeps ==
    ASSUME IInv, NEW rp \in Rps, NEW resident \in BOOLEAN, Stored(rp, resident),
           issued < MaxIds, issued' = issued + 1,
           UNCHANGED <<secret, gctr, ram, tx, seen, removed, fresh, due>>
    PROVE  IInv'
<1> DEFINE rec == [id |-> issued + 1, rp |-> rp, resident |-> resident, ctr |-> 1]
<1> USE BoundsAreNat DEF ram
<1>1. Len(recs) \in Nat /\ issued \in Nat /\ issued + 1 \in Ids
  BY RecordTypes DEF IInv, TypeOK, Ids
<1>2. rec \in Records
  BY <1>1 DEF Records
<1>3. /\ recs' \in Seq(Records) /\ Len(recs') = Len(recs) + 1
      /\ \A i \in Indexes : recs'[i] = recs[i]
      /\ recs'[Len(recs) + 1] = rec
  BY <1>2, AppendProperties DEF IInv, TypeOK, Stored, Indexes
<1>4. Indexes' = Indexes \cup {Len(recs) + 1} /\ wrapped' = wrapped
  BY <1>1, <1>3 DEF Indexes, Stored
<1>5. recs'[Len(recs) + 1].id = issued + 1 /\ recs'[Len(recs) + 1].ctr = 1
  BY <1>3
<1> HIDE DEF rec
<1>6. TypeOK'
  <2>1. Len(recs') <= kMaxCredentials /\ issued' \in 0 .. MaxIds
    BY <1>1, <1>3, MaxIsPositive DEF Stored, Ids
  <2>2. recs' \in Seq(Records) /\ wrapped' = wrapped
    BY <1>3, <1>4
  <2> QED
    BY <2>1, <2>2 DEF IInv, TypeOK
<1>7. seen[issued + 1] = 0 /\ issued + 1 \notin removed
  BY <1>1 DEF IInv, Generated
<1>8. Generated'
  <2>1. ASSUME NEW id \in Ids, id > issued' PROVE seen'[id] = 0
    BY <1>1, <2>1 DEF IInv, Generated, Ids
  <2>2. ASSUME NEW i \in Indexes' PROVE recs'[i].id <= issued'
    BY <1>1, <1>3, <1>4, <1>5, RecordTypes DEF IInv, Generated, Ids
  <2>3. \A w \in wrapped' : w.id <= issued' /\ w.secret <= secret'
    BY <1>1, <1>4 DEF IInv, Generated, TypeOK, Ids
  <2>4. \A id \in removed' : id <= issued'
    BY <1>1 DEF IInv, Generated, TypeOK, Ids
  <2>5. \A m \in tx' : m.id <= issued'
    BY <1>1 DEF IInv, Generated, TypeOK, Ids, Answers
  <2> QED
    BY <2>1, <2>2, <2>3, <2>4, <2>5 DEF Generated
<1>9. Distinct'
  <2>1. \A i \in Indexes : recs[i].id # issued + 1
    BY <1>1, RecordTypes DEF IInv, Generated, Ids
  <2>2. \A w \in wrapped : w.id # issued + 1
    BY <1>1 DEF IInv, Generated, TypeOK, Ids
  <2> QED
    BY <1>3, <1>4, <1>5, <2>1, <2>2 DEF IInv, Distinct
<1>10. Alive'
  BY <1>3, <1>4, <1>5, <1>7 DEF IInv, Alive, RemovedNeverSigns
<1>11. Covered'
  <2>1. \A m \in tx : m.id # issued + 1
    BY <1>1 DEF IInv, Generated, TypeOK, Ids, Answers
  <2> QED
    BY <1>3, <1>4, <1>5, <1>7, <2>1 DEF IInv, Covered, CounterAdvances
<1>12. Walk'
  BY <1>1, <1>3, WalkStays
<1> QED
  BY <1>6, <1>8, <1>9, <1>10, <1>11, <1>12 DEF IInv

(* A stateless credential has an id nobody saw, under the present secret.   *)
LEMMA WrappedKeeps ==
    ASSUME IInv, NEW rp \in Rps, Wrapped(rp), issued < MaxIds, issued' = issued + 1,
           UNCHANGED <<secret, gctr, ram, tx, seen, removed, fresh, due>>
    PROVE  IInv'
<1> USE BoundsAreNat DEF ram
<1>1. Len(recs) \in Nat /\ issued \in Nat /\ issued + 1 \in Ids /\ secret \in Nat /\ gctr \in Nat
  BY RecordTypes DEF IInv, TypeOK, Ids
<1>2. recs' = recs /\ Indexes' = Indexes
  BY DEF Wrapped, Indexes
<1>3. PICK new \in wrapped' : /\ wrapped' = wrapped \cup {new}
                              /\ new.id = issued + 1 /\ new.secret = secret
                              /\ new \in [id : Ids, rp : Rps, secret : 0 .. MaxWipes]
  <2> DEFINE w == [id |-> issued + 1, rp |-> rp, secret |-> secret]
  <2>1. wrapped' = wrapped \cup {w}
    BY DEF Wrapped
  <2>2. w \in [id : Ids, rp : Rps, secret : 0 .. MaxWipes]
    BY <1>1 DEF IInv, TypeOK
  <2>3. w.id = issued + 1 /\ w.secret = secret
    OBVIOUS
  <2> HIDE DEF w
  <2> QED
    BY <2>1, <2>2, <2>3
<1>4. seen[issued + 1] = 0 /\ issued + 1 \notin removed
  BY <1>1 DEF IInv, Generated
<1>5. TypeOK'
  BY <1>1, <1>2, <1>3 DEF IInv, TypeOK
<1>6. Generated'
  <2>1. ASSUME NEW id \in Ids, id > issued' PROVE seen'[id] = 0
    BY <1>1, <2>1 DEF IInv, Generated, Ids
  <2>2. ASSUME NEW i \in Indexes' PROVE recs'[i].id <= issued'
    BY <1>1, <1>2, RecordTypes DEF IInv, Generated, Ids
  <2>3. \A w \in wrapped' : w.id <= issued' /\ w.secret <= secret'
    BY <1>1, <1>3 DEF IInv, Generated, TypeOK, Ids
  <2>4. \A id \in removed' : id <= issued'
    BY <1>1 DEF IInv, Generated, TypeOK, Ids
  <2>5. \A m \in tx' : m.id <= issued'
    BY <1>1 DEF IInv, Generated, TypeOK, Ids, Answers
  <2> QED
    BY <2>1, <2>2, <2>3, <2>4, <2>5 DEF Generated
<1>7. Distinct'
  <2>1. \A i \in Indexes : recs[i].id # issued + 1
    BY <1>1, RecordTypes DEF IInv, Generated, Ids
  <2> QED
    BY <1>2, <1>3, <2>1 DEF IInv, Distinct
<1>8. Alive'
  BY <1>2, <1>3, <1>4 DEF IInv, Alive, RemovedNeverSigns
<1>9. Covered'
  <2>1. \A m \in tx : m.id # issued + 1
    BY <1>1 DEF IInv, Generated, TypeOK, Ids, Answers
  <2> QED
    BY <1>1, <1>2, <1>3, <1>4, <2>1 DEF IInv, Covered, CounterAdvances
<1>10. Walk'
  BY <1>1, <1>2, WalkStays
<1> QED
  BY <1>5, <1>6, <1>7, <1>8, <1>9, <1>10 DEF IInv

-----------------------------------------------------------------------------
(* Signing.                                                                 *)

(* Storing a count changes that and nothing else.                           *)
LEMMA PersistIs ==
    ASSUME TypeOK, NEW i \in Indexes, NEW up \in BOOLEAN, Counted(i, up) <= MaxCounter
    PROVE  /\ Counted(i, up) \in 1 .. MaxCounter
           /\ Persist(i, up) \in Seq(Records) /\ Len(Persist(i, up)) = Len(recs)
           /\ \A j \in Indexes :
                 /\ Persist(i, up)[j].id = recs[j].id /\ Persist(i, up)[j].rp = recs[j].rp
                 /\ Persist(i, up)[j].resident = recs[j].resident
                 /\ Persist(i, up)[j].ctr = IF j = i THEN Counted(i, up) ELSE recs[j].ctr
<1> USE BoundsAreNat
<1>1. Counted(i, up) \in 1 .. MaxCounter
  BY RecordTypes DEF Counted
<1>2. PICK rec \in Records : /\ Persist(i, up) = [recs EXCEPT ![i] = rec]
                             /\ rec.id = recs[i].id /\ rec.rp = recs[i].rp
                             /\ rec.resident = recs[i].resident /\ rec.ctr = Counted(i, up)
  <2> DEFINE rec == [recs[i] EXCEPT !.ctr = Counted(i, up)]
  <2>1. recs[i] \in Records
    BY RecordTypes
  <2>2. rec \in Records /\ rec.id = recs[i].id /\ rec.rp = recs[i].rp
        /\ rec.resident = recs[i].resident /\ rec.ctr = Counted(i, up)
    BY <1>1, <2>1 DEF Records
  <2>3. Persist(i, up) = [recs EXCEPT ![i] = rec]
    BY DEF Persist
  <2> HIDE DEF rec
  <2> QED
    BY <2>2, <2>3
<1>3. /\ Persist(i, up) \in Seq(Records) /\ Len(Persist(i, up)) = Len(recs)
      /\ \A j \in Indexes : Persist(i, up)[j] = IF j = i THEN rec ELSE recs[j]
  BY <1>2, ExceptSeq DEF TypeOK, Indexes
<1> QED
  BY <1>1, <1>2, <1>3

(* The answer on its way has a count above what was shown, and the store    *)
(* has it already.                                                          *)
LEMMA SignStoredKeeps ==
    ASSUME IInv, NEW kind \in {"direct", "next", "u2f"}, NEW i \in Indexes, NEW up \in BOOLEAN,
           NEW pressed \in BOOLEAN, SignStored(kind, i, up, pressed),
           UNCHANGED <<wrapped, secret, gctr, issued, seen, removed>>
    PROVE  /\ recs' \in Seq(Records) /\ Len(recs') = Len(recs)
           /\ \A j \in Indexes : /\ recs'[j].id = recs[j].id /\ recs'[j].rp = recs[j].rp
                                  /\ recs'[j].resident = recs[j].resident
           /\ tx' \in SUBSET Answers /\ Cardinality(tx') <= 1
           /\ Generated' /\ Distinct' /\ Alive' /\ Covered'
<1> DEFINE c == Counted(i, up)
           m == Answer(kind, recs[i].id, recs[i].rp, c, up, pressed)
<1> USE BoundsAreNat
<1>1. /\ c \in 1 .. MaxCounter /\ recs' \in Seq(Records) /\ Len(recs') = Len(recs)
      /\ \A j \in Indexes :
            /\ recs'[j].id = recs[j].id /\ recs'[j].rp = recs[j].rp
            /\ recs'[j].resident = recs[j].resident
            /\ recs'[j].ctr = IF j = i THEN c ELSE recs[j].ctr
  BY PersistIs DEF IInv, SignStored
<1>2. Indexes' = Indexes
  BY <1>1 DEF Indexes
<1>3. tx' = {m} /\ m.id = recs[i].id /\ m.ctr = c /\ m.up = up
  BY DEF SignStored, Answer
<1>4. recs[i].id \in Ids /\ recs[i].rp \in Rps /\ recs[i].ctr \in 1 .. MaxCounter
  BY RecordTypes DEF IInv
<1>5. m \in Answers
  BY <1>1, <1>4 DEF Answer, Answers
<1>6. Cardinality(tx') <= 1
  BY <1>3, FS_Singleton
<1>7. (IF up THEN c = recs[i].ctr + 1 ELSE c = recs[i].ctr) /\ seen[recs[i].id] <= recs[i].ctr
  BY DEF Counted, IInv, Covered
<1>8. seen[recs[i].id] \in Nat
  BY <1>4 DEF IInv, TypeOK
<1> HIDE DEF c, m
<1>9. Generated' /\ Distinct' /\ Alive'
  BY <1>1, <1>2, <1>3
  DEF IInv, Generated, Distinct, Alive, RemovedNeverSigns
<1>10. Covered'
  <2>1. \A j \in Indexes' : seen'[recs'[j].id] <= recs'[j].ctr
    <3> TAKE j \in Indexes'
    <3>1. CASE j = i
      BY <1>1, <1>2, <1>4, <1>7, <1>8, <3>1
    <3>2. CASE j # i
      BY <1>1, <1>2, <3>2 DEF IInv, Covered
    <3> QED
      BY <3>1, <3>2
  <2>2. \A n \in tx' :
           /\ \A j \in Indexes' : recs'[j].id = n.id => n.ctr <= recs'[j].ctr
           /\ \A w \in wrapped' : (w.secret = secret' /\ w.id = n.id) => n.ctr <= gctr'
    BY <1>1, <1>2, <1>3 DEF IInv, Distinct
  <2>3. CounterAdvances'
    BY <1>1, <1>3, <1>4, <1>7, <1>8 DEF CounterAdvances
  <2> QED
    BY <2>1, <2>2, <2>3 DEF IInv, Covered
<1> QED
  BY <1>1, <1>3, <1>5, <1>6, <1>9, <1>10

(* The same of a stateless credential and the counter of the master secret. *)
LEMMA SignStatelessKeeps ==
    ASSUME IInv, NEW id \in Ids, NEW rp \in Rps, IsStateless(id, rp), NEW up \in BOOLEAN,
           NEW pressed \in BOOLEAN, SignStateless(id, rp, up, pressed),
           UNCHANGED <<wrapped, secret, issued, seen, removed>>
    PROVE  /\ gctr' \in 0 .. MaxCounter /\ recs' = recs
           /\ tx' \in SUBSET Answers /\ Cardinality(tx') <= 1
           /\ Generated' /\ Distinct' /\ Alive' /\ Covered'
<1> DEFINE c == IF up THEN gctr + 1 ELSE gctr
           m == Answer("direct", id, rp, c, up, pressed)
<1> USE BoundsAreNat
<1>1. gctr \in Nat /\ seen[id] \in Nat /\ c \in 0 .. MaxCounter /\ gctr' = c /\ gctr <= c /\ recs' = recs
  BY DEF IInv, TypeOK, SignStateless
<1>2. tx' = {m} /\ m.id = id /\ m.ctr = c /\ m.up = up /\ Indexes' = Indexes
  BY DEF SignStateless, Answer, Indexes
<1>3. m \in Answers
  BY <1>1 DEF Answer, Answers
<1>4. Cardinality(tx') <= 1
  <2> HIDE DEF c, m
  <2> QED
    BY <1>2, FS_Singleton
<1>5. PICK w \in wrapped : w.id = id /\ w.secret = secret
  BY DEF IsStateless
<1>6. seen[id] <= gctr /\ id <= issued /\ id \notin removed /\ \A i \in Indexes : recs[i].id # id
  BY <1>5 DEF IInv, Covered, Generated, Alive, Distinct
<1>7. up => c = gctr + 1
  OBVIOUS
<1> HIDE DEF c, m
<1>8. Generated' /\ Distinct' /\ Alive'
  BY <1>1, <1>2, <1>6 DEF IInv, Generated, Distinct, Alive, RemovedNeverSigns
<1>9. Covered'
  <2>1. ASSUME NEW v \in wrapped, v.secret = secret PROVE seen[v.id] <= c
    BY <1>1, <2>1 DEF IInv, Covered, TypeOK
  <2>2. CounterAdvances'
    BY <1>1, <1>2, <1>6, <1>7 DEF CounterAdvances
  <2> QED
    BY <1>1, <1>2, <1>6, <2>1, <2>2 DEF IInv, Covered
<1> QED
  BY <1>1, <1>2, <1>3, <1>4, <1>8, <1>9

-----------------------------------------------------------------------------
(* Assertions.                                                              *)

LEMMA AllowListIs ==
    ASSUME NEW allow \in AllowLists
    PROVE  Len(allow) \in Nat /\ \A k \in 1 .. Len(allow) : allow[k] \in Ids
<1>1. PICK n \in 0 .. MaxAllowList : allow \in [1 .. n -> Ids]
  BY DEF AllowLists
<1> QED
  BY <1>1, BoundsAreNat

(* A request with a list leaves at most one record to sign with.            *)
LEMMA OneMatch ==
    ASSUME IInv, NEW allow \in AllowLists, NEW rp \in Rps, allow # <<>>,
           NEW i \in Matches(allow, rp), NEW j \in Matches(allow, rp)
    PROVE  i = j
<1>1. PICK k \in FirstStored(allow, rp) : IdAt(i) = allow[k]
  BY DEF Matches
<1>2. PICK l \in FirstStored(allow, rp) : IdAt(j) = allow[l]
  BY DEF Matches
<1>3. k = l
  <2>1. Len(allow) \in Nat /\ k \in 1 .. Len(allow) /\ l \in 1 .. Len(allow)
    BY AllowListIs DEF FirstStored
  <2>2. StoredFor(allow[k], rp) # {} /\ StoredFor(allow[l], rp) # {}
    BY DEF FirstStored
  <2>3. /\ \A j0 \in 1 .. k - 1 : StoredFor(allow[j0], rp) = {}
        /\ \A j0 \in 1 .. l - 1 : StoredFor(allow[j0], rp) = {}
    BY DEF FirstStored
  <2>4. ~ (k < l)
    <3>1. k < l => k \in 1 .. l - 1
      BY <2>1
    <3> QED
      BY <2>2, <2>3, <3>1
  <2>5. ~ (l < k)
    <3>1. l < k => l \in 1 .. k - 1
      BY <2>1
    <3> QED
      BY <2>2, <2>3, <3>1
  <2> QED
    BY <2>1, <2>4, <2>5
<1>4. i \in Indexes /\ j \in Indexes
  BY DEF Matches
<1> QED
  BY <1>1, <1>2, <1>3, <1>4 DEF IdAt, IInv, Distinct

(* The chain of a request without a list is what the host is owed.          *)
LEMMA OwedIsChain ==
    ASSUME IInv, NEW rp \in Rps, NEW stored \in Ascending(Collected(rp)), stored # <<>>
    PROVE  Owed(<<>>, rp, IdAt(stored[1])) = {IdAt(stored[k]) : k \in 2 .. Len(stored)}
<1>1. Collected(rp) \in SUBSET (1 .. Len(recs)) /\ Len(recs) \in Nat
  BY RecordTypes DEF IInv, Collected, Indexes
<1>2. /\ stored \in Seq(Collected(rp))
      /\ \A j, k \in 1 .. Len(stored) : j < k => stored[j] < stored[k]
      /\ \A i \in Collected(rp) : \E k \in 1 .. Len(stored) : stored[k] = i
  <2> DEFINE S == Collected(rp)
  <2>1. S \in SUBSET (1 .. Len(recs)) /\ Len(recs) \in Nat /\ stored \in Ascending(S)
    BY <1>1
  <2> HIDE DEF S
  <2>2. /\ stored \in Seq(S)
        /\ \A j, k \in 1 .. Len(stored) : j < k => stored[j] < stored[k]
        /\ \A i \in S : \E k \in 1 .. Len(stored) : stored[k] = i
    BY <2>1, AscendingList
  <2> QED
    BY <2>2 DEF S
<1>3. Len(stored) \in Nat \ {0} /\ \A k \in 1 .. Len(stored) : stored[k] \in Collected(rp)
  BY <1>2, EmptySeq, ElementOfSeq
<1>4. \A k \in 2 .. Len(stored) : stored[1] < stored[k] /\ IdAt(stored[k]) # IdAt(stored[1])
  <2> TAKE k \in 2 .. Len(stored)
  <2>1. 1 \in 1 .. Len(stored) /\ k \in 1 .. Len(stored) /\ 1 < k
    BY <1>3
  <2>2. stored[1] < stored[k] /\ stored[1] \in 1 .. Len(recs) /\ stored[k] \in 1 .. Len(recs)
    BY <1>1, <1>2, <1>3, <2>1
  <2> QED
    BY <2>2 DEF IdAt, IInv, Distinct, Indexes
<1>5. Owed(<<>>, rp, IdAt(stored[1])) = {IdAt(i) : i \in Collected(rp)} \ {IdAt(stored[1])}
  BY DEF Owed, Collected
<1>6. ASSUME NEW i \in Collected(rp), IdAt(i) # IdAt(stored[1])
      PROVE  \E k \in 2 .. Len(stored) : IdAt(i) = IdAt(stored[k])
  <2>1. PICK k \in 1 .. Len(stored) : stored[k] = i
    BY <1>2
  <2>2. k # 1
    BY <1>6, <2>1
  <2> QED
    BY <1>3, <2>1, <2>2
<1>7. \A k \in 2 .. Len(stored) : stored[k] \in Collected(rp)
  BY <1>3
<1> HIDE DEF IdAt
<1> QED
  BY <1>4, <1>5, <1>6, <1>7

(* getAssertion                                                             *)
LEMMA GetAssertionKeeps ==
    ASSUME IInv, Idle, NEW rp \in Rps, NEW allow \in AllowLists, GetAssertion(rp, allow)
    PROVE  IInv'
<1> USE BoundsAreNat, MaxIsPositive
<1> DEFINE stateless == FirstStateless(allow, rp)
           matches == IF stateless = {} THEN Matches(allow, rp) ELSE {}
<1>1. PICK stored \in Ascending(matches) :
        /\ chain' = stored
        /\ \/ NoAnswer
           \/ \E k \in stateless, up \in BOOLEAN :
                 /\ SignStateless(allow[k], rp, up, up)
                 /\ next' = 0 /\ fresh' = FALSE /\ due' = {}
                 /\ UNCHANGED hash
           \/ \E up \in BOOLEAN :
                 /\ stored # <<>>
                 /\ SignStored("direct", stored[1], up, up)
                 /\ next' = 1
                 /\ hash' = [rp |-> rp, pressed |-> up]
                 /\ fresh' = TRUE
                 /\ due' = Owed(allow, rp, IdAt(stored[1]))
                 /\ UNCHANGED gctr
        /\ UNCHANGED <<wrapped, secret, issued, seen, removed>>
  BY DEF GetAssertion
<1>2. Len(recs) \in Nat /\ Len(recs) <= kMaxCredentials /\ matches \in SUBSET (1 .. Len(recs))
  BY RecordTypes DEF IInv, TypeOK, Matches, Collected, Indexes
<1>3. /\ stored \in Seq(matches) /\ Len(stored) <= Len(recs) /\ Len(stored) = Cardinality(matches)
      /\ \A j, k \in 1 .. Len(stored) : j < k => stored[j] < stored[k]
  <2> HIDE DEF matches
  <2> QED
    BY <1>2, AscendingList
<1>4. Len(stored) \in Nat /\ \A k \in 1 .. Len(stored) : stored[k] \in matches /\ stored[k] \in Indexes
  BY <1>2, <1>3, LenProperties, ElementOfSeq DEF Indexes
<1>5. chain' \in Seq(1 .. kMaxCredentials) /\ Len(chain') <= kMaxCredentials
  <2>1. \A i \in matches : i \in 1 .. kMaxCredentials
    BY <1>2
  <2>2. stored \in [1 .. Len(stored) -> 1 .. kMaxCredentials]
    BY <1>3, <1>4, <2>1, LenProperties
  <2> HIDE DEF matches, stateless
  <2> QED
    BY <1>1, <1>2, <1>3, <1>4, <2>2
<1>9. Len(chain') \in Nat
  BY <1>1, <1>4
<1> HIDE DEF matches
<1>6. CASE NoAnswer
  <2>1. UNCHANGED <<recs, wrapped, secret, gctr, issued, seen, removed, tx, hash>>
    BY <1>1, <1>6 DEF NoAnswer
  <2>2. next' = 0 /\ fresh' = FALSE /\ due' = {}
    BY <1>6 DEF NoAnswer, NextReset
  <2>3. TypeOK'
    <3>1. next' \in 0 .. Len(chain')
      BY <1>9, <2>2
    <3>2. due' \in SUBSET Ids
      BY <1>9, <2>2
    <3>3. fresh' \in BOOLEAN
      BY <1>9, <2>2
    <3> QED
      BY <1>5, <2>1, <3>1, <3>2, <3>3 DEF IInv, TypeOK
  <2> QED
    BY <2>1, <2>2, <2>3, StoreStays DEF IInv, Walk
<1>7. ASSUME NEW k \in stateless, NEW up \in BOOLEAN, SignStateless(allow[k], rp, up, up),
             next' = 0, fresh' = FALSE, due' = {}, UNCHANGED hash
      PROVE  IInv'
  <2>1. allow[k] \in Ids /\ IsStateless(allow[k], rp)
    BY AllowListIs DEF FirstStateless
  <2>2. /\ gctr' \in 0 .. MaxCounter /\ recs' = recs
        /\ tx' \in SUBSET Answers /\ Cardinality(tx') <= 1
        /\ Generated' /\ Distinct' /\ Alive' /\ Covered'
    BY <1>1, <1>7, <2>1, SignStatelessKeeps
  <2>3. TypeOK'
    <3>1. next' \in 0 .. Len(chain')
      BY <1>7, <1>9
    <3>2. due' \in SUBSET Ids
      BY <1>7, <1>9
    <3>3. fresh' \in BOOLEAN
      BY <1>7, <1>9
    <3> QED
      BY <1>1, <1>5, <1>7, <2>2, <3>1, <3>2, <3>3 DEF IInv, TypeOK
  <2> QED
    BY <1>7, <2>2, <2>3 DEF IInv, Walk
<1>8. ASSUME NEW up \in BOOLEAN, stored # <<>>, SignStored("direct", stored[1], up, up), next' = 1,
             hash' = [rp |-> rp, pressed |-> up], fresh' = TRUE,
             due' = Owed(allow, rp, IdAt(stored[1])), UNCHANGED gctr
      PROVE  IInv'
  <2>1. Len(stored) \in Nat \ {0} /\ 1 \in 1 .. Len(stored) /\ stored[1] \in Indexes
    BY <1>3, <1>4, <1>8, EmptySeq
  <2>2. /\ recs' \in Seq(Records) /\ Len(recs') = Len(recs)
        /\ \A j \in Indexes : /\ recs'[j].id = recs[j].id /\ recs'[j].rp = recs[j].rp
                               /\ recs'[j].resident = recs[j].resident
        /\ tx' \in SUBSET Answers /\ Cardinality(tx') <= 1
        /\ Generated' /\ Distinct' /\ Alive' /\ Covered'
    BY <1>1, <1>8, <2>1, SignStoredKeeps
  <2>3. Indexes' = Indexes /\ Left' = 2 .. Len(stored) /\ \A i \in Indexes : IdAt(i)' = IdAt(i)
    BY <1>1, <1>8, <2>2 DEF Indexes, Left, IdAt
  <2>4. Owed(allow, rp, IdAt(stored[1])) \in SUBSET Ids
    BY RecordTypes DEF IInv, Owed, IdAt
  <2>5. TypeOK'
    <3>1. hash' \in Hashes
      BY <1>8 DEF Hashes
    <3>2. due' \in SUBSET Ids /\ next' \in 0 .. Len(chain') /\ fresh' \in BOOLEAN
      BY <1>1, <1>8, <2>1, <2>4
    <3> QED
      BY <1>1, <1>2, <1>5, <1>8, <2>2, <3>1, <3>2 DEF IInv, TypeOK
  <2>6. Listed'
    <3>1. CASE allow = <<>>
      <4>1. matches = Collected(rp)
        <5>1. Len(allow) = 0
          BY <3>1
        <5>2. stateless = {}
          BY <5>1 DEF FirstStateless
        <5> QED
          BY <3>1, <5>2 DEF matches, Matches
      <4>2. due' = {IdAt(stored[k]) : k \in 2 .. Len(stored)}
        BY <1>8, <3>1, <4>1, OwedIsChain
      <4>3. \A k \in 2 .. Len(stored) :
               /\ stored[k] \in Indexes /\ recs[stored[k]].rp = rp /\ recs[stored[k]].resident
        BY <1>4, <4>1 DEF Collected
      <4>4. due' = {IdAt(chain[k])' : k \in 2 .. Len(stored)}
        <5>1. \A k \in 2 .. Len(stored) : IdAt(chain[k])' = IdAt(stored[k])
          BY <1>1, <2>2, <4>3 DEF IdAt
        <5> QED
          BY <4>2, <5>1
      <4>5. \A k \in 2 .. Len(stored) : recs'[stored[k]].rp = hash'.rp /\ recs'[stored[k]].resident
        BY <1>8, <2>2, <4>3
      <4> QED
        <5>1. \A j, k \in 2 .. Len(stored) : j < k => stored[j] < stored[k]
          BY <1>3, <1>4
        <5> QED
          BY <1>1, <2>3, <4>3, <4>4, <4>5, <5>1 DEF Listed
    <3>2. CASE allow # <<>>
      <4>1. \A k \in 2 .. Len(stored) : FALSE
        <5> TAKE k \in 2 .. Len(stored)
        <5>1. 1 < k /\ k \in 1 .. Len(stored) /\ stored[1] < stored[k]
          BY <1>3, <1>4, <2>1
        <5>2. stored[1] \in matches /\ stored[k] \in matches
          BY <1>4, <2>1, <5>1
        <5>3. stored[1] \in Matches(allow, rp) /\ stored[k] \in Matches(allow, rp)
          BY <5>2 DEF matches
        <5>4. stored[1] = stored[k]
          BY <3>2, <5>3, OneMatch
        <5> QED
          <6>1. stored[1] \in Nat /\ stored[k] \in Nat
            <7>1. \A i \in matches : i \in Nat
              BY <1>2
            <7> QED
              BY <5>2, <7>1
          <6> QED
            BY <5>1, <5>4, <6>1
      <4>2. due' = {}
        BY <1>8, <3>2 DEF Owed
      <4> QED
        BY <2>3, <4>1, <4>2 DEF Listed
    <3> QED
      BY <3>1, <3>2
  <2> QED
    BY <2>2, <2>5, <2>6 DEF IInv, Walk
<1> QED
  BY <1>1, <1>6, <1>7, <1>8

(* getNextAssertion                                                         *)
LEMMA GetNextAssertionKeeps == ASSUME IInv, Idle, GetNextAssertion PROVE IInv'
<1> DEFINE i == chain[next + 1]
<1>1. /\ next \in Nat /\ Len(chain) \in Nat /\ next < Len(chain) /\ next' = next + 1
      /\ UNCHANGED <<wrapped, secret, gctr, issued, chain, hash, seen, removed, fresh>>
  BY LenProperties DEF IInv, TypeOK, GetNextAssertion
<1>2. next' \in 0 .. Len(chain') /\ Left = Left' \cup {next + 1} /\ \A k \in Left' : next + 1 < k
  BY <1>1 DEF Left
<1>3. CASE i \in Indexes
  <2>1. SignStored("next", i, TRUE, hash.pressed) /\ due' = due \ {IdAt(i)}
    BY <1>3 DEF GetNextAssertion
  <2>2. hash.pressed \in BOOLEAN
    BY DEF IInv, TypeOK, Hashes
  <2> HIDE DEF i
  <2>3. /\ recs' \in Seq(Records) /\ Len(recs') = Len(recs)
        /\ \A j \in Indexes : /\ recs'[j].id = recs[j].id /\ recs'[j].rp = recs[j].rp
                               /\ recs'[j].resident = recs[j].resident
        /\ tx' \in SUBSET Answers /\ Cardinality(tx') <= 1
        /\ Generated' /\ Distinct' /\ Alive' /\ Covered'
    BY <1>1, <1>3, <2>1, <2>2, SignStoredKeeps
  <2>4. Indexes' = Indexes
    BY <2>3 DEF Indexes
  <2>5. TypeOK'
    BY <1>1, <1>2, <2>1, <2>3 DEF IInv, TypeOK
  <2>6. ASSUME fresh PROVE Listed'
    <3>1. Listed
      BY <2>6 DEF IInv, Walk
    <3>2. \A k \in Left' : i < chain[k]
      BY <1>1, <1>2, <3>1 DEF Listed, i
    <3>3. \A k \in Left : chain[k] \in 1 .. Len(recs)
      BY <3>1 DEF Listed, Indexes
    <3>4. \A k \in Left' : chain[k] # i
      BY <1>2, <1>3, <3>2, <3>3, RecordTypes DEF IInv, Indexes
    <3>5. \A k \in Left' : IdAt(chain[k]) # IdAt(i)
      BY <1>2, <1>3, <3>1, <3>4 DEF Listed, IInv, Distinct, IdAt
    <3>6. due = {IdAt(chain[k]) : k \in Left' \cup {next + 1}}
      BY <1>2, <3>1 DEF Listed
    <3>7. due' = {IdAt(chain[k]) : k \in Left'}
      BY <2>1, <3>5, <3>6 DEF i
    <3>8. \A k \in Left' : IdAt(chain[k])' = IdAt(chain[k])
      BY <1>1, <1>2, <2>3, <3>1 DEF Listed, IdAt
    <3>9. due' = {IdAt(chain[k])' : k \in Left'}
      BY <3>7, <3>8
    <3> QED
      BY <1>1, <1>2, <2>3, <2>4, <3>1, <3>9 DEF Listed
  <2> QED
    BY <1>1, <2>3, <2>5, <2>6 DEF IInv, Walk
<1>4. CASE i \notin Indexes
  <2>1. UNCHANGED <<recs, tx, due>>
    BY <1>4 DEF GetNextAssertion
  <2>2. ~fresh
    BY <1>2, <1>4 DEF IInv, Walk, Listed
  <2>3. TypeOK'
    BY <1>1, <1>2, <2>1 DEF IInv, TypeOK
  <2> HIDE DEF i
  <2> QED
    BY <1>1, <2>1, <2>2, <2>3, StoreStays DEF IInv, Walk
<1> QED
  BY <1>3, <1>4

(* U2F authenticate                                                         *)
LEMMA U2fAuthenticateKeeps ==
    ASSUME IInv, Idle, NEW rp \in Rps, NEW id \in Ids, NEW pressed \in BOOLEAN,
           U2fAuthenticate(rp, id, pressed)
    PROVE  IInv'
<1>1. PICK i \in Indexes : SignStored("u2f", i, TRUE, pressed)
  BY DEF U2fAuthenticate, StoredFor, IndexOf
<1>2. UNCHANGED <<wrapped, secret, gctr, issued, chain, next, hash, seen, removed, fresh, due>>
  BY DEF U2fAuthenticate, ram
<1>3. /\ recs' \in Seq(Records) /\ Len(recs') = Len(recs)
      /\ \A j \in Indexes : /\ recs'[j].id = recs[j].id /\ recs'[j].rp = recs[j].rp
                             /\ recs'[j].resident = recs[j].resident
      /\ tx' \in SUBSET Answers /\ Cardinality(tx') <= 1
      /\ Generated' /\ Distinct' /\ Alive' /\ Covered'
  BY <1>1, <1>2, SignStoredKeeps
<1>4. Walk'
  BY <1>2, <1>3, WalkStays, RecordTypes DEF IInv
<1>5. TypeOK'
  BY <1>2, <1>3 DEF IInv, TypeOK
<1> QED
  BY <1>3, <1>4, <1>5 DEF IInv

-----------------------------------------------------------------------------
(* Removal, the answer, and power loss.                                     *)

(* The records behind the hole move down; the id of the hole is gone.       *)
LEMMA DeleteKeeps == ASSUME IInv, Idle, NEW id \in Ids, Delete(id) PROVE IInv'
<1> USE MaxIsPositive
<1>1. PICK h \in Indexes : recs[h].id = id /\ recs' = RemoveAt(recs, h)
  BY DEF Delete, IndexOf
<1>2. /\ UNCHANGED <<wrapped, secret, gctr, issued, chain, next, hash, tx, seen>>
      /\ removed' = removed \cup {id} /\ fresh' = FALSE /\ due' = {} /\ tx = {}
  BY DEF Delete, ram, Idle
<1>3. /\ recs' \in Seq(Records) /\ Len(recs') = Len(recs) - 1
      /\ \A j \in 1 .. Len(recs) - 1 : recs'[j] = IF j < h THEN recs[j] ELSE recs[j + 1]
  BY <1>1, RemoveAtIs DEF IInv, TypeOK, Indexes
<1>4. Len(recs) \in Nat /\ Indexes' = 1 .. Len(recs) - 1 /\ h \in 1 .. Len(recs)
  BY <1>3, RecordTypes DEF IInv, Indexes
<1>5. ASSUME NEW j \in Indexes'
      PROVE  \E k \in Indexes : /\ recs'[j] = recs[k] /\ k # h
                                /\ (j < h /\ k = j) \/ (~ (j < h) /\ k = j + 1)
  <2>1. CASE j < h
    BY <1>3, <1>4, <2>1 DEF Indexes
  <2>2. CASE ~ (j < h)
    <3>1. j + 1 \in 1 .. Len(recs) /\ j + 1 # h
      BY <1>4, <2>2
    <3> QED
      BY <1>3, <1>4, <2>2, <3>1 DEF Indexes
  <2> QED
    BY <2>1, <2>2
<1>6. TypeOK'
  <2>1. Len(recs') <= kMaxCredentials
    BY <1>3, <1>4 DEF IInv, TypeOK
  <2>2. due' \in SUBSET Ids /\ removed' \in SUBSET Ids
    BY <1>2 DEF IInv, TypeOK
  <2>3. fresh' \in BOOLEAN
    BY <1>2
  <2> QED
    BY <1>2, <1>3, <2>1, <2>2, <2>3 DEF IInv, TypeOK
<1>7. Generated'
  <2>1. id <= issued
    BY <1>1 DEF IInv, Generated
  <2> QED
    BY <1>2, <1>5, <2>1 DEF IInv, Generated
<1>8. Distinct'
  <2>1. ASSUME NEW j \in Indexes', NEW l \in Indexes', recs'[j].id = recs'[l].id PROVE j = l
    <3>1. PICK k \in Indexes : recs'[j] = recs[k] /\ ((j < h /\ k = j) \/ (~ (j < h) /\ k = j + 1))
      BY <1>5
    <3>2. PICK m \in Indexes : recs'[l] = recs[m] /\ ((l < h /\ m = l) \/ (~ (l < h) /\ m = l + 1))
      BY <1>5
    <3>3. k = m
      BY <2>1, <3>1, <3>2 DEF IInv, Distinct
    <3> QED
      BY <1>4, <3>1, <3>2, <3>3
  <2> QED
    BY <1>2, <1>5, <2>1 DEF IInv, Distinct
<1>9. Alive'
  <2>1. \A k \in Indexes : k # h => recs[k].id # id
    BY <1>1 DEF IInv, Distinct
  <2>2. \A w \in wrapped : w.id # id
    BY <1>1 DEF IInv, Distinct
  <2> QED
    BY <1>2, <1>5, <2>1, <2>2 DEF IInv, Alive, RemovedNeverSigns
<1>10. Covered'
  BY <1>2, <1>5 DEF IInv, Covered, CounterAdvances
<1> QED
  BY <1>2, <1>6, <1>7, <1>8, <1>9, <1>10 DEF IInv, Walk

(* After a reset no credential is under the new secret.                     *)
LEMMA WipeKeeps == ASSUME IInv, Idle, Wipe PROVE IInv'
<1> USE MaxIsPositive, BoundsAreNat
<1>1. /\ UNCHANGED <<wrapped, issued, chain, next, hash, tx, seen>> /\ tx = {}
      /\ recs' = <<>> /\ secret' = secret + 1 /\ secret < MaxWipes /\ gctr' = 0
      /\ removed' = Known /\ fresh' = FALSE /\ due' = {}
  BY DEF Wipe, ram, Idle
<1>2. recs' \in Seq(Records) /\ Len(recs') = 0 /\ Indexes' = {}
  BY <1>1 DEF Indexes
<1>3. secret \in Nat /\ issued \in Nat /\ issued <= MaxIds
  BY DEF IInv, TypeOK
<1>4. \A w \in wrapped' : w.id <= issued /\ w.secret <= secret /\ w.secret \in Nat
  BY <1>1 DEF IInv, Generated, TypeOK
<1>5. \A w \in wrapped' : w.secret # secret' /\ w.secret <= secret'
  BY <1>1, <1>3, <1>4
<1>6. TypeOK'
  <2>1. due' \in SUBSET Ids /\ removed' \in SUBSET Ids
    BY <1>1, <1>3 DEF Known, Ids
  <2>2. fresh' \in BOOLEAN
    BY <1>1
  <2>3. secret' \in 0 .. MaxWipes /\ gctr' \in 0 .. MaxCounter
    BY <1>1, <1>3
  <2>4. Len(recs') <= kMaxCredentials
    BY <1>2
  <2> QED
    BY <1>1, <1>2, <2>1, <2>2, <2>3, <2>4 DEF IInv, TypeOK
<1>7. Generated'
  BY <1>1, <1>2, <1>3, <1>4, <1>5 DEF IInv, Generated, Known
<1>8. Distinct' /\ Alive' /\ Covered'
  BY <1>1, <1>2, <1>5 DEF Distinct, Alive, RemovedNeverSigns, Covered, CounterAdvances
<1> QED
  BY <1>1, <1>6, <1>7, <1>8 DEF IInv, Walk

(* What the host is shown is what was stored.                               *)
LEMMA SendKeeps == ASSUME IInv, Send PROVE IInv'
<1>1. PICK m \in tx : seen' = [seen EXCEPT ![m.id] = IF m.up THEN m.ctr ELSE @]
  BY DEF Send
<1>2. UNCHANGED <<recs, wrapped, secret, gctr, issued, chain, next, hash, removed, fresh, due>> /\ tx' = {}
  BY DEF Send, ram
<1>3. /\ m.id \in Ids /\ m.ctr \in 0 .. MaxCounter /\ m.up \in BOOLEAN /\ m.id <= issued
      /\ \A i \in Indexes : recs[i].id = m.id => m.ctr <= recs[i].ctr
      /\ \A w \in wrapped : (w.secret = secret /\ w.id = m.id) => m.ctr <= gctr
  BY DEF IInv, TypeOK, Answers, Generated, Covered
<1>4. /\ seen' \in [Ids -> 0 .. MaxCounter]
      /\ \A id \in Ids : seen'[id] = IF id = m.id /\ m.up THEN m.ctr ELSE seen[id]
  BY <1>1, <1>3 DEF IInv, TypeOK
<1>5. Indexes' = Indexes
  BY <1>2 DEF Indexes
<1>6. TypeOK'
  <2>1. tx' \in SUBSET Answers /\ Cardinality(tx') <= 1
    BY <1>2, FS_EmptySet
  <2> QED
    BY <1>2, <1>4, <2>1 DEF IInv, TypeOK
<1>7. issued \in Nat /\ Ids \subseteq Nat
  BY BoundsAreNat DEF IInv, TypeOK, Ids
<1>8. Generated'
  <2>1. \A id \in Ids : id > issued => id # m.id
    BY <1>3, <1>7
  <2>2. \A id \in Ids : id > issued => seen'[id] = 0
    BY <1>4, <2>1 DEF IInv, Generated
  <2> QED
    BY <1>2, <1>5, <2>2 DEF IInv, Generated
<1>9. Distinct' /\ Alive'
  BY <1>2, <1>5 DEF IInv, Distinct, Alive, RemovedNeverSigns
<1>10. Covered'
  <2>1. \A i \in Indexes : seen'[recs[i].id] <= recs[i].ctr
    BY <1>3, <1>4, RecordTypes DEF IInv, Covered
  <2>2. \A w \in wrapped : w.secret = secret => seen'[w.id] <= gctr
    BY <1>3, <1>4 DEF IInv, TypeOK, Covered
  <2> QED
    BY <1>2, <1>5, <2>1, <2>2 DEF Covered, CounterAdvances
<1>11. Walk'
  BY <1>2, WalkStays, RecordTypes DEF IInv
<1> QED
  BY <1>6, <1>8, <1>9, <1>10, <1>11 DEF IInv

(* Power loss takes the answer and the chain.                               *)
LEMMA CrashKeeps == ASSUME IInv, Crash PROVE IInv'
<1>1. /\ UNCHANGED <<recs, wrapped, secret, gctr, issued, seen, removed>>
      /\ chain' = <<>> /\ next' = 0 /\ hash' = [rp |-> NoRp, pressed |-> FALSE]
      /\ tx' = {} /\ fresh' = FALSE /\ due' = {}
  BY DEF Crash
<1>2. TypeOK'
  <2>1. hash' \in Hashes
    BY <1>1 DEF Hashes
  <2>2. chain' \in Seq(1 .. kMaxCredentials) /\ Len(chain') = 0
    BY <1>1
  <2>3. Len(chain') <= kMaxCredentials /\ next' \in 0 .. Len(chain')
    BY <1>1, <2>2, MaxIsPositive
  <2>4. tx' \in SUBSET Answers /\ Cardinality(tx') <= 1
    BY <1>1, FS_EmptySet
  <2>5. due' \in SUBSET Ids
    BY <1>1
  <2>6. fresh' \in BOOLEAN
    BY <1>1
  <2> QED
    BY <1>1, <2>1, <2>2, <2>3, <2>4, <2>5, <2>6 DEF IInv, TypeOK
<1> QED
  BY <1>1, <1>2, StoreStays DEF IInv, Walk

-----------------------------------------------------------------------------
(* Every step preserves the invariant.                                      *)
LEMMA StepIInv == IInv /\ [Next]_vars => IInv'
<1> SUFFICES ASSUME IInv, [Next]_vars PROVE IInv'
  OBVIOUS
<1>1. ASSUME Idle, NEW rp \in Rps, NEW rk \in BOOLEAN, NEW exclude \in Excludes,
             MakeCredential(rp, rk, exclude)
      PROVE  IInv'
  <2>1. /\ issued < MaxIds /\ issued' = issued + 1
        /\ UNCHANGED <<secret, gctr, ram, tx, seen, removed, fresh, due>>
    BY <1>1 DEF MakeCredential
  <2>2. CASE rk
    BY <1>1, <2>1, <2>2, StoredKeeps DEF MakeCredential
  <2>3. CASE ~rk
    BY <1>1, <2>1, <2>3, WrappedKeeps DEF MakeCredential
  <2> QED
    BY <2>2, <2>3
<1>2. ASSUME Idle, NEW rp \in Rps, U2fRegister(rp) PROVE IInv'
  BY <1>2, StoredKeeps DEF U2fRegister
<1>3. ASSUME Idle, NEW rp \in Rps, NEW allow \in AllowLists, GetAssertion(rp, allow) PROVE IInv'
  BY <1>3, GetAssertionKeeps
<1>4. ASSUME Idle, NEW rp \in Rps, NEW id \in Ids, NEW pressed \in BOOLEAN,
             U2fAuthenticate(rp, id, pressed)
      PROVE  IInv'
  BY <1>4, U2fAuthenticateKeeps
<1>5. ASSUME Idle, GetNextAssertion PROVE IInv'
  BY <1>5, GetNextAssertionKeeps
<1>6. ASSUME Idle, NEW id \in Ids, Delete(id) PROVE IInv'
  BY <1>6, DeleteKeeps
<1>7. ASSUME Idle, Wipe PROVE IInv'
  BY <1>7, WipeKeeps
<1>8. CASE Send
  BY <1>8, SendKeeps
<1>9. CASE Crash
  BY <1>9, CrashKeeps
<1>10. CASE UNCHANGED vars
  <2>1. UNCHANGED <<recs, wrapped, secret, gctr, issued, chain, next, hash, tx, seen, removed, fresh, due>>
    BY <1>10 DEF vars
  <2>2. TypeOK'
    BY <2>1 DEF IInv, TypeOK
  <2>3. Walk'
    BY <2>1, WalkStays, RecordTypes DEF IInv
  <2> QED
    BY <2>1, <2>2, <2>3, StoreStays DEF IInv
<1> QED
  BY <1>1, <1>2, <1>3, <1>4, <1>5, <1>6, <1>7, <1>8, <1>9, <1>10 DEF Next, Command

(* The invariant, from which the properties follow.                         *)
LEMMA SessionIInv == Spec => []IInv
BY InitIInv, StepIInv, PTL DEF Spec

(* The variables of the session keep their types and limits.                *)
THEOREM SessionTypeOK == Spec => []TypeOK
<1>1. IInv => TypeOK
  BY DEF IInv
<1> QED
  BY <1>1, SessionIInv, PTL

(* The count of an answer is above every count shown for its credential,    *)
(* whichever command produced it and whatever answers were lost.            *)
THEOREM SessionCounterAdvances == Spec => []CounterAdvances
<1>1. IInv => CounterAdvances
  BY DEF IInv, Covered
<1> QED
  BY <1>1, SessionIInv, PTL

(* A deleted or wiped credential never signs, not through a stale chain, an *)
(* id the host kept, or an index that stands for another record by now.     *)
THEOREM SessionRemovedNeverSigns == Spec => []RemovedNeverSigns
<1>1. IInv => RemovedNeverSigns
  BY DEF IInv, Alive
<1> QED
  BY <1>1, SessionIInv, PTL

(* While nothing is removed, the rest of the chain is what the host is      *)
(* still owed, one answer for each credential.                              *)
THEOREM SessionNextAnswersTheRest == Spec => []NextAnswersTheRest
<1>1. IInv => NextAnswersTheRest
  <2> SUFFICES ASSUME IInv, fresh
               PROVE  LET rest == {chain[k] : k \in next + 1 .. Len(chain)} IN
                         /\ rest \subseteq Indexes
                         /\ due = {IdAt(i) : i \in rest}
                         /\ Cardinality(due) = Len(chain) - next
                         /\ \A i \in rest : recs[i].rp = hash.rp /\ recs[i].resident
    BY DEF NextAnswersTheRest
  <2>1. Listed
    BY DEF IInv, Walk
  <2>2. next \in Nat /\ Len(chain) \in Nat /\ next <= Len(chain)
    BY LenProperties DEF IInv, TypeOK
  <2>3. \A j, k \in Left : IdAt(chain[j]) = IdAt(chain[k]) => j = k
    <3> SUFFICES ASSUME NEW j \in Left, NEW k \in Left, IdAt(chain[j]) = IdAt(chain[k]) PROVE j = k
      OBVIOUS
    <3>1. chain[j] = chain[k] /\ chain[j] \in 1 .. Len(recs)
      BY <2>1 DEF Listed, IdAt, IInv, Distinct, Indexes
    <3>2. ~ (j < k) /\ ~ (k < j)
      BY <2>1, <3>1, RecordTypes DEF Listed, IInv
    <3> QED
      BY <2>2, <3>2 DEF Left
  <2>4. Cardinality(due) = Len(chain) - next
    <3> DEFINE f == [k \in Left |-> IdAt(chain[k])]
    <3>1. IsFiniteSet(Left) /\ Cardinality(Left) = Len(chain) - next
      <4>1. next + 1 \in Int /\ Len(chain) \in Int
        BY <2>2
      <4>2. /\ IsFiniteSet(next + 1 .. Len(chain))
            /\ Cardinality(next + 1 .. Len(chain)) =
                  IF next + 1 > Len(chain) THEN 0 ELSE Len(chain) - (next + 1) + 1
        BY <4>1, FS_Interval
      <4> QED
        BY <2>2, <4>2 DEF Left
    <3>2. f \in Surjection(Left, due)
      BY <2>1 DEF Listed, Surjection
    <3>3. f \in Injection(Left, due)
      BY <2>1, <2>3 DEF Listed, Injection, IsInjective
    <3> HIDE DEF f
    <3> QED
      BY <3>1, <3>2, <3>3, FS_Surjection
  <2> QED
    BY <2>1, <2>4 DEF Listed, Left
<1> QED
  BY <1>1, SessionIInv, PTL

-----------------------------------------------------------------------------
(* The map of credentials.  A record keeps the relying party of its         *)
(* credential, which stands for all that an operation does not change.      *)

Slot(store, id) == CHOOSE i \in DOMAIN store : store[i].id = id
CredsOf(store) ==
    [id \in {store[i].id : i \in DOMAIN store} |->
        [user |-> store[Slot(store, id)].rp, ctr |-> store[Slot(store, id)].ctr]]
OneEach(store) == \A i, j \in DOMAIN store : store[i].id = store[j].id => i = j

Map == INSTANCE CredentialMap WITH
    CredIds <- Ids, Users <- Rps, creds <- CredsOf(recs), intact <- TRUE

Shows(creds, store) ==
    /\ \A x : x \in DOMAIN creds <=> \E i \in DOMAIN store : x = store[i].id
    /\ \A i \in DOMAIN store : creds[store[i].id] = [user |-> store[i].rp, ctr |-> store[i].ctr]
    /\ creds = [x \in DOMAIN creds |-> creds[x]]

LEMMA CredsAre ==
    ASSUME NEW store, OneEach(store)
    PROVE  Shows(CredsOf(store), store)
<1>1. ASSUME NEW i \in DOMAIN store PROVE Slot(store, store[i].id) = i
  BY <1>1 DEF Slot, OneEach
<1> QED
  BY <1>1 DEF CredsOf, Shows

Added(new, old, rec) ==
    /\ rec.id \notin DOMAIN old
    /\ new = [x \in DOMAIN old \cup {rec.id} |->
                 IF x = rec.id THEN [user |-> rec.rp, ctr |-> rec.ctr] ELSE old[x]]

LEMMA RegisterShows ==
    ASSUME NEW store \in Seq(Records), NEW rec \in Records, NEW more, more = Append(store, rec),
           OneEach(store), OneEach(more), \A i \in DOMAIN store : store[i].id # rec.id
    PROVE  Added(CredsOf(more), CredsOf(store), rec)
<1>1. /\ Len(store) \in Nat /\ DOMAIN store = 1 .. Len(store)
      /\ DOMAIN more = 1 .. Len(store) + 1
      /\ \A i \in 1 .. Len(store) : more[i] = store[i]
      /\ more[Len(store) + 1] = rec
  BY AppendProperties, LenProperties
<1>2. \A i : i \in 1 .. Len(store) + 1 <=> i \in 1 .. Len(store) \/ i = Len(store) + 1
  BY <1>1
<1> DEFINE old == CredsOf(store)
           new == CredsOf(more)
<1>0. Shows(old, store) /\ Shows(new, more)
  BY CredsAre
<1> HIDE DEF old, new
<1>3. rec.id \notin DOMAIN old
  BY <1>0 DEF Shows
<1>4. DOMAIN new = DOMAIN old \cup {rec.id}
  <2>1. \A x : x \in DOMAIN new <=> x \in DOMAIN old \/ x = rec.id
    BY <1>0, <1>1, <1>2 DEF Shows
  <2> QED
    BY <2>1
<1>5. new[rec.id] = [user |-> rec.rp, ctr |-> rec.ctr]
  <2>1. PICK i \in DOMAIN more : i = Len(store) + 1
    BY <1>1
  <2>2. more[i] = rec
    BY <1>1, <2>1
  <2>3. new[more[i].id] = [user |-> more[i].rp, ctr |-> more[i].ctr]
    BY <1>0 DEF Shows
  <2> QED
    BY <2>2, <2>3
<1>6. ASSUME NEW x \in DOMAIN old PROVE new[x] = old[x]
  <2>1. PICK i \in DOMAIN store : x = store[i].id
    BY <1>0 DEF Shows
  <2>2. i \in DOMAIN more /\ more[i] = store[i]
    BY <1>1, <1>2
  <2>3. old[x] = [user |-> store[i].rp, ctr |-> store[i].ctr]
    BY <1>0, <2>1 DEF Shows
  <2>4. new[x] = [user |-> more[i].rp, ctr |-> more[i].ctr]
    BY <1>0, <2>1, <2>2 DEF Shows
  <2> QED
    BY <2>2, <2>3, <2>4
<1>7. new = [x \in DOMAIN old \cup {rec.id} |->
                IF x = rec.id THEN [user |-> rec.rp, ctr |-> rec.ctr] ELSE old[x]]
  <2>1. \A x \in DOMAIN new : new[x] = IF x = rec.id THEN [user |-> rec.rp, ctr |-> rec.ctr] ELSE old[x]
    BY <1>4, <1>5, <1>6
  <2> QED
    BY <1>0, <1>4, <2>1 DEF Shows
<1> QED
  BY <1>3, <1>7 DEF Added, old, new

LEMMA CountShows ==
    ASSUME NEW store \in Seq(Records), NEW i \in DOMAIN store, NEW more,
           more = [store EXCEPT ![i].ctr = store[i].ctr + 1], OneEach(store)
    PROVE  /\ store[i].id \in DOMAIN CredsOf(store)
           /\ CredsOf(more) = [CredsOf(store) EXCEPT ![store[i].id].ctr = @ + 1]
<1>1. DOMAIN more = DOMAIN store /\ \A j \in DOMAIN store : store[j] \in Records
  BY LenProperties, ElementOfSeq
<1>2. \A j \in DOMAIN store : /\ more[j].id = store[j].id /\ more[j].rp = store[j].rp
                             /\ more[j].ctr = IF j = i THEN store[j].ctr + 1 ELSE store[j].ctr
  BY <1>1 DEF Records
<1>3. OneEach(more)
  BY <1>1, <1>2 DEF OneEach
<1> DEFINE old == CredsOf(store)
           new == CredsOf(more)
           counted == [old EXCEPT ![store[i].id].ctr = @ + 1]
<1>0. Shows(old, store) /\ Shows(new, more)
  BY <1>3, CredsAre
<1> HIDE DEF old, new
<1>4. store[i].id \in DOMAIN old
  BY <1>0 DEF Shows
<1>5. DOMAIN new = DOMAIN old
  <2>1. \A x : x \in DOMAIN new <=> x \in DOMAIN old
    BY <1>0, <1>1, <1>2 DEF Shows
  <2> QED
    BY <2>1
<1>6. DOMAIN counted = DOMAIN old /\ counted = [x \in DOMAIN old |-> counted[x]]
  OBVIOUS
<1>7. ASSUME NEW x \in DOMAIN old PROVE new[x] = counted[x]
  <2>1. PICK j \in DOMAIN store : x = store[j].id
    BY <1>0 DEF Shows
  <2>2. old[x] = [user |-> store[j].rp, ctr |-> store[j].ctr]
    BY <1>0, <2>1 DEF Shows
  <2>3. new[x] = [user |-> store[j].rp, ctr |-> more[j].ctr]
    BY <1>0, <1>1, <1>2, <2>1 DEF Shows
  <2>4. x = store[i].id <=> j = i
    BY <2>1 DEF OneEach
  <2>5. CASE j = i
    <3>1. more[j].ctr = store[j].ctr + 1 /\ x = store[i].id
      BY <1>2, <2>4, <2>5
    <3>2. counted[x] = [old[x] EXCEPT !.ctr = @ + 1]
      BY <3>1
    <3>3. [old[x] EXCEPT !.ctr = @ + 1] = [user |-> store[j].rp, ctr |-> store[j].ctr + 1]
      BY <2>2
    <3> QED
      BY <2>3, <3>1, <3>2, <3>3
  <2>6. CASE j # i
    <3>1. more[j].ctr = store[j].ctr /\ counted[x] = old[x]
      BY <1>2, <2>4, <2>6
    <3> QED
      BY <2>2, <2>3, <3>1
  <2> QED
    BY <2>5, <2>6
<1>8. new = counted
  <2> HIDE DEF counted
  <2> QED
    BY <1>0, <1>5, <1>6, <1>7 DEF Shows
<1> QED
  BY <1>4, <1>8 DEF old, new

LEMMA RemoveShows ==
    ASSUME NEW store \in Seq(Records), NEW i \in 1 .. Len(store), NEW less, less = RemoveAt(store, i),
           OneEach(store)
    PROVE  /\ store[i].id \in DOMAIN CredsOf(store)
           /\ CredsOf(less) = [x \in DOMAIN CredsOf(store) \ {store[i].id} |-> CredsOf(store)[x]]
<1>1. /\ Len(store) \in Nat /\ DOMAIN store = 1 .. Len(store)
      /\ DOMAIN less = 1 .. Len(store) - 1
      /\ \A j \in 1 .. Len(store) - 1 : less[j] = IF j < i THEN store[j] ELSE store[j + 1]
  <2>1. /\ less \in Seq(Records) /\ Len(less) = Len(store) - 1
        /\ \A j \in 1 .. Len(store) - 1 : less[j] = IF j < i THEN store[j] ELSE store[j + 1]
    BY RemoveAtIs
  <2> QED
    BY <2>1, LenProperties
<1> DEFINE Old(j) == IF j < i THEN j ELSE j + 1
<1>2. \A j \in DOMAIN less : Old(j) \in DOMAIN store /\ Old(j) # i /\ less[j] = store[Old(j)]
  BY <1>1
<1>3. \A k \in DOMAIN store : k # i => \E j \in DOMAIN less : Old(j) = k
  <2> TAKE k \in DOMAIN store
  <2> HAVE k # i
  <2>1. CASE k < i
    <3>1. k \in DOMAIN less /\ Old(k) = k
      BY <1>1, <2>1
    <3> QED
      BY <3>1
  <2>2. CASE k > i
    <3>1. k - 1 \in DOMAIN less /\ Old(k - 1) = k
      BY <1>1, <2>2
    <3> QED
      BY <3>1
  <2> QED
    BY <1>1, <2>1, <2>2
<1>4. \A j, k \in DOMAIN less : Old(j) = Old(k) => j = k
  BY <1>1
<1> HIDE DEF Old
<1>5. OneEach(less)
  BY <1>2, <1>4 DEF OneEach
<1> DEFINE old == CredsOf(store)
           new == CredsOf(less)
<1>0. Shows(old, store) /\ Shows(new, less)
  BY <1>5, CredsAre
<1> HIDE DEF old, new
<1>6. DOMAIN new = DOMAIN old \ {store[i].id}
  <2>1. i \in DOMAIN store
    BY <1>1
  <2>2. \A x : x \in DOMAIN new <=> x \in DOMAIN old /\ x # store[i].id
    BY <1>0, <1>2, <1>3, <2>1 DEF OneEach, Shows
  <2> QED
    BY <2>2
<1>7. ASSUME NEW x \in DOMAIN new PROVE new[x] = old[x]
  <2>1. PICK j \in DOMAIN less : x = less[j].id
    BY <1>0 DEF Shows
  <2>2. new[x] = [user |-> less[j].rp, ctr |-> less[j].ctr]
    BY <1>0, <2>1 DEF Shows
  <2>3. Old(j) \in DOMAIN store /\ less[j] = store[Old(j)] /\ x = store[Old(j)].id
    BY <1>2, <2>1
  <2>4. old[x] = [user |-> store[Old(j)].rp, ctr |-> store[Old(j)].ctr]
    BY <1>0, <2>3 DEF Shows
  <2> QED
    BY <2>2, <2>3, <2>4
<1>8. store[i].id \in DOMAIN old
  BY <1>0, <1>1 DEF Shows
<1>9. new = [x \in DOMAIN old \ {store[i].id} |-> old[x]]
  BY <1>0, <1>6, <1>7 DEF Shows
<1> QED
  BY <1>8, <1>9 DEF old, new

\* What a signature does to the map.
LEMMA SignShows ==
    ASSUME IInv, NEW kind, NEW i \in Indexes, NEW up \in BOOLEAN, NEW pressed, SignStored(kind, i, up, pressed)
    PROVE  (\E id \in Ids : Map!Count(id)) \/ CredsOf(recs)' = CredsOf(recs)
<1>1. /\ recs \in Seq(Records) /\ OneEach(recs) /\ DOMAIN recs = Indexes
      /\ recs[i] \in Records /\ recs[i].id \in Ids /\ recs[i].ctr \in Nat
  <2>1. recs \in Seq(Records) /\ DOMAIN recs = Indexes /\ recs[i] \in Records
    BY LenProperties, ElementOfSeq DEF IInv, TypeOK, Indexes
  <2> QED
    BY <2>1, BoundsAreNat DEF IInv, Distinct, OneEach, Records
<1>2. recs' = [recs EXCEPT ![i].ctr = Counted(i, up)]
  BY DEF SignStored, Persist
<1>3. CASE up
  <2>1. recs' = [recs EXCEPT ![i].ctr = recs[i].ctr + 1]
    BY <1>2, <1>3 DEF Counted
  <2>2. Map!Count(recs[i].id)
    BY <1>1, <2>1, CountShows DEF Map!Count
  <2> QED
    BY <1>1, <2>2
<1>4. CASE ~up
  <2>1. recs' = [recs EXCEPT ![i].ctr = recs[i].ctr]
    BY <1>2, <1>4 DEF Counted
  <2>2. recs' = recs
    BY <1>1, <2>1 DEF Records
  <2> QED
    BY <2>2
<1> QED
  BY <1>3, <1>4

LEMMA StoredShows ==
    ASSUME IInv, IInv', NEW rp \in Rps, NEW resident \in BOOLEAN, issued < MaxIds, Stored(rp, resident)
    PROVE  \E id \in Ids : Map!Register(id, rp)
<1> DEFINE rec == [id |-> issued + 1, rp |-> rp, resident |-> resident, ctr |-> 1]
<1>1. issued \in Nat /\ issued + 1 \in Ids /\ rec \in Records /\ recs \in Seq(Records) /\ DOMAIN recs = Indexes
  BY BoundsAreNat, LenProperties DEF IInv, TypeOK, Ids, Records, Indexes
<1>2. \A i \in DOMAIN recs : recs[i].id # rec.id
  <2>1. \A i \in Indexes : recs[i] \in Records
    BY <1>1, ElementOfSeq DEF Indexes
  <2>2. \A i \in Indexes : recs[i].id \in Nat /\ recs[i].id <= issued
    BY <2>1, BoundsAreNat DEF IInv, Generated, Records, Ids
  <2> QED
    BY <1>1, <2>2
<1>3. OneEach(recs) /\ OneEach(recs')
  <2>1. OneEach(recs)
    BY <1>1 DEF IInv, Distinct, OneEach
  <2>2. recs' \in Seq(Records)
    BY DEF IInv, TypeOK
  <2>3. DOMAIN recs' = Indexes'
    BY <2>2, LenProperties DEF Indexes
  <2>4. Distinct'
    BY DEF IInv
  <2>5. OneEach(recs')
    BY <2>3, <2>4 DEF Distinct, OneEach
  <2> QED
    BY <2>1, <2>5
<1>4. recs' = Append(recs, rec)
  BY DEF Stored
<1>5. rec.id = issued + 1 /\ rec.rp = rp /\ rec.ctr = 1
  OBVIOUS
<1> HIDE DEF rec
<1>6. Map!Register(rec.id, rp)
  <2>1. Added(CredsOf(recs'), CredsOf(recs), rec)
    BY <1>1, <1>2, <1>3, <1>4, RegisterShows
  <2> QED
    BY <1>5, <2>1 DEF Added, Map!Register
<1> QED
  BY <1>1, <1>5, <1>6

LEMMA StepShows == IInv /\ IInv' /\ [Next]_vars => [Map!Next]_(Map!map)
<1> SUFFICES ASSUME IInv, IInv', [Next]_vars PROVE [Map!Next]_(Map!map)
  OBVIOUS
<1> DEFINE Stays == CredsOf(recs)' = CredsOf(recs)
<1>1. Map!Operation \/ Stays => [Map!Next]_(Map!map)
  BY DEF Map!Next, Map!map
<1>2. UNCHANGED recs => Stays
  OBVIOUS
<1> HIDE DEF Stays
<1>3. ASSUME NEW rp \in Rps, NEW resident \in BOOLEAN, issued < MaxIds, Stored(rp, resident)
      PROVE  Map!Operation
  BY <1>3, StoredShows DEF Map!Operation
<1>4. ASSUME NEW kind, NEW i \in Indexes, NEW up \in BOOLEAN, NEW pressed, SignStored(kind, i, up, pressed)
      PROVE  Map!Operation \/ Stays
  BY <1>4, SignShows DEF Map!Operation, Stays
<1>5. ASSUME NEW rp \in Rps, NEW rk \in BOOLEAN, NEW exclude, MakeCredential(rp, rk, exclude)
      PROVE  Map!Operation \/ Stays
  BY <1>2, <1>3, <1>5 DEF MakeCredential, Wrapped
<1>6. ASSUME NEW rp \in Rps, U2fRegister(rp) PROVE Map!Operation
  BY <1>3, <1>6 DEF U2fRegister
<1>7. ASSUME NEW rp \in Rps, NEW allow \in AllowLists, GetAssertion(rp, allow)
      PROVE  Map!Operation \/ Stays
  <2> DEFINE matches == IF FirstStateless(allow, rp) = {} THEN Matches(allow, rp) ELSE {}
  <2>1. PICK stored \in Ascending(matches) :
           \/ UNCHANGED recs
           \/ \E up \in BOOLEAN : stored # <<>> /\ SignStored("direct", stored[1], up, up)
    BY <1>7 DEF GetAssertion, NoAnswer, SignStateless
  <2>2. matches \subseteq Indexes
    BY DEF Matches, Collected
  <2>3. stored # <<>> => stored[1] \in Indexes
    <3>1. IsFiniteSet(matches) /\ Cardinality(matches) \in Nat
      <4>1. IsFiniteSet(Indexes)
        <5>1. Len(recs) \in Nat
          BY LenProperties DEF IInv, TypeOK
        <5> QED
          BY <5>1, FS_Interval DEF Indexes
      <4> QED
        BY <2>2, <4>1, FS_Subset, FS_CardinalityType
    <3> HIDE DEF matches
    <3>2. stored \in Seq(matches) /\ Len(stored) = Cardinality(matches)
      BY <3>1, SeqDef DEF Ascending
    <3>3. stored # <<>> => 1 \in 1 .. Len(stored)
      BY <3>1, <3>2, EmptySeq
    <3> QED
      BY <2>2, <3>2, <3>3, ElementOfSeq
  <2> QED
    BY <1>2, <1>4, <2>1, <2>3
<1>8. ASSUME NEW rp \in Rps, NEW id \in Ids, NEW pressed \in BOOLEAN, U2fAuthenticate(rp, id, pressed)
      PROVE  Map!Operation \/ Stays
  BY <1>4, <1>8 DEF U2fAuthenticate, StoredFor, IndexOf
<1>9. CASE GetNextAssertion
  BY <1>1, <1>2, <1>4, <1>9 DEF GetNextAssertion
<1>10. ASSUME NEW id \in Ids, Delete(id) PROVE Map!Operation
  <2>1. PICK i \in Indexes : recs[i].id = id /\ recs' = RemoveAt(recs, i)
    BY <1>10 DEF Delete, IndexOf
  <2>2. recs \in Seq(Records) /\ OneEach(recs)
    BY LenProperties DEF IInv, TypeOK, Distinct, OneEach, Indexes
  <2>3. Map!Remove(id)
    BY <2>1, <2>2, RemoveShows DEF Map!Remove, Indexes
  <2> QED
    BY <2>3 DEF Map!Operation
<1>11. CASE Wipe
  <2>1. recs' = <<>>
    BY <1>11 DEF Wipe
  <2>2. CredsOf(<<>>) = Map!Empty
    BY DEF CredsOf, Map!Empty
  <2>3. Map!RemoveAll
    BY <2>1, <2>2 DEF Map!RemoveAll
  <2> QED
    BY <1>1, <2>3 DEF Map!Operation
<1>12. CASE Send \/ Crash \/ UNCHANGED vars
  BY <1>1, <1>2, <1>12 DEF Send, Crash, vars
<1> QED
  BY <1>1, <1>5, <1>6, <1>7, <1>8, <1>9, <1>10, <1>11, <1>12 DEF Next, Command

(* The session changes the store by the operations of CredentialMap and by  *)
(* nothing else, though it names records by indexes, some of them kept from *)
(* an earlier command: CredentialStore implements what it takes as atomic.  *)
THEOREM SessionUsesMap == Spec => Map!Spec
<1>1. Init => Map!Init
  <2>1. CredsOf(<<>>) = Map!Empty
    BY DEF CredsOf, Map!Empty
  <2> QED
    BY <2>1 DEF Init, Map!Init
<1> QED
  BY <1>1, SessionIInv, StepShows, PTL DEF Spec, Map!Spec
=============================================================================
