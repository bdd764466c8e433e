---------------------------- MODULE Ctap2Session ----------------------------
(***************************************************************************)
(* The assertion side of src/src/Ctap2.cpp: registration, getAssertion     *)
(* with the cached chain that getNextAssertion walks, the U2F commands     *)
(* that share the store with it, deletion, reset and power loss.           *)
(*                                                                         *)
(* One loop task runs every handler to its end, the wait for BOOT          *)
(* included, so a handler is one action and what the wait returns is an    *)
(* input of it.  A wait without a press answers an error and changes       *)
(* nothing, except in getAssertion, which has already reset the chain.     *)
(* The answer leaves in a step of its own (Send): power can be lost after  *)
(* a counter was stored and before the host saw the answer.                *)
(* Storage operations are atomic here and are never refused;               *)
(* CredentialStore opens them up.                                          *)
(***************************************************************************)
EXTENDS Naturals, Sequences, FiniteSets, SequencesExt

CONSTANTS
    Rps,                \* relying parties, standing for their rpIdHash
    NoRp,               \* the all-zero rpIdHash, of no relying party
    kMaxCredentials,    \* BuildConfig::kMaxCredentials
    MaxIds,             \* bound: credentials ever registered
    MaxCounter,         \* bound: sign counts stay at most this
    MaxWipes,           \* bound: resets in a behaviour
    MaxAllowList        \* bound: entries of an allow list

ASSUME MaxIsPositive == kMaxCredentials \in Nat \ {0}
ASSUME NoRpIsNone == NoRp \notin Rps
ASSUME BoundsAreNat ==
    MaxIds \in Nat /\ MaxCounter \in Nat \ {0} /\ MaxWipes \in Nat /\ MaxAllowList \in Nat

VARIABLES
    recs,           \* the store, in index order (indexes are one-based here)
    wrapped,        \* stateless credential ids handed out, with their secret
    secret,         \* which master secret is in place
    gctr,           \* MasterSecret's counter, shared by stateless credentials
    issued,         \* credential ids generated so far are 1 .. issued
    chain,          \* assertionIndexes_[0 .. assertionCount_ - 1]
    next,           \* assertionNext_
    hash,           \* assertionClientDataHash_ (and assertionUserVerified_, set
                    \* with it), as the request they came from
    tx,             \* the signed answer not yet sent, as a set of at most one
    seen,           \* id -> the highest count a user-present answer showed the host
    removed,        \* ids that were deleted or wiped
    fresh,          \* no removal since the request behind hash built the chain
    due             \* ids that request is still owed

ram == <<chain, next, hash>>
vars == <<recs, wrapped, secret, gctr, issued, chain, next, hash, tx, seen,
          removed, fresh, due>>

Ids == 1 .. MaxIds
Records == [id : Ids, rp : Rps, resident : BOOLEAN, ctr : 1 .. MaxCounter]
Hashes == [rp : Rps \cup {NoRp}, pressed : BOOLEAN]
Answers == [kind : {"direct", "next", "u2f"}, id : Ids, rp : Rps, ctr : 0 .. MaxCounter,
            up : BOOLEAN, pressed : BOOLEAN]

TypeOK ==
    /\ recs \in Seq(Records) /\ Len(recs) <= kMaxCredentials
    /\ wrapped \in SUBSET [id : Ids, rp : Rps, secret : 0 .. MaxWipes]
    /\ secret \in 0 .. MaxWipes /\ gctr \in 0 .. MaxCounter /\ issued \in 0 .. MaxIds
    /\ chain \in Seq(1 .. kMaxCredentials) /\ Len(chain) <= kMaxCredentials
    /\ next \in 0 .. Len(chain)
    /\ hash \in Hashes
    /\ tx \in SUBSET Answers /\ Cardinality(tx) <= 1
    /\ seen \in [Ids -> 0 .. MaxCounter]
    /\ removed \in SUBSET Ids /\ due \in SUBSET Ids
    /\ fresh \in BOOLEAN

Init ==
    /\ recs = <<>> /\ wrapped = {} /\ secret = 0 /\ gctr = 0 /\ issued = 0
    /\ chain = <<>> /\ next = 0 /\ hash = [rp |-> NoRp, pressed |-> FALSE]
    /\ tx = {} /\ seen = [id \in Ids |-> 0] /\ removed = {}
    /\ fresh = FALSE /\ due = {}

-----------------------------------------------------------------------------
(* Lookups.                                                                 *)

Idle == tx = {}
Known == 1 .. issued

Indexes == 1 .. Len(recs)
IndexOf(id) == {i \in Indexes : recs[i].id = id}
IdAt(i) == recs[i].id

IsStatelessForAnySecret(id, rp) == \E s \in wrapped : s.id = id /\ s.rp = rp
IsStateless(id, rp) == [id |-> id, rp |-> rp, secret |-> secret] \in wrapped

\* findByRpIdHashAndAllowList
StoredFor(id, rp) == {i \in IndexOf(id) : recs[i].rp = rp}

\* collectByRpIdHash(rpIdHash, residentOnly = true)
CollectedAnyKind(rp) == {i \in Indexes : recs[i].rp = rp}
Collected(rp) == {i \in Indexes : recs[i].rp = rp /\ recs[i].resident}

\* The scans go up through the store: a list holds its indexes in that order.
Ascending(S) ==
    {list \in [1 .. Cardinality(S) -> S] : \A j, k \in DOMAIN list : j < k => list[j] < list[k]}

Excluded(id, rp) == IndexOf(id) # {} \/ IsStateless(id, rp)

-----------------------------------------------------------------------------
(* Registration.                                                            *)

Stored(rp, resident) ==
    /\ Len(recs) < kMaxCredentials
    /\ recs' = Append(recs, [id |-> issued + 1, rp |-> rp, resident |-> resident, ctr |-> 1])
    /\ UNCHANGED wrapped

Wrapped(rp) ==
    /\ wrapped' = wrapped \cup {[id |-> issued + 1, rp |-> rp, secret |-> secret]}
    /\ UNCHANGED recs

\* The exclude list counts for its first entry only (none is {}).
MakeCredential(rp, rk, exclude) ==
    /\ issued < MaxIds
    /\ \A id \in exclude : ~Excluded(id, rp)
    /\ IF rk THEN Stored(rp, TRUE) ELSE Wrapped(rp)
    /\ issued' = issued + 1
    /\ UNCHANGED <<secret, gctr, ram, tx, seen, removed, fresh, due>>

\* U2F keys take a slot of the store and are not resident.
U2fRegister(rp) ==
    /\ issued < MaxIds
    /\ Stored(rp, FALSE)
    /\ issued' = issued + 1
    /\ UNCHANGED <<secret, gctr, ram, tx, seen, removed, fresh, due>>

-----------------------------------------------------------------------------
(* Signing.  writeAssertionResponse and handleU2fAuthenticate store the new *)
(* count before they return the answer.                                     *)

Counted(i, up) == IF up THEN recs[i].ctr + 1 ELSE recs[i].ctr

PersistNothing(i, up) == recs
Persist(i, up) == [recs EXCEPT ![i].ctr = Counted(i, up)]

Answer(kind, id, rp, ctr, up, pressed) ==
    [kind |-> kind, id |-> id, rp |-> rp, ctr |-> ctr, up |-> up, pressed |-> pressed]

\* writeAssertionResponse for the record at index i
SignStored(kind, i, up, pressed) ==
    /\ Counted(i, up) <= MaxCounter
    /\ tx' = {Answer(kind, recs[i].id, recs[i].rp, Counted(i, up), up, pressed)}
    /\ recs' = Persist(i, up)

\* nextSignCount() or currentSignCount() of the master secret
SignStateless(id, rp, up, pressed) ==
    LET ctr == IF up THEN gctr + 1 ELSE gctr IN
    /\ ctr <= MaxCounter
    /\ tx' = {Answer("direct", id, rp, ctr, up, pressed)}
    /\ gctr' = ctr
    /\ UNCHANGED recs

-----------------------------------------------------------------------------
(* getAssertion.  allow is the parsed allow list, <<>> when there is none.  *)

\* The scan stops at the first entry whose MAC verifies.
FirstStateless(allow, rp) ==
    {k \in 1 .. Len(allow) :
        /\ IsStateless(allow[k], rp)
        /\ \A j \in 1 .. k - 1 : ~IsStateless(allow[j], rp)}

FirstStored(allow, rp) ==
    {k \in 1 .. Len(allow) :
        /\ StoredFor(allow[k], rp) # {}
        /\ \A j \in 1 .. k - 1 : StoredFor(allow[j], rp) = {}}

\* The indexes the request leaves in assertionIndexes_.
Matches(allow, rp) ==
    IF allow = <<>>
        THEN Collected(rp)
        ELSE {i \in Indexes : \E k \in FirstStored(allow, rp) : IdAt(i) = allow[k]}

\* What the host is owed by the answers to come: every resident credential of
\* the relying party when no list was sent, and nothing more when one was.
Owed(allow, rp, first) ==
    IF allow # <<>> THEN {}
    ELSE {IdAt(i) : i \in {j \in Indexes : recs[j].resident /\ recs[j].rp = rp}} \ {first}

NextKept == next
NextReset == 0

\* chain and next are reset before anything is looked up; next and hash are set
\* again only when a stored credential signs.  BOOT is waited for when the
\* request has up = true, and its options say so by default.
NoAnswer ==
    /\ next' = NextReset /\ fresh' = FALSE /\ due' = {}
    /\ UNCHANGED <<recs, gctr, hash, tx>>

GetAssertion(rp, allow) ==
    LET stateless == FirstStateless(allow, rp)
        matches == IF stateless = {} THEN Matches(allow, rp) ELSE {}
    IN
    \E stored \in Ascending(matches) :
    /\ chain' = stored
    /\ \/ NoAnswer     \* nothing matches, or BOOT was not pressed
       \/ \E k \in stateless, up \in BOOLEAN :
             /\ SignStateless(allow[k], rp, up, up)
             /\ next' = 0 /\ fresh' = FALSE /\ due' = {}
             /\ UNCHANGED hash
       \/ \E up \in BOOLEAN :
             /\ stored # <<>>
             /\ SignStored("direct", stored[1], up, up)
             /\ next' = 1
             /\ hash' = [rp |-> rp, pressed |-> up]
             /\ fresh' = TRUE
             /\ due' = Owed(allow, rp, IdAt(stored[1]))
             /\ UNCHANGED gctr
    /\ UNCHANGED <<wrapped, secret, issued, seen, removed>>

\* getNextAssertion: always with the UP flag; a record that is gone is an error.
GetNextAssertion ==
    /\ next < Len(chain)
    /\ next' = next + 1
    /\ LET i == chain[next + 1] IN
          IF i \in Indexes
              THEN /\ SignStored("next", i, TRUE, hash.pressed)
                   /\ due' = due \ {IdAt(i)}
              ELSE UNCHANGED <<recs, tx, due>>
    /\ UNCHANGED <<wrapped, secret, gctr, issued, chain, hash, seen, removed, fresh>>

\* p1 = 0x03 waits for BOOT, p1 = 0x08 signs without it (0x07 changes nothing).
U2fAuthenticate(rp, id, pressed) ==
    /\ \E i \in StoredFor(id, rp) : SignStored("u2f", i, TRUE, pressed)
    /\ UNCHANGED <<wrapped, secret, gctr, issued, ram, seen, removed, fresh, due>>

-----------------------------------------------------------------------------
(* Removal.  Neither the chain nor next is touched.                         *)

Delete(id) ==
    /\ \E i \in IndexOf(id) : recs' = RemoveAt(recs, i)
    /\ removed' = removed \cup {id}
    /\ fresh' = FALSE /\ due' = {}
    /\ UNCHANGED <<wrapped, secret, gctr, issued, ram, tx, seen>>

\* wipeLabState(), by the host's reset or by the admin hold: the store, the
\* master secret and its counter.
Wipe ==
    /\ secret < MaxWipes
    /\ recs' = <<>>
    /\ secret' = secret + 1 /\ gctr' = 0
    /\ removed' = Known
    /\ fresh' = FALSE /\ due' = {}
    /\ UNCHANGED <<wrapped, issued, ram, tx, seen>>

\* sendMessage: the host has the answer.
Send ==
    /\ ~Idle
    /\ \E m \in tx : seen' = [seen EXCEPT ![m.id] = IF m.up THEN m.ctr ELSE @]
    /\ tx' = {}
    /\ UNCHANGED <<recs, wrapped, secret, gctr, issued, ram, removed, fresh, due>>

\* Power loss and restart: what is in RAM is gone, the answer with it.
Crash ==
    /\ chain' = <<>> /\ next' = 0 /\ hash' = [rp |-> NoRp, pressed |-> FALSE]
    /\ tx' = {} /\ fresh' = FALSE /\ due' = {}
    /\ UNCHANGED <<recs, wrapped, secret, gctr, issued, seen, removed>>

-----------------------------------------------------------------------------
\* Lists without repetitions; an id not issued yet is one of another device.
AllowLists == {s \in UNION {[1 .. n -> Ids] : n \in 0 .. MaxAllowList} : IsInjective(s)}
Excludes == {{}} \cup {{id} : id \in Ids}

Command ==
    \/ \E rp \in Rps :
          \/ \E rk \in BOOLEAN, exclude \in Excludes : MakeCredential(rp, rk, exclude)
          \/ U2fRegister(rp)
          \/ \E allow \in AllowLists : GetAssertion(rp, allow)
          \/ \E id \in Ids, pressed \in BOOLEAN : U2fAuthenticate(rp, id, pressed)
    \/ GetNextAssertion
    \/ \E id \in Ids : Delete(id)
    \/ Wipe

\* The loop takes no packet before the answer to the last one is out.
Next == (Idle /\ Command) \/ Send \/ Crash

Spec == Init /\ [][Next]_vars

-----------------------------------------------------------------------------
(* The host never sees a credential's signature count stand still or go     *)
(* back: the count in an answer that claims user presence is above every    *)
(* count shown for that credential before, whichever of getAssertion,       *)
(* getNextAssertion and U2F authenticate produced it, whatever index the    *)
(* cached chain used, and across answers lost to a power cut.               *)
CounterAdvances ==
    \A m \in tx : IF m.up THEN m.ctr > seen[m.id] ELSE m.ctr >= seen[m.id]

(* A deleted or wiped credential never signs again, though the chain still  *)
(* holds its index and the host still holds its (stateless) id.             *)
RemovedNeverSigns == \A m \in tx : m.id \notin removed

(* While no credential was removed since, getNextAssertion goes through     *)
(* exactly the resident credentials of the requested relying party that     *)
(* are still owed, one answer each, whatever else the host does in between  *)
(* (registrations, U2F signatures, failed commands).                        *)
NextAnswersTheRest ==
    fresh =>
        LET rest == {chain[k] : k \in next + 1 .. Len(chain)} IN
        /\ rest \subseteq Indexes
        /\ due = {IdAt(i) : i \in rest}
        /\ Cardinality(due) = Len(chain) - next
        /\ \A i \in rest : recs[i].rp = hash.rp /\ recs[i].resident

(* An answer of getNextAssertion, which always carries the UP flag, belongs *)
(* to a request for which BOOT was pressed: "Do not sign until user         *)
(* presence is confirmed for that operation" (the authenticator spec in     *)
(* src/docs/specs, line 232).  Does not hold: an up=false request, or one   *)
(* whose wait timed out, also leaves a chain to walk.                       *)
NextWasPressedFor == \A m \in tx : m.kind = "next" => m.pressed
=============================================================================
