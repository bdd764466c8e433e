------------------------------ MODULE CredMgmt ------------------------------
(***************************************************************************)
(* Credential management of src/src/Ctap2.cpp                              *)
(* (handleCredentialManagement): two enumerations, of the relying parties  *)
(* with discoverable credentials and of the credentials of one of them.    *)
(* "Begin" caches the store indexes of what there is to show, each "next"  *)
(* loads the record that is at the next of them by then.                   *)
(*                                                                         *)
(* In between the store changes: registrations append, U2F keys among      *)
(* them, and a deletion moves every record behind it down by one, which    *)
(* neither list is told of.  The user update rewrites a record in place    *)
(* and a signature its count: they move nothing and have no action here.   *)
(* A wait for BOOT that fails changes nothing.  Storage operations are     *)
(* atomic and not refused; CredentialStore opens them up.                  *)
(***************************************************************************)
EXTENDS Naturals, Sequences, FiniteSets

CONSTANTS
    Rps,                \* relying parties, standing for their rpIdHash
    kMaxCredentials,    \* BuildConfig::kMaxCredentials
    MaxIds              \* bound: credentials ever registered

ASSUME MaxIsPositive == kMaxCredentials \in Nat \ {0}
ASSUME MaxIdsIsNat == MaxIds \in Nat

VARIABLES
    recs,               \* the store, in index order (indexes are one-based here)
    issued,             \* credential ids generated so far are 1 .. issued
    cmRp,               \* cmRpIndexes_[0 .. cmRpCount_ - 1]
    cmRpNext,           \* cmRpNext_
    cmCredential,       \* cmCredentialIndexes_[0 .. cmCredentialCount_ - 1]
    cmCredentialNext,   \* cmCredentialNext_
    rpWanted,           \* what the enumeration of relying parties began with,
    rpShown,            \* what it showed so far,
    rpFresh,            \* and that no credential was removed since it began
    credWanted,         \* the same for the credentials, as ids,
    credShown,
    credFresh,
    credAnswers         \* and how many answers showed one

store == <<recs, issued>>
rpEnumeration == <<cmRp, cmRpNext, rpWanted, rpShown, rpFresh>>
credEnumeration == <<cmCredential, cmCredentialNext, credWanted, credShown, credFresh, credAnswers>>
vars == <<recs, issued, cmRp, cmRpNext, cmCredential, cmCredentialNext, rpWanted, rpShown, rpFresh,
          credWanted, credShown, credFresh, credAnswers>>

Ids == 1 .. MaxIds
Records == [id : Ids, rp : Rps, resident : BOOLEAN]
Slots == 1 .. kMaxCredentials

TypeOK ==
    /\ recs \in Seq(Records) /\ Len(recs) <= kMaxCredentials
    /\ issued \in 0 .. MaxIds
    /\ cmRp \in Seq(Slots) /\ cmRpNext \in 0 .. Len(cmRp)
    /\ cmCredential \in Seq(Slots) /\ cmCredentialNext \in 0 .. Len(cmCredential)
    /\ rpWanted \in SUBSET Rps /\ rpShown \in SUBSET Rps /\ rpFresh \in BOOLEAN
    /\ credWanted \in SUBSET Ids /\ credShown \in SUBSET Ids /\ credFresh \in BOOLEAN
    /\ credAnswers \in 0 .. cmCredentialNext

Init ==
    /\ recs = <<>> /\ issued = 0
    /\ cmRp = <<>> /\ cmRpNext = 0 /\ cmCredential = <<>> /\ cmCredentialNext = 0
    /\ rpWanted = {} /\ rpShown = {} /\ rpFresh = FALSE
    /\ credWanted = {} /\ credShown = {} /\ credFresh = FALSE /\ credAnswers = 0

-----------------------------------------------------------------------------
(* The store.                                                               *)

Indexes == 1 .. Len(recs)

HasRoomOneMore == Len(recs) <= kMaxCredentials
HasRoom == Len(recs) < kMaxCredentials

\* makeCredential of a resident credential, U2F register
Register(rp, resident) ==
    /\ issued < MaxIds /\ HasRoom
    /\ recs' = Append(recs, [id |-> issued + 1, rp |-> rp, resident |-> resident])
    /\ issued' = issued + 1
    /\ UNCHANGED <<rpEnumeration, credEnumeration>>

\* compact() moves the records behind the hole down by one.
Without(i) == [j \in 1 .. Len(recs) - 1 |-> IF j < i THEN recs[j] ELSE recs[j + 1]]

Stale ==
    /\ rpFresh' = FALSE /\ credFresh' = FALSE
    /\ UNCHANGED <<issued, cmRp, cmRpNext, rpWanted, rpShown,
                   cmCredential, cmCredentialNext, credWanted, credShown, credAnswers>>

Delete(i) == recs' = Without(i) /\ Stale

\* wipeLabState()
Wipe == recs' = <<>> /\ Stale

-----------------------------------------------------------------------------
(* The enumerations.  A list holds its indexes in ascending order.          *)

Ascending(S) ==
    UNION {{list \in [1 .. n -> S] :
               /\ \A i \in S : \E k \in 1 .. n : list[k] = i
               /\ \A j, k \in 1 .. n : j < k => list[j] < list[k]} : n \in 0 .. kMaxCredentials}

Resident(i) == recs[i].resident

\* A relying party is listed at its first record.
FirstOfRpUnchecked == {i \in Indexes : Resident(i)}
FirstOfRp ==
    {i \in Indexes :
        Resident(i) /\ \A j \in 1 .. i - 1 : ~(Resident(j) /\ recs[j].rp = recs[i].rp)}

\* collectByRpIdHash(rpIdHash, residentOnly = true)
Collected(rp) == {i \in Indexes : recs[i].rp = rp /\ Resident(i)}

RpsOf(S) == {recs[i].rp : i \in S}
IdsOf(S) == {recs[i].id : i \in S}

\* What the answer shows for the index i: nothing when no record is there now.
At(i) == {i} \cap Indexes

\* The first entry is shown by "begin" itself; the total is the list's length.
BegunAgain(list) == 0
Begun(list) == IF list = <<>> THEN 0 ELSE 1

ShownAtOnce(list) == IF list = <<>> THEN {} ELSE {list[1]}

EnumerateRpsBegin ==
    /\ cmRp' \in Ascending(FirstOfRp)
    /\ cmRpNext' = Begun(cmRp')
    /\ rpWanted' = RpsOf({i \in Indexes : Resident(i)})
    /\ rpShown' = RpsOf(ShownAtOnce(cmRp'))
    /\ rpFresh' = TRUE
    /\ UNCHANGED <<store, credEnumeration>>

EnumerateRpsGetNextRp ==
    /\ cmRpNext < Len(cmRp)
    /\ cmRpNext' = cmRpNext + 1
    /\ rpShown' = rpShown \cup RpsOf(At(cmRp[cmRpNext + 1]))
    /\ UNCHANGED <<store, credEnumeration, cmRp, rpWanted, rpFresh>>

EnumerateCredentialsBegin(rp) ==
    /\ cmCredential' \in Ascending(Collected(rp))
    /\ cmCredentialNext' = Begun(cmCredential')
    /\ credWanted' = IdsOf({i \in Indexes : Resident(i) /\ recs[i].rp = rp})
    /\ credShown' = IdsOf(ShownAtOnce(cmCredential'))
    /\ credAnswers' = Cardinality(ShownAtOnce(cmCredential'))
    /\ credFresh' = TRUE
    /\ UNCHANGED <<store, rpEnumeration>>

EnumerateCredentialsGetNextCredential ==
    /\ cmCredentialNext < Len(cmCredential)
    /\ cmCredentialNext' = cmCredentialNext + 1
    /\ LET shown == At(cmCredential[cmCredentialNext + 1]) IN
          /\ credShown' = credShown \cup IdsOf(shown)
          /\ credAnswers' = credAnswers + Cardinality(shown)
    /\ UNCHANGED <<store, rpEnumeration, cmCredential, credWanted, credFresh>>

\* Power loss and restart: both lists are in RAM.
Crash ==
    /\ cmRp' = <<>> /\ cmRpNext' = 0 /\ cmCredential' = <<>> /\ cmCredentialNext' = 0
    /\ rpWanted' = {} /\ rpShown' = {} /\ rpFresh' = FALSE
    /\ credWanted' = {} /\ credShown' = {} /\ credFresh' = FALSE /\ credAnswers' = 0
    /\ UNCHANGED store

Next ==
    \/ \E rp \in Rps, resident \in BOOLEAN : Register(rp, resident)
    \/ \E i \in Indexes : Delete(i)
    \/ Wipe
    \/ EnumerateRpsBegin \/ EnumerateRpsGetNextRp
    \/ \E rp \in Rps : EnumerateCredentialsBegin(rp)
    \/ EnumerateCredentialsGetNextCredential
    \/ Crash

Spec == Init /\ [][Next]_vars

-----------------------------------------------------------------------------
(* An enumeration that ran to its end shows everything that was there when  *)
(* it began, each once, as many as the first answer announced: every        *)
(* relying party that had a discoverable credential, or every credential of *)
(* one relying party, U2F keys not among them.  Registrations, the other    *)
(* enumeration and failed commands in between do not disturb it; a removal  *)
(* may.                                                                     *)
RpsComplete ==
    (rpFresh /\ cmRpNext = Len(cmRp)) =>
        rpShown = rpWanted /\ Cardinality(rpWanted) = Len(cmRp)

CredentialsComplete ==
    (credFresh /\ cmCredentialNext = Len(cmCredential)) =>
        credShown = credWanted /\ Cardinality(credWanted) = Len(cmCredential)

EnumerationsComplete == RpsComplete /\ CredentialsComplete

(* No enumeration shows a credential twice, whatever is removed, wiped and  *)
(* registered between its answers: the cached indexes ascend, and records   *)
(* only move down.                                                          *)
NeverTwice == Cardinality(credShown) = credAnswers
=============================================================================
