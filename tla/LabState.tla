------------------------------ MODULE LabState ------------------------------
(***************************************************************************)
(* What a reset has to erase besides the credentials: the client PIN of    *)
(* src/src/Ctap2.cpp (loadPinState, savePinState, handleClientPin) and the *)
(* master secret with its signature counter of src/src/MasterSecret.cpp,   *)
(* each kept in several keys of non-volatile storage, and wipeLabState().  *)
(*                                                                         *)
(* One action is at most one write of a key.  Power can be lost between    *)
(* any two of them, and a write can be refused, which leaves the key as it *)
(* was: none of this code looks at the result of a write.  An operation    *)
(* ends with its answer to the host.  Keys are written atomically.         *)
(*                                                                         *)
(* A PIN stands for its hash.  Requests that fail before they look at the  *)
(* PIN, getRetries, and a changePin with a wrong old PIN change nothing    *)
(* here; the last of these is not counted as an attempt by the code.       *)
(***************************************************************************)
EXTENDS Naturals, FiniteSets

CONSTANTS
    Pins, NoPin,
    kPinMaxRetries,
    MaxResets,          \* bound: resets begun
    MaxSignCount,       \* bound: the signature counter
    MaxCrashes,         \* bound: power losses
    MaxRefused          \* bound: keys of which a write is refused

ASSUME RetriesArePositive == kPinMaxRetries \in Nat \ {0}
ASSUME NoPinIsNone == NoPin \notin Pins
ASSUME BoundsAreNat == {MaxResets, MaxSignCount, MaxCrashes, MaxRefused} \subseteq Nat

NoSecret == 0       \* secrets are numbered as they are generated
Keys == {"set", "retries", "hash", "k", "sc"}
Retries == 0 .. kPinMaxRetries
MaybePin == Pins \cup {NoPin}

VARIABLES
    nvs,            \* the five keys
    pinSet, storedPin, pinRetries,
    token,          \* the PIN the token in use was issued for, or NoPin
    master,         \* master_, or NoSecret when not ready_
    pc,             \* what the running operation does next
    op,             \* which operation it is
    shown,          \* the count in its answer, for a signature
    generated,      \* secrets generated so far
    residents,      \* stored credentials were registered under a PIN
    issued,         \* secrets that stateless ids were handed out under
    ended,          \* those of them that a reset was begun after
    dead,           \* those of them that an answered reset came after
    seen,           \* secret -> the highest count the host was shown
    failed,         \* wrong PINs answered since the last right one
    expected,       \* PINs the host may find in force
    resetCut,       \* a reset was cut short with "set" cleared and "hash" left
    resets, crashes, refused

pin == <<pinSet, storedPin, pinRetries>>
ram == <<pinSet, storedPin, pinRetries, token, master>>
wrapped == <<issued, ended, dead, seen>>
bounds == <<resets, crashes>>
vars == <<nvs, pinSet, storedPin, pinRetries, token, master, pc, op, shown, generated,
          residents, issued, ended, dead, seen, failed, expected, resetCut, resets, crashes,
          refused>>

Secrets == 1 .. MaxResets + MaxCrashes + 1

TypeOK ==
    /\ nvs \in [set : BOOLEAN, retries : Retries, hash : MaybePin,
                k : Secrets \cup {NoSecret}, sc : 0 .. MaxSignCount]
    /\ pinSet \in BOOLEAN /\ storedPin \in MaybePin /\ pinRetries \in Retries
    /\ pinSet <=> storedPin # NoPin
    /\ token \in MaybePin
    /\ master \in Secrets \cup {NoSecret}
    /\ pc \in {"off", "idle", "saveSet", "saveRetries", "saveHash", "remove", "removeNext",
               "ensure", "answer"}
    /\ op \in {"none", "setPin", "changePin", "wrongPin", "rightPin", "reset", "sign"}
    /\ shown \in 0 .. MaxSignCount
    /\ generated \in Secrets \cup {0}
    /\ residents \in BOOLEAN /\ resetCut \in BOOLEAN
    /\ issued \in SUBSET Secrets /\ ended \in SUBSET issued /\ dead \in SUBSET issued
    /\ seen \in [Secrets -> 0 .. MaxSignCount]
    /\ failed \in Nat /\ expected \in SUBSET MaybePin
    /\ resets \in 0 .. MaxResets /\ crashes \in 0 .. MaxCrashes /\ refused \in SUBSET Keys

Init ==
    /\ nvs = [set |-> FALSE, retries |-> kPinMaxRetries, hash |-> NoPin, k |-> NoSecret, sc |-> 0]
    /\ pinSet = FALSE /\ storedPin = NoPin /\ pinRetries = kPinMaxRetries
    /\ token = NoPin /\ master = NoSecret
    /\ pc = "off" /\ op = "none" /\ shown = 0 /\ generated = 0
    /\ residents = FALSE /\ issued = {} /\ ended = {} /\ dead = {} /\ seen = [s \in Secrets |-> 0]
    /\ failed = 0 /\ expected = {NoPin} /\ resetCut = FALSE
    /\ resets = 0 /\ crashes = 0 /\ refused = {}

-----------------------------------------------------------------------------
(* Storage.  A removed key has its default value.                           *)

Put(key, value) ==
    \/ nvs' = [nvs EXCEPT ![key] = value] /\ UNCHANGED refused
    \/ /\ Cardinality(refused \cup {key}) <= MaxRefused
       /\ refused' = refused \cup {key} /\ UNCHANGED nvs

\* ensureSecret()
EnsureSecret ==
    \/ /\ nvs.k # NoSecret
       /\ master' = nvs.k
       /\ UNCHANGED <<nvs, refused, generated>>
    \/ /\ nvs.k = NoSecret
       /\ generated' = generated + 1
       /\ master' = generated + 1
       /\ Put("k", generated + 1)

PinInForce == IF pinSet THEN storedPin ELSE NoPin

\* loadPinState()
LoadedSetAlways == nvs.set
LoadedSet == nvs.set /\ nvs.hash # NoPin
LoadedRetriesFull == kPinMaxRetries
LoadedRetries == IF LoadedSet THEN nvs.retries ELSE kPinMaxRetries

Boot ==
    /\ pc = "off"
    /\ EnsureSecret
    /\ pinSet' = LoadedSet
    /\ storedPin' = IF LoadedSet THEN nvs.hash ELSE NoPin
    /\ pinRetries' = LoadedRetries
    /\ token' = NoPin
    /\ pc' = "idle" /\ op' = "none"
    /\ UNCHANGED <<shown, residents, wrapped, failed, expected, resetCut, bounds>>

\* Power is lost.  What is in RAM is not used until it is loaded again.
Crash ==
    /\ pc # "off" /\ crashes < MaxCrashes
    /\ crashes' = crashes + 1
    /\ pc' = "off"
    /\ resetCut' = (resetCut \/ (op = "reset" /\ pc \in {"saveRetries", "saveHash"}))
    /\ UNCHANGED <<nvs, ram, op, shown, generated, residents, wrapped, failed, expected,
                   resets, refused>>

-----------------------------------------------------------------------------
(* handleClientPin(), and savePinState() with which it ends.                *)

\* An operation begins that may leave one of the PINs in `may` in force.
Begin(o, may) ==
    /\ pc = "idle"
    /\ pc' = "saveSet" /\ op' = o
    /\ expected' = may \cup {PinInForce}
    /\ UNCHANGED <<nvs, master, shown, generated, issued, dead, seen, resetCut, crashes, refused>>

NewPin(p) ==
    /\ pinSet' = TRUE /\ storedPin' = p /\ pinRetries' = kPinMaxRetries
    /\ failed' = 0
    /\ UNCHANGED <<token, residents, ended, resets>>

SetPin(p) == ~pinSet /\ Begin("setPin", {p}) /\ NewPin(p)

\* The old PIN given was right.
ChangePin(p) == pinSet /\ Begin("changePin", {p}) /\ NewPin(p)

Counted == IF pinRetries > 0 THEN pinRetries - 1 ELSE pinRetries

\* getPinToken, getPinUvAuthTokenUsingPinWithPermissions
GetTokenWrong ==
    /\ pinSet /\ pinRetries > 0
    /\ pinRetries' = Counted
    /\ Begin("wrongPin", {})
    /\ UNCHANGED <<pinSet, storedPin, token, residents, failed, ended, resets>>

GetTokenRight ==
    /\ pinSet /\ pinRetries > 0
    /\ pinRetries' = kPinMaxRetries /\ token' = storedPin
    /\ Begin("rightPin", {})
    /\ failed' = 0
    /\ UNCHANGED <<pinSet, storedPin, residents, ended, resets>>

SaveSet ==
    /\ pc = "saveSet" /\ pc' = "saveRetries"
    /\ Put("set", pinSet)
    /\ UNCHANGED <<ram, op, shown, generated, residents, wrapped, failed, expected, resetCut,
                   bounds>>

SaveRetries ==
    /\ pc = "saveRetries" /\ pc' = "saveHash"
    /\ Put("retries", pinRetries)
    /\ UNCHANGED <<ram, op, shown, generated, residents, wrapped, failed, expected, resetCut,
                   bounds>>

\* The hash of a PIN that is not set is removed.
SavedHashKept == IF pinSet THEN storedPin ELSE nvs.hash
SavedHash == IF pinSet THEN storedPin ELSE NoPin

ResetTokenNever == token
ResetToken == NoPin

\* The last write, and what each operation does before it answers.
SaveHash ==
    /\ pc = "saveHash"
    /\ pc' = IF op = "reset" THEN "remove" ELSE "answer"
    /\ Put("hash", SavedHash)
    /\ resetCut' = (resetCut /\ "hash" \in refused')
    /\ token' = IF op \in {"setPin", "changePin", "reset"} THEN ResetToken ELSE token
    /\ UNCHANGED <<pin, master, op, shown, generated, residents, wrapped, failed, expected, bounds>>

-----------------------------------------------------------------------------
(* wipeLabState(): the store, the PIN, the master secret, in this order.    *)

WipedNever == residents
Wiped == FALSE

Reset ==
    /\ resets < MaxResets /\ resets' = resets + 1
    /\ residents' = Wiped
    /\ pinSet' = FALSE /\ storedPin' = NoPin /\ pinRetries' = kPinMaxRetries
    /\ Begin("reset", {NoPin})
    /\ failed' = 0 /\ ended' = issued
    /\ UNCHANGED token

\* MasterSecret::wipe()
CounterFirst == <<"sc", "k">>
SecretFirst == <<"k", "sc">>
RemovalOrder == SecretFirst

DefaultNever(key) == nvs[key]
Default(key) == IF key = "k" THEN NoSecret ELSE 0

RemoveFirst ==
    /\ pc = "remove" /\ pc' = "removeNext"
    /\ Put(RemovalOrder[1], Default(RemovalOrder[1]))
    /\ UNCHANGED <<ram, op, shown, generated, residents, wrapped, failed, expected, resetCut,
                   bounds>>

RemoveSecond ==
    /\ pc = "removeNext" /\ pc' = "ensure"
    /\ Put(RemovalOrder[2], Default(RemovalOrder[2]))
    /\ UNCHANGED <<ram, op, shown, generated, residents, wrapped, failed, expected, resetCut,
                   bounds>>

Rotate ==
    /\ pc = "ensure" /\ pc' = "answer"
    /\ EnsureSecret
    /\ UNCHANGED <<pin, token, op, shown, residents, wrapped, failed, expected, resetCut, bounds>>

-----------------------------------------------------------------------------
(* What the secret and the PIN are used for.                                *)

\* makeCredential of a resident credential, with a token for the PIN
RegisterResident ==
    /\ pc = "idle" /\ token # NoPin /\ ~residents
    /\ residents' = TRUE
    /\ UNCHANGED <<nvs, ram, pc, op, shown, generated, wrapped, failed, expected, resetCut,
                   bounds, refused>>

\* makeCredential of any other; the host is shown the current count
RegisterStateless ==
    /\ pc = "idle"
    /\ issued' = issued \cup {master} /\ ended' = ended \ {master}
    /\ seen' = [seen EXCEPT ![master] = IF nvs.sc > @ THEN nvs.sc ELSE @]
    /\ UNCHANGED <<nvs, ram, pc, op, shown, generated, residents, dead, failed, expected,
                   resetCut, bounds, refused>>

\* getAssertion for a stateless id of the secret in use: nextSignCount()
Sign ==
    /\ pc = "idle" /\ master \in issued /\ nvs.sc < MaxSignCount
    /\ pc' = "answer" /\ op' = "sign"
    /\ shown' = nvs.sc + 1
    /\ Put("sc", nvs.sc + 1)
    /\ UNCHANGED <<ram, generated, residents, wrapped, failed, expected, resetCut, bounds>>

Answer ==
    /\ pc = "answer" /\ pc' = "idle"
    /\ failed' = IF op = "wrongPin" THEN failed + 1 ELSE failed
    /\ dead' = IF op = "reset" THEN issued ELSE dead
    /\ seen' = IF op = "sign" THEN [seen EXCEPT ![master] = shown] ELSE seen
    /\ expected' = {PinInForce}
    /\ UNCHANGED <<nvs, ram, op, shown, generated, residents, issued, ended, resetCut,
                   bounds, refused>>

Next ==
    \/ Boot \/ Crash
    \/ \E p \in Pins : SetPin(p) \/ ChangePin(p)
    \/ GetTokenWrong \/ GetTokenRight
    \/ SaveSet \/ SaveRetries \/ SaveHash
    \/ Reset \/ RemoveFirst \/ RemoveSecond \/ Rotate
    \/ RegisterResident \/ RegisterStateless \/ Sign
    \/ Answer

Spec == Init /\ [][Next]_vars

-----------------------------------------------------------------------------
Kept(keys) == keys \cap refused = {}

(* Wrong PINs are counted across power losses: however often the board is   *)
(* restarted, between two writes or after an answer, the wrong PINs that    *)
(* getPinToken answered since the right one, and the retries it has left,   *)
(* do not exceed kPinMaxRetries.                                            *)
FailuresStayCounted ==
    (pc = "idle" /\ pinSet /\ Kept({"retries"})) => failed + pinRetries <= kPinMaxRetries

(* The PIN in force is the one the last operation confirmed or, after a     *)
(* power loss, the one before or after the operation that was cut short:    *)
(* never a third one, and never none but by a reset.  The exception: a      *)
(* reset cut short leaves the old hash, and cutting short the setPin that   *)
(* follows puts it in force again.                                          *)
RestartKeepsPin ==
    (pc = "idle" /\ Kept({"set", "hash"}) /\ ~resetCut) => PinInForce \in expected

(* A token is good for the PIN in force only: changing the PIN and a reset  *)
(* end the token issued before.                                             *)
TokenIsOfThisPin == (pc = "idle" /\ token # NoPin) => pinSet /\ token = storedPin

(* A reset cut short by a power loss does not take the PIN from stored      *)
(* credentials that were registered under it.                               *)
ResidentsStayGuarded == (pc = "idle" /\ residents /\ Kept({"set", "hash"})) => pinSet

(* A stateless id is accepted after any restart from the moment it was      *)
(* handed out until a reset is begun, and never again once a reset has been *)
(* answered.                                                                *)
IdsLastUntilReset ==
    (pc = "idle" /\ Kept({"k"})) => issued \ ended \subseteq {master} /\ master \notin dead

(* The counts of one secret's signatures advance, also when a reset is cut  *)
(* short between the secret and its counter.                                *)
SignCountsAdvance ==
    (pc = "answer" /\ op = "sign" /\ Kept({"k", "sc"})) => shown > seen[master]
=============================================================================
