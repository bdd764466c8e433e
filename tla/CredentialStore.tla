-------------------------- MODULE CredentialStore --------------------------
(***************************************************************************)
(* The credential store of src/src/CredentialStore.cpp: at most            *)
(* kMaxCredentials records kept in non-volatile storage under the keys     *)
(* cred0, cred1, ... and a record count under the key "count".             *)
(*                                                                         *)
(* One action is one storage write.  Power can be lost between any two of  *)
(* them (Crash), after which begin() runs again; a write can be refused by *)
(* the storage (putBytes or putUInt returning 0), which leaves the key as  *)
(* it was.  A single key is written atomically: the storage driver         *)
(* promises that, and it is assumed here.                                  *)
(***************************************************************************)
EXTENDS Integers

CONSTANTS
    CredIds,            \* credential ids; each is generated at random, used once
    Users,              \* values of the user entity a record carries
    NoRecord,           \* an absent key
    kMaxCredentials,    \* BuildConfig::kMaxCredentials
    MaxCounter,         \* bound: sign counts stay at most this
    MaxCrashes,         \* bound: power losses in a behaviour
    MaxFailures         \* bound: refused writes in a behaviour

Records == [id : CredIds, user : Users, ctr : Nat]
Slots == 0 .. kMaxCredentials - 1

ASSUME MaxIsPositive == kMaxCredentials \in Nat \ {0}
ASSUME NoRecordIsNone == NoRecord \notin Records
ASSUME BoundsAreNat == MaxCounter \in Nat /\ MaxCrashes \in Nat /\ MaxFailures \in Nat

VARIABLES
    nvs,        \* the record keys: Slots -> Records or NoRecord
    nvsCount,   \* the "count" key
    count,      \* count_, in RAM
    pc,         \* what the running operation does next
    r, w,       \* readIndex and writeIndex of compact(); r also runs trailing removes
    live,       \* ids whose add returned true and whose removal has not begun
    doomed,     \* ids the running operation removes
    deleted,    \* ids whose removal has returned
    used,       \* ids generated so far
    crashes, failures,
    lossy,      \* a refused write whose result the code does not look at
    moveCrash,  \* power was lost between save(writeIndex) and remove(readIndex)
    stuck       \* a record was left where the storage refused to remove it

store == <<nvs, nvsCount, count>>
ghosts == <<live, doomed, deleted, used>>
faults == <<crashes, failures, lossy, moveCrash, stuck>>
vars == <<nvs, nvsCount, count, pc, r, w, live, doomed, deleted, used,
          crashes, failures, lossy, moveCrash, stuck>>

PcValues == {"off", "idle", "addCount", "compact", "move", "trim"}

TypeOK ==
    /\ nvs \in [Slots -> Records \cup {NoRecord}]
    /\ nvsCount \in 0 .. kMaxCredentials
    /\ count \in 0 .. kMaxCredentials
    /\ pc \in PcValues
    /\ r \in 0 .. kMaxCredentials
    /\ w \in 0 .. kMaxCredentials
    /\ live \in SUBSET CredIds /\ doomed \in SUBSET CredIds
    /\ deleted \in SUBSET CredIds /\ used \in SUBSET CredIds
    /\ crashes \in Nat /\ failures \in Nat
    /\ lossy \in BOOLEAN /\ moveCrash \in BOOLEAN /\ stuck \in BOOLEAN

-----------------------------------------------------------------------------
(* Reading: load(index) succeeds on the slots below count_ that hold a      *)
(* record (checksum and version are right: only the store writes them).    *)

Holds(j, id) == nvs[j] # NoRecord /\ nvs[j].id = id
Below(n, id) == {j \in 0 .. n - 1 : Holds(j, id)}
IsKnown(id) == Below(count, id) # {}

\* findByCredentialId: the first match.
IsFirst(j, S) == j \in S /\ \A k \in S : j <= k
Found(j, id) == IsFirst(j, Below(count, id))

Refused == failures < MaxFailures /\ failures' = failures + 1
Accepted == UNCHANGED failures

\* prefs_.remove(), whose result nobody looks at: the key is gone, or stays as
\* it was.  Of a key that is not there nothing is removed.
WithoutNothing(j) == nvs
Without(j) == [nvs EXCEPT ![j] = NoRecord]
Remove(j) ==
    /\ \/ Accepted /\ nvs' = Without(j) /\ UNCHANGED stuck
       \/ Refused /\ nvs[j] # NoRecord /\ stuck' = TRUE /\ UNCHANGED nvs
    /\ UNCHANGED <<nvsCount, crashes, lossy, moveCrash>>

-----------------------------------------------------------------------------
Init ==
    /\ nvs = [j \in Slots |-> NoRecord]
    /\ nvsCount = 0 /\ count = 0
    /\ pc = "off" /\ r = 0 /\ w = 0
    /\ live = {} /\ doomed = {} /\ deleted = {} /\ used = {}
    /\ crashes = 0 /\ failures = 0 /\ lossy = FALSE /\ moveCrash = FALSE /\ stuck = FALSE

(* begin(): read "count", then wipe() (which is trim from slot 0 with no    *)
(* slot kept) or compact().                                                *)
Boot ==
    /\ pc = "off"
    /\ count' = nvsCount
    /\ r' = 0 /\ w' = 0
    /\ pc' = IF nvsCount > kMaxCredentials THEN "trim" ELSE "compact"
    /\ UNCHANGED <<nvs, nvsCount, ghosts, faults>>

Crash ==
    /\ pc # "off" /\ crashes < MaxCrashes
    /\ crashes' = crashes + 1
    /\ moveCrash' = (moveCrash \/ pc = "move")
    /\ pc' = "off" /\ count' = 0 /\ r' = 0 /\ w' = 0
    /\ doomed' = {}
    /\ UNCHANGED <<nvs, nvsCount, live, deleted, used, failures, lossy, stuck>>

-----------------------------------------------------------------------------
(* add(): save(count_, record); count_++; putUInt("count", count_).  The    *)
(* caller is told true whatever the last write did.                        *)

HasRoomUnchecked == TRUE
HasRoom == count < kMaxCredentials

Add(id, u) ==
    /\ pc = "idle" /\ HasRoom /\ id \notin used
    /\ used' = used \cup {id}
    /\ \/ /\ Accepted
          /\ nvs' = [nvs EXCEPT ![count] = [id |-> id, user |-> u, ctr |-> 1]]
          /\ count' = count + 1
          /\ pc' = "addCount"
       \/ Refused /\ UNCHANGED <<nvs, count, pc>>
    /\ UNCHANGED <<nvsCount, r, w, live, doomed, deleted, crashes, lossy, moveCrash, stuck>>

AddCount ==
    /\ pc = "addCount"
    /\ \/ Accepted /\ nvsCount' = count /\ UNCHANGED lossy
       \/ Refused /\ lossy' = TRUE /\ UNCHANGED nvsCount
    /\ live' = live \cup {nvs[count - 1].id}
    /\ pc' = "idle"
    /\ UNCHANGED <<nvs, count, r, w, doomed, deleted, used, crashes, moveCrash, stuck>>

(* update() and updateCounter(): one save of the whole record, at the index *)
(* the caller got from a lookup.                                           *)
Rewrite(j, rec) ==
    /\ \/ Accepted /\ nvs' = [nvs EXCEPT ![j] = rec]
       \/ Refused /\ UNCHANGED nvs
    /\ UNCHANGED <<nvsCount, count, pc, r, w, ghosts, crashes, lossy, moveCrash, stuck>>

UpdatedFresh(rec, u) == [rec EXCEPT !.user = u, !.ctr = 1]
Updated(rec, u) == [rec EXCEPT !.user = u]

Update(j, id, u) ==
    /\ pc = "idle" /\ Found(j, id)
    /\ Rewrite(j, Updated(nvs[j], u))

UpdateCounter(j, id) ==
    /\ pc = "idle" /\ Found(j, id) /\ nvs[j].ctr < MaxCounter
    /\ Rewrite(j, [nvs[j] EXCEPT !.ctr = @ + 1])

(* removeByCredentialId(): prefs_.remove of the first match, then compact() *)
Delete(j, id) ==
    /\ pc = "idle" /\ Found(j, id)
    /\ Remove(j)
    /\ live' = live \ {id} /\ doomed' = {id}
    /\ pc' = "compact" /\ r' = 0 /\ w' = 0
    /\ UNCHANGED <<count, deleted, used>>

(* wipe(): the removes are those of trim with no slot kept.                 *)
Wipe ==
    /\ pc = "idle"
    /\ live' = {} /\ doomed' = used
    /\ pc' = "trim" /\ r' = 0 /\ w' = 0
    /\ UNCHANGED <<nvs, nvsCount, count, deleted, used, faults>>

-----------------------------------------------------------------------------
(* compact(), one iteration of its loops at a time.                         *)

Scanning == pc = "compact" /\ r < count

\* !load(readIndex): remove the key (nothing is there) and go on
AfterHoleBumped == w + 1
AfterHole == w
CompactSkip ==
    /\ Scanning /\ nvs[r] = NoRecord
    /\ r' = r + 1 /\ w' = AfterHole
    /\ UNCHANGED <<store, pc, ghosts, faults>>

CompactKeep ==
    /\ Scanning /\ nvs[r] # NoRecord /\ w = r
    /\ r' = r + 1 /\ w' = w + 1
    /\ UNCHANGED <<store, pc, ghosts, faults>>

\* save(writeIndex, record), whose result is ignored
MovedRemoveFirst == [nvs EXCEPT ![r] = NoRecord]
Moved == [nvs EXCEPT ![w] = nvs[r]]
CompactSave ==
    /\ Scanning /\ nvs[r] # NoRecord /\ w # r
    /\ \/ Accepted /\ nvs' = Moved /\ UNCHANGED lossy
       \/ Refused /\ lossy' = TRUE /\ UNCHANGED nvs
    /\ pc' = "move"
    /\ UNCHANGED <<nvsCount, count, r, w, ghosts, crashes, moveCrash, stuck>>

\* remove(readIndex)
CompactMove ==
    /\ pc = "move"
    /\ Remove(r)
    /\ r' = r + 1 /\ w' = w + 1 /\ pc' = "compact"
    /\ UNCHANGED <<count, ghosts>>

CompactScanned ==
    /\ pc = "compact" /\ r = count
    /\ pc' = "trim" /\ r' = w
    /\ UNCHANGED <<store, w, ghosts, faults>>

AfterTrimRetried == IF nvs'[r] = NoRecord THEN r + 1 ELSE r
AfterTrim == r + 1
Trim ==
    /\ pc = "trim" /\ r < kMaxCredentials
    /\ Remove(r)
    /\ r' = AfterTrim
    /\ UNCHANGED <<count, pc, w, ghosts>>

\* count_ = writeIndex; putUInt("count", count_); the operation returns
TrimDone ==
    /\ pc = "trim" /\ r = kMaxCredentials
    /\ count' = w
    /\ \/ Accepted /\ nvsCount' = w
       \/ Refused /\ UNCHANGED nvsCount
    /\ pc' = "idle" /\ r' = 0 /\ w' = 0
    /\ deleted' = deleted \cup doomed /\ doomed' = {}
    /\ UNCHANGED <<nvs, live, used, crashes, lossy, moveCrash, stuck>>

-----------------------------------------------------------------------------
Running ==
    \/ Boot \/ AddCount
    \/ CompactSkip \/ CompactKeep \/ CompactSave \/ CompactMove \/ CompactScanned
    \/ Trim \/ TrimDone

Requests ==
    \/ \E id \in CredIds, u \in Users : Add(id, u)
    \/ \E j \in Slots, id \in CredIds :
          UpdateCounter(j, id) \/ Delete(j, id) \/ \E u \in Users : Update(j, id, u)
    \/ Wipe

Next == Running \/ Requests \/ Crash

Spec == Init /\ [][Next]_vars

-----------------------------------------------------------------------------
(* A credential whose registration was confirmed, and whose removal was not *)
(* asked for, is in storage below the stored count at every instant: a      *)
(* power loss at any point of add, compact, delete or update leaves it to   *)
(* be found after begin().  The only exception is a refused write whose     *)
(* result the code ignores.                                                *)
LiveIsStored == ~lossy => \A id \in live : Below(nvsCount, id) # {}

(* Whenever the store is idle it finds every live credential (there are no  *)
(* holes that hide a record), its records are exactly the slots below      *)
(* count_, so remainingSlots() is the number of free slots.                *)
IdleIsDense ==
    (pc = "idle" /\ ~lossy) =>
        /\ \A id \in live : IsKnown(id)
        /\ \A j \in Slots : j < count => nvs[j] # NoRecord
        /\ ~stuck => \A j \in Slots : nvs[j] # NoRecord => j < count

(* Power loss is harmless for deletion at every point but one: unless power *)
(* was lost between the save and the remove of one move of compact(), no    *)
(* credential has two records and a deleted one has none.                  *)
CrashSafeOutsideMove ==
    (pc = "idle" /\ ~moveCrash /\ ~stuck) =>
        /\ \A j, k \in Slots : nvs[j] # NoRecord /\ nvs[j] = nvs[k] => j = k
        /\ \A j \in Slots : nvs[j] # NoRecord => nvs[j].id \notin deleted

(* The store is a map: a credential that was confirmed is what lookups find *)
(* under its id, now and after a restart, and it is changed by nothing but  *)
(* an operation on it, in one step, to what that operation asks for.        *)
(* Neither compact() moving records about nor a duplicate record left       *)
(* behind by a power loss ever brings an older count or user back (a stale  *)
(* copy is always the later one).                                           *)
First(n, id) == CHOOSE j \in Below(n, id) : IsFirst(j, Below(n, id))
Kept(id) == [user |-> nvs[First(nvsCount, id)].user, ctr |-> nvs[First(nvsCount, id)].ctr]

Map == INSTANCE CredentialMap WITH
    creds <- [id \in IF lossy THEN {} ELSE live |-> Kept(id)], intact <- ~lossy

IsMap == Map!Spec

(* The most steps an operation, or the recovery, can still take: a move is  *)
(* two, and every slot is trimmed at most once.                             *)
StepsLeft ==
    CASE pc = "idle"     -> 0
      [] pc = "addCount" -> 1
      [] pc = "trim"     -> kMaxCredentials - r + 1
      [] pc = "move"     -> 2 * (count - r) + kMaxCredentials + 2
      [] pc = "compact"  -> 2 * (count - r) + kMaxCredentials + 3
      [] OTHER           -> 3 * kMaxCredentials + 4   \* not begun: begin() and its compact()

(* Every operation, and the recovery at boot, returns: whatever is refused, *)
(* each step brings the end nearer.  From a power-up or a request at most   *)
(* StepsLeft steps are made before the next request, and no refused write   *)
(* or remove makes compact() go round again.                                *)
StepsRunOut == [][Running => StepsLeft' < StepsLeft]_vars

(* A credential whose deletion has returned is never found again:           *)
(* tools/ctaphid_probe.py:530 treats "deleted credential still signs" as an *)
(* error.  Does not hold: a move of compact() cut short by a power loss     *)
(* leaves two records, of which a later deletion removes one.              *)
DeletedStaysDeleted == pc = "idle" => \A id \in deleted : ~IsKnown(id)
=============================================================================
