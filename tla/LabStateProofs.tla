--------------------------- MODULE LabStateProofs ---------------------------
(***************************************************************************)
(* Proofs about LabState, for every set of PINs, every number of retries,  *)
(* resets and power losses, and any refused writes.                        *)
(*                                                                         *)
(* The invariants speak of idle moments only.  IInv says what links the    *)
(* keys to RAM at every moment, so that a power loss can come anywhere:    *)
(* each part holds while the keys it is about had no write refused.        *)
(***************************************************************************)
EXTENDS LabState, TLAPS

Nvs == [set : BOOLEAN, retries : Retries, hash : MaybePin,
        k : Secrets \cup {NoSecret}, sc : 0 .. MaxSignCount]

Saving == pc \in {"saveSet", "saveRetries", "saveHash"}
Wiping == pc \in {"remove", "removeNext", "ensure"}

\* What a restart would put in force.
Loaded == IF LoadedSet THEN nvs.hash ELSE NoPin

\* Which operation is where.
Places ==
    /\ Saving => op \in {"setPin", "changePin", "wrongPin", "rightPin", "reset"}
    /\ Wiping => op = "reset"
    /\ Saving /\ op = "reset" => ~pinSet /\ failed = 0
    /\ Saving /\ op # "reset" => pinSet

\* A secret is generated at most once per start and per reset.
Generations ==
    /\ generated <= crashes + resets + 1
    /\ pc = "off" \/ (op = "reset" /\ (Saving \/ Wiping)) => generated <= crashes + resets
    /\ nvs.k <= generated /\ master <= generated
    /\ pc # "off" => master # NoSecret
    /\ \A s \in Secrets : s > generated => s \notin issued /\ seen[s] = 0

\* An answer that says "wrong" is on its way: it is already counted in RAM, and
\* in storage once "retries" is written.
Pending(places) == IF op = "wrongPin" /\ pc \in places THEN 1 ELSE 0

Attempts ==
    Kept({"retries"}) =>
        /\ failed + nvs.retries + Pending({"saveHash", "answer"}) <= kPinMaxRetries
        /\ pc # "off" /\ pinSet =>
              failed + pinRetries + Pending({"saveSet", "saveRetries", "saveHash", "answer"})
                  <= kPinMaxRetries

Tokens ==
    (token # NoPin /\ pc # "off" /\ ~(Saving /\ op \in {"setPin", "changePin", "reset"})) =>
        pinSet /\ token = storedPin

\* Storage and RAM name the same PIN outside savePinState, and in it storage
\* names one that the host may expect.
InForce ==
    Kept({"set", "hash"}) =>
        /\ ~resetCut => Loaded \in expected
        /\ (~resetCut /\ ~nvs.set) =>
              nvs.hash = NoPin \/ (op = "reset" /\ pc \in {"saveRetries", "saveHash"})
        /\ pc # "off" /\ ~Saving => Loaded = PinInForce
        /\ pc \in {"saveRetries", "saveHash"} => nvs.set = pinSet
        /\ pc # "off" /\ ~resetCut => PinInForce \in expected
        /\ Saving => PinInForce \in expected

Guarded ==
    Kept({"set", "hash"}) => (residents => LoadedSet /\ (pc # "off" => pinSet))

\* Which secret storage holds.
Rotation ==
    Kept({"k"}) =>
        /\ pc \notin {"off", "removeNext", "ensure"} => master = nvs.k
        /\ pc \in {"removeNext", "ensure"} => nvs.k = NoSecret
        /\ nvs.k \notin dead
        /\ pc = "answer" /\ op = "reset" => master \notin issued
        /\ issued \ ended \subseteq {nvs.k}
        /\ op = "reset" /\ (Saving \/ Wiping \/ pc = "answer") => issued \subseteq ended

Counts ==
    Kept({"k", "sc"}) =>
        /\ nvs.k # NoSecret => seen[nvs.k] <= nvs.sc
        /\ pc = "answer" /\ op = "sign" => shown = nvs.sc /\ shown > seen[master]

IInv ==
    /\ TypeOK /\ Places /\ Generations
    /\ Attempts /\ Tokens /\ InForce /\ Guarded /\ Rotation /\ Counts

-----------------------------------------------------------------------------
(* The bounds as the arithmetic below uses them.                            *)
LEMMA Bounds ==
    /\ kPinMaxRetries \in Nat /\ kPinMaxRetries >= 1
    /\ MaxResets \in Nat /\ MaxSignCount \in Nat /\ MaxCrashes \in Nat
    /\ NoSecret \notin Secrets /\ Secrets \subseteq Nat
<1>1. kPinMaxRetries \in Nat /\ kPinMaxRetries >= 1
  BY RetriesArePositive
<1>2. MaxResets \in Nat /\ MaxSignCount \in Nat /\ MaxCrashes \in Nat
  BY BoundsAreNat
<1> QED
  BY <1>1, <1>2 DEF NoSecret, Secrets

(* A write of the key set changes it, if it is not refused, and no other.   *)
LEMMA PutSet ==
    ASSUME nvs \in Nvs, refused \in SUBSET Keys, NEW v \in BOOLEAN, Put("set", v)
    PROVE  /\ nvs' \in Nvs /\ refused' \in SUBSET Keys /\ refused \subseteq refused'
           /\ nvs'.retries = nvs.retries /\ nvs'.hash = nvs.hash
           /\ nvs'.k = nvs.k /\ nvs'.sc = nvs.sc
           /\ nvs'.set = v \/ nvs'.set = nvs.set
           /\ Kept({"set", "hash"})' => nvs'.set = v
<1>1. CASE nvs' = [nvs EXCEPT !["set"] = v] /\ refused' = refused
  BY <1>1 DEF Nvs
<1>2. CASE nvs' = nvs /\ refused' = refused \cup {"set"}
  BY <1>2 DEF Keys, Kept
<1> QED
  BY <1>1, <1>2 DEF Put

(* The same of the key retries.                                             *)
LEMMA PutRetries ==
    ASSUME nvs \in Nvs, refused \in SUBSET Keys, NEW v \in Retries, Put("retries", v)
    PROVE  /\ nvs' \in Nvs /\ refused' \in SUBSET Keys /\ refused \subseteq refused'
           /\ nvs'.set = nvs.set /\ nvs'.hash = nvs.hash
           /\ nvs'.k = nvs.k /\ nvs'.sc = nvs.sc
           /\ nvs'.retries = v \/ nvs'.retries = nvs.retries
           /\ Kept({"retries"})' => nvs'.retries = v
<1>1. CASE nvs' = [nvs EXCEPT !["retries"] = v] /\ refused' = refused
  BY <1>1 DEF Nvs
<1>2. CASE nvs' = nvs /\ refused' = refused \cup {"retries"}
  BY <1>2 DEF Keys, Kept
<1> QED
  BY <1>1, <1>2 DEF Put

(* The same of the key hash; that hash and set were kept goes together.     *)
LEMMA PutHash ==
    ASSUME nvs \in Nvs, refused \in SUBSET Keys, NEW v \in MaybePin, Put("hash", v)
    PROVE  /\ nvs' \in Nvs /\ refused' \in SUBSET Keys /\ refused \subseteq refused'
           /\ nvs'.set = nvs.set /\ nvs'.retries = nvs.retries
           /\ nvs'.k = nvs.k /\ nvs'.sc = nvs.sc
           /\ nvs'.hash = v \/ nvs'.hash = nvs.hash
           /\ Kept({"set", "hash"})' => nvs'.hash = v
<1>1. CASE nvs' = [nvs EXCEPT !["hash"] = v] /\ refused' = refused
  BY <1>1 DEF Nvs
<1>2. CASE nvs' = nvs /\ refused' = refused \cup {"hash"}
  BY <1>2 DEF Keys, Kept
<1> QED
  BY <1>1, <1>2 DEF Put

(* The same of the secret's key.                                            *)
LEMMA PutSecret ==
    ASSUME nvs \in Nvs, refused \in SUBSET Keys, NEW v \in Secrets \cup {NoSecret}, Put("k", v)
    PROVE  /\ nvs' \in Nvs /\ refused' \in SUBSET Keys /\ refused \subseteq refused'
           /\ nvs'.set = nvs.set /\ nvs'.retries = nvs.retries
           /\ nvs'.hash = nvs.hash /\ nvs'.sc = nvs.sc
           /\ nvs'.k = v \/ nvs'.k = nvs.k
           /\ Kept({"k"})' => nvs'.k = v
<1>1. CASE nvs' = [nvs EXCEPT !["k"] = v] /\ refused' = refused
  BY <1>1 DEF Nvs
<1>2. CASE nvs' = nvs /\ refused' = refused \cup {"k"}
  BY <1>2 DEF Keys, Kept
<1> QED
  BY <1>1, <1>2 DEF Put

(* The same of the counter's key; it says nothing unless the secret was     *)
(* kept.                                                                    *)
LEMMA PutCounter ==
    ASSUME nvs \in Nvs, refused \in SUBSET Keys, NEW v \in 0 .. MaxSignCount, Put("sc", v)
    PROVE  /\ nvs' \in Nvs /\ refused' \in SUBSET Keys /\ refused \subseteq refused'
           /\ nvs'.set = nvs.set /\ nvs'.retries = nvs.retries
           /\ nvs'.hash = nvs.hash /\ nvs'.k = nvs.k
           /\ nvs'.sc = v \/ nvs'.sc = nvs.sc
           /\ Kept({"k", "sc"})' => nvs'.sc = v
<1>1. CASE nvs' = [nvs EXCEPT !["sc"] = v] /\ refused' = refused
  BY <1>1 DEF Nvs
<1>2. CASE nvs' = nvs /\ refused' = refused \cup {"sc"}
  BY <1>2 DEF Keys, Kept
<1> QED
  BY <1>1, <1>2 DEF Put

(* Keys of which no write is refused so far had none refused before.        *)
LEMMA KeptBefore ==
    ASSUME refused \subseteq refused'
    PROVE  /\ \A keys : Kept(keys)' => Kept(keys)
           /\ Kept({"k", "sc"})' => Kept({"k"})'
BY DEF Kept

(* The types, with the sets that occur in them opened up.                   *)
LEMMA Types ==
    ASSUME TypeOK
    PROVE  /\ nvs \in Nvs /\ refused \in SUBSET Keys
           /\ nvs.retries \in Nat /\ nvs.retries <= kPinMaxRetries
           /\ nvs.k \in Nat /\ nvs.sc \in Nat /\ nvs.sc <= MaxSignCount
           /\ nvs.set \in BOOLEAN /\ nvs.hash \in MaybePin
           /\ nvs.k \in Secrets \cup {NoSecret}
           /\ pinRetries \in Nat /\ pinRetries <= kPinMaxRetries
           /\ master \in Nat /\ generated \in Nat /\ failed \in Nat
           /\ resets \in Nat /\ crashes \in Nat
<1>1. nvs \in Nvs /\ refused \in SUBSET Keys
  BY DEF TypeOK, Nvs
<1>2. /\ nvs.retries \in Retries /\ nvs.set \in BOOLEAN /\ nvs.hash \in MaybePin
      /\ nvs.k \in Secrets \cup {NoSecret} /\ nvs.sc \in 0 .. MaxSignCount
  BY <1>1 DEF Nvs
<1>3. /\ pinRetries \in Retries /\ failed \in Nat
      /\ master \in Secrets \cup {NoSecret} /\ generated \in Secrets \cup {0}
      /\ resets \in 0 .. MaxResets /\ crashes \in 0 .. MaxCrashes
  BY DEF TypeOK
<1>4. \A i \in Retries : i \in Nat /\ i <= kPinMaxRetries
  BY Bounds DEF Retries
<1>5. \A s \in Secrets \cup {NoSecret} : s \in Nat
  BY Bounds DEF NoSecret
<1>6. nvs.k \in Nat /\ master \in Nat /\ generated \in Nat
  BY <1>2, <1>3, <1>5 DEF NoSecret
<1>7. /\ nvs.retries \in Nat /\ nvs.retries <= kPinMaxRetries
      /\ pinRetries \in Nat /\ pinRetries <= kPinMaxRetries
  BY <1>2, <1>3, <1>4
<1>8. nvs.sc \in Nat /\ nvs.sc <= MaxSignCount /\ resets \in Nat /\ crashes \in Nat
  BY <1>2, <1>3, Bounds
<1> QED
  BY <1>1, <1>2, <1>3, <1>6, <1>7, <1>8

-----------------------------------------------------------------------------
(* Before the first start storage is erased.                                *)
LEMMA InitIInv == Init => IInv
<1> SUFFICES ASSUME Init PROVE IInv
  OBVIOUS
<1> USE Bounds, NoPinIsNone DEF Init
<1>1. TypeOK
  <2>1. nvs \in Nvs
    BY DEF Nvs, Retries, MaybePin, NoSecret
  <2>2. pinSet \in BOOLEAN /\ residents \in BOOLEAN /\ resetCut \in BOOLEAN
    BY Zenon
  <2>3. pinRetries \in Retries /\ shown \in 0 .. MaxSignCount /\ failed \in Nat
        /\ resets \in 0 .. MaxResets /\ crashes \in 0 .. MaxCrashes
    BY DEF Retries
  <2>4. seen \in [Secrets -> 0 .. MaxSignCount]
    OBVIOUS
  <2>5. pinSet <=> storedPin # NoPin
    OBVIOUS
  <2> QED
    BY <2>1, <2>2, <2>3, <2>4, <2>5 DEF TypeOK, Nvs, MaybePin, NoSecret
<1>2. Places /\ Generations
  BY DEF Places, Generations, Saving, Wiping, NoSecret
<1>3. Attempts /\ Tokens
  BY DEF Attempts, Tokens, Pending, Saving
<1>4. InForce /\ Guarded
  BY DEF InForce, Guarded, Loaded, LoadedSet, Saving
<1>5. Rotation /\ Counts
  BY DEF Rotation, Counts, NoSecret, Saving, Wiping
<1> QED
  BY <1>1, <1>2, <1>3, <1>4, <1>5 DEF IInv

-----------------------------------------------------------------------------
(* The first write of savePinState: the set flag says what RAM says.        *)
LEMMA SaveSetStep ==
    ASSUME IInv, SaveSet
    PROVE  IInv'
<1> USE Bounds, NoPinIsNone DEF IInv
<1>1. TypeOK
  OBVIOUS
<1>2. /\ nvs' \in Nvs /\ refused' \in SUBSET Keys /\ refused \subseteq refused'
      /\ nvs'.retries = nvs.retries /\ nvs'.hash = nvs.hash /\ nvs'.k = nvs.k /\ nvs'.sc = nvs.sc
      /\ nvs'.set = pinSet \/ nvs'.set = nvs.set
      /\ Kept({"set", "hash"})' => nvs'.set = pinSet
  BY <1>1, Types, PutSet DEF SaveSet, TypeOK
<1>3. TypeOK'
  BY <1>1, <1>2, Types DEF TypeOK, Nvs, SaveSet, ram, wrapped, bounds
<1>4. Places'
  BY <1>1, <1>2, Types, KeptBefore DEF SaveSet, ram, wrapped, bounds, Places, Saving, Wiping
<1>5. Generations'
  BY <1>1, <1>2, Types, KeptBefore
    DEF SaveSet, ram, wrapped, bounds, Generations, Saving, Wiping
<1>6. Attempts'
  BY <1>1, <1>2, Types, KeptBefore
    DEF SaveSet, ram, wrapped, bounds, Attempts, Pending, Kept, Saving, Places
<1>7. Tokens'
  BY <1>1, <1>2, Types, KeptBefore DEF SaveSet, ram, wrapped, bounds, Tokens, Saving
<1>8. InForce'
  BY <1>1, <1>2, Types, KeptBefore
    DEF SaveSet, ram, wrapped, bounds, InForce, Loaded, LoadedSet, PinInForce, Saving,
        Places
<1>9. Guarded'
  BY <1>1, <1>2, Types, KeptBefore
    DEF SaveSet, ram, wrapped, bounds, Guarded, LoadedSet, Saving, Places
<1>10. Rotation'
  BY <1>1, <1>2, Types, KeptBefore
    DEF SaveSet, ram, wrapped, bounds, Rotation, Saving, Wiping, Places
<1>11. Counts'
  BY <1>1, <1>2, Types, KeptBefore
    DEF SaveSet, ram, wrapped, bounds, Counts, Rotation, Saving, Wiping
<1> QED
  BY <1>3, <1>4, <1>5, <1>6, <1>7, <1>8, <1>9, <1>10, <1>11

(* Its second write: a pending attempt is now counted in storage.           *)
LEMMA SaveRetriesStep ==
    ASSUME IInv, SaveRetries
    PROVE  IInv'
<1> USE Bounds, NoPinIsNone DEF IInv
<1>1. TypeOK
  OBVIOUS
<1>2. /\ nvs' \in Nvs /\ refused' \in SUBSET Keys /\ refused \subseteq refused'
      /\ nvs'.set = nvs.set /\ nvs'.hash = nvs.hash /\ nvs'.k = nvs.k /\ nvs'.sc = nvs.sc
      /\ nvs'.retries = pinRetries \/ nvs'.retries = nvs.retries
      /\ Kept({"retries"})' => nvs'.retries = pinRetries
  BY <1>1, Types, PutRetries DEF SaveRetries, TypeOK
<1>3. TypeOK'
  BY <1>1, <1>2, Types DEF TypeOK, Nvs, SaveRetries, ram, wrapped, bounds
<1>4. Places'
  BY <1>1, <1>2, Types, KeptBefore DEF SaveRetries, ram, wrapped, bounds, Places, Saving, Wiping
<1>5. Generations'
  BY <1>1, <1>2, Types, KeptBefore
    DEF SaveRetries, ram, wrapped, bounds, Generations, Saving, Wiping
<1>6. Attempts'
  BY <1>1, <1>2, Types, KeptBefore
    DEF SaveRetries, ram, wrapped, bounds, Attempts, Pending, Kept, Saving, Places
<1>7. Tokens'
  BY <1>1, <1>2, Types, KeptBefore DEF SaveRetries, ram, wrapped, bounds, Tokens, Saving
<1>8. InForce'
  BY <1>1, <1>2, Types, KeptBefore
    DEF SaveRetries, ram, wrapped, bounds, InForce, Loaded, LoadedSet, PinInForce, Saving,
        Places
<1>9. Guarded'
  BY <1>1, <1>2, Types, KeptBefore
    DEF SaveRetries, ram, wrapped, bounds, Guarded, LoadedSet, Saving, Places
<1>10. Rotation'
  BY <1>1, <1>2, Types, KeptBefore
    DEF SaveRetries, ram, wrapped, bounds, Rotation, Saving, Wiping, Places
<1>11. Counts'
  BY <1>1, <1>2, Types, KeptBefore
    DEF SaveRetries, ram, wrapped, bounds, Counts, Rotation, Saving, Wiping
<1> QED
  BY <1>3, <1>4, <1>5, <1>6, <1>7, <1>8, <1>9, <1>10, <1>11

(* Its last write: storage and RAM name the same PIN, an old token is       *)
(* gone.                                                                    *)
LEMMA SaveHashStep ==
    ASSUME IInv, SaveHash
    PROVE  IInv'
<1> USE Bounds, NoPinIsNone DEF IInv
<1>1. TypeOK
  OBVIOUS
<1>2. /\ nvs' \in Nvs /\ refused' \in SUBSET Keys /\ refused \subseteq refused'
      /\ nvs'.set = nvs.set /\ nvs'.retries = nvs.retries /\ nvs'.k = nvs.k /\ nvs'.sc = nvs.sc
      /\ nvs'.hash = storedPin \/ nvs'.hash = nvs.hash
      /\ Kept({"set", "hash"})' => nvs'.hash = storedPin
  BY <1>1, Types, PutHash DEF SaveHash, SavedHash, TypeOK
<1>3. TypeOK'
  <2>1. resetCut' \in BOOLEAN /\ pinSet' \in BOOLEAN /\ residents' \in BOOLEAN
    BY <1>1, Zenon DEF SaveHash, TypeOK, pin
  <2>2. token' \in MaybePin
    BY <1>1 DEF SaveHash, ResetToken, TypeOK, MaybePin
  <2>3. pc' \in {"remove", "answer"}
    BY DEF SaveHash
  <2> QED
    BY <1>1, <1>2, <2>1, <2>2, <2>3 DEF TypeOK, Nvs, SaveHash, pin, wrapped, bounds
<1>4. Places'
  BY <1>1, <1>2, Types, KeptBefore
    DEF SaveHash, ResetToken, pin, wrapped, bounds, Places, Saving, Wiping
<1>5. Generations'
  BY <1>1, <1>2, Types, KeptBefore
    DEF SaveHash, ResetToken, pin, wrapped, bounds, Generations, Saving, Wiping
<1>6. Attempts'
  BY <1>1, <1>2, Types, KeptBefore
    DEF SaveHash, ResetToken, pin, wrapped, bounds, Attempts, Pending, Kept, Saving, Places
<1>7. Tokens'
  BY <1>1, <1>2, Types, KeptBefore
    DEF SaveHash, ResetToken, pin, wrapped, bounds, Tokens, Saving
<1>8. InForce'
  <2>1. ASSUME Kept({"set", "hash"})'
        PROVE  nvs'.hash = storedPin /\ nvs'.set = pinSet /\ PinInForce \in expected
    BY <2>1, <1>1, <1>2, KeptBefore DEF SaveHash, InForce, Saving
  <2>2. pc' \in {"remove", "answer"}
    BY DEF SaveHash
  <2> QED
    BY <1>1, <2>1, <2>2
      DEF InForce, SaveHash, pin, Loaded, LoadedSet, PinInForce, Saving, TypeOK
<1>9. Guarded'
  <2>1. ASSUME Kept({"set", "hash"})', residents
        PROVE  nvs'.hash = storedPin /\ nvs'.set = pinSet /\ pinSet
    BY <2>1, <1>1, <1>2, KeptBefore DEF SaveHash, InForce, Guarded
  <2> QED
    BY <1>1, <2>1 DEF Guarded, SaveHash, pin, LoadedSet, TypeOK
<1>10. Rotation'
  BY <1>1, <1>2, Types, KeptBefore
    DEF SaveHash, ResetToken, pin, wrapped, bounds, Rotation, Saving, Wiping, Places
<1>11. Counts'
  BY <1>1, <1>2, Types, KeptBefore
    DEF SaveHash, ResetToken, pin, wrapped, bounds, Counts, Rotation, Saving, Wiping, Places
<1> QED
  BY <1>3, <1>4, <1>5, <1>6, <1>7, <1>8, <1>9, <1>10, <1>11

(* A first PIN: either none or the new one may be found in force.           *)
LEMMA SetPinStep ==
    ASSUME IInv, NEW p \in Pins, SetPin(p)
    PROVE  IInv'
<1> USE Bounds, NoPinIsNone DEF IInv
<1>1. TypeOK
  OBVIOUS
<1>2. /\ nvs' = nvs /\ nvs' \in Nvs
      /\ refused' = refused /\ refused' \in SUBSET Keys /\ refused \subseteq refused'
  BY <1>1, Types DEF SetPin, Begin, ram, pin, wrapped, bounds, PinInForce
<1>3. TypeOK'
  BY <1>1, <1>2, Types
    DEF TypeOK, Nvs, SetPin, NewPin, Begin, ram, pin, wrapped, bounds, PinInForce, MaybePin,
        Retries
<1>4. Places'
  BY <1>1, <1>2, Types, KeptBefore
    DEF SetPin, NewPin, Begin, ram, pin, wrapped, bounds, PinInForce, Places, Saving, Wiping
<1>5. Generations'
  BY <1>1, <1>2, Types, KeptBefore
    DEF SetPin, NewPin, Begin, ram, pin, wrapped, bounds, PinInForce, Generations, Saving,
        Wiping
<1>6. Attempts'
  BY <1>1, <1>2, Types, KeptBefore
    DEF SetPin, NewPin, Begin, ram, pin, wrapped, bounds, PinInForce, Attempts, Pending,
        Kept, Saving, Places
<1>7. Tokens'
  BY <1>1, <1>2, Types, KeptBefore
    DEF SetPin, NewPin, Begin, ram, pin, wrapped, bounds, PinInForce, Tokens, Saving
<1>8. InForce'
  BY <1>1, <1>2, Types, KeptBefore
    DEF SetPin, NewPin, Begin, ram, pin, wrapped, bounds, PinInForce, InForce, Loaded,
        LoadedSet, PinInForce, Saving, Places
<1>9. Guarded'
  BY <1>1, <1>2, Types, KeptBefore
    DEF SetPin, NewPin, Begin, ram, pin, wrapped, bounds, PinInForce, Guarded, LoadedSet,
        Saving, Places
<1>10. Rotation'
  BY <1>1, <1>2, Types, KeptBefore
    DEF SetPin, NewPin, Begin, ram, pin, wrapped, bounds, PinInForce, Rotation, Saving,
        Wiping, Places
<1>11. Counts'
  BY <1>1, <1>2, Types, KeptBefore
    DEF SetPin, NewPin, Begin, ram, pin, wrapped, bounds, PinInForce, Counts, Rotation,
        Saving, Wiping
<1> QED
  BY <1>3, <1>4, <1>5, <1>6, <1>7, <1>8, <1>9, <1>10, <1>11

(* Another PIN: either the old or the new one may be found in force.        *)
LEMMA ChangePinStep ==
    ASSUME IInv, NEW p \in Pins, ChangePin(p)
    PROVE  IInv'
<1> USE Bounds, NoPinIsNone DEF IInv
<1>1. TypeOK
  OBVIOUS
<1>2. /\ nvs' = nvs /\ nvs' \in Nvs
      /\ refused' = refused /\ refused' \in SUBSET Keys /\ refused \subseteq refused'
  BY <1>1, Types DEF ChangePin, Begin, ram, pin, wrapped, bounds, PinInForce
<1>3. TypeOK'
  BY <1>1, <1>2, Types
    DEF TypeOK, Nvs, ChangePin, NewPin, Begin, ram, pin, wrapped, bounds, PinInForce,
        MaybePin, Retries
<1>4. Places'
  BY <1>1, <1>2, Types, KeptBefore
    DEF ChangePin, NewPin, Begin, ram, pin, wrapped, bounds, PinInForce, Places, Saving,
        Wiping
<1>5. Generations'
  BY <1>1, <1>2, Types, KeptBefore
    DEF ChangePin, NewPin, Begin, ram, pin, wrapped, bounds, PinInForce, Generations, Saving,
        Wiping
<1>6. Attempts'
  BY <1>1, <1>2, Types, KeptBefore
    DEF ChangePin, NewPin, Begin, ram, pin, wrapped, bounds, PinInForce, Attempts, Pending,
        Kept, Saving, Places
<1>7. Tokens'
  BY <1>1, <1>2, Types, KeptBefore
    DEF ChangePin, NewPin, Begin, ram, pin, wrapped, bounds, PinInForce, Tokens, Saving
<1>8. InForce'
  BY <1>1, <1>2, Types, KeptBefore
    DEF ChangePin, NewPin, Begin, ram, pin, wrapped, bounds, PinInForce, InForce, Loaded,
        LoadedSet, PinInForce, Saving, Places
<1>9. Guarded'
  BY <1>1, <1>2, Types, KeptBefore
    DEF ChangePin, NewPin, Begin, ram, pin, wrapped, bounds, PinInForce, Guarded, LoadedSet,
        Saving, Places
<1>10. Rotation'
  BY <1>1, <1>2, Types, KeptBefore
    DEF ChangePin, NewPin, Begin, ram, pin, wrapped, bounds, PinInForce, Rotation, Saving,
        Wiping, Places
<1>11. Counts'
  BY <1>1, <1>2, Types, KeptBefore
    DEF ChangePin, NewPin, Begin, ram, pin, wrapped, bounds, PinInForce, Counts, Rotation,
        Saving, Wiping
<1> QED
  BY <1>3, <1>4, <1>5, <1>6, <1>7, <1>8, <1>9, <1>10, <1>11

(* A wrong PIN is counted in RAM before anything is written.                *)
LEMMA GetTokenWrongStep ==
    ASSUME IInv, GetTokenWrong
    PROVE  IInv'
<1> USE Bounds, NoPinIsNone DEF IInv
<1>1. TypeOK
  OBVIOUS
<1>2. /\ nvs' = nvs /\ nvs' \in Nvs
      /\ refused' = refused /\ refused' \in SUBSET Keys /\ refused \subseteq refused'
  BY <1>1, Types DEF GetTokenWrong, Begin, ram, pin, wrapped, bounds, PinInForce
<1>3. TypeOK'
  BY <1>1, <1>2, Types
    DEF TypeOK, Nvs, GetTokenWrong, Counted, Begin, ram, pin, wrapped, bounds, PinInForce,
        Retries
<1>4. Places'
  BY <1>1, <1>2, Types, KeptBefore
    DEF GetTokenWrong, Counted, Begin, ram, pin, wrapped, bounds, PinInForce, Places, Saving,
        Wiping
<1>5. Generations'
  BY <1>1, <1>2, Types, KeptBefore
    DEF GetTokenWrong, Counted, Begin, ram, pin, wrapped, bounds, PinInForce, Generations,
        Saving, Wiping
<1>6. Attempts'
  BY <1>1, <1>2, Types, KeptBefore
    DEF GetTokenWrong, Counted, Begin, ram, pin, wrapped, bounds, PinInForce, Attempts,
        Pending, Kept, Saving, Places
<1>7. Tokens'
  BY <1>1, <1>2, Types, KeptBefore
    DEF GetTokenWrong, Counted, Begin, ram, pin, wrapped, bounds, PinInForce, Tokens, Saving
<1>8. InForce'
  BY <1>1, <1>2, Types, KeptBefore
    DEF GetTokenWrong, Counted, Begin, ram, pin, wrapped, bounds, PinInForce, InForce,
        Loaded, LoadedSet, PinInForce, Saving, Places
<1>9. Guarded'
  BY <1>1, <1>2, Types, KeptBefore
    DEF GetTokenWrong, Counted, Begin, ram, pin, wrapped, bounds, PinInForce, Guarded,
        LoadedSet, Saving, Places
<1>10. Rotation'
  BY <1>1, <1>2, Types, KeptBefore
    DEF GetTokenWrong, Counted, Begin, ram, pin, wrapped, bounds, PinInForce, Rotation,
        Saving, Wiping, Places
<1>11. Counts'
  BY <1>1, <1>2, Types, KeptBefore
    DEF GetTokenWrong, Counted, Begin, ram, pin, wrapped, bounds, PinInForce, Counts,
        Rotation, Saving, Wiping
<1> QED
  BY <1>3, <1>4, <1>5, <1>6, <1>7, <1>8, <1>9, <1>10, <1>11

(* The right PIN gives all retries back and a token for it.                 *)
LEMMA GetTokenRightStep ==
    ASSUME IInv, GetTokenRight
    PROVE  IInv'
<1> USE Bounds, NoPinIsNone DEF IInv
<1>1. TypeOK
  OBVIOUS
<1>2. /\ nvs' = nvs /\ nvs' \in Nvs
      /\ refused' = refused /\ refused' \in SUBSET Keys /\ refused \subseteq refused'
  BY <1>1, Types DEF GetTokenRight, Begin, ram, pin, wrapped, bounds, PinInForce
<1>3. TypeOK'
  BY <1>1, <1>2, Types
    DEF TypeOK, Nvs, GetTokenRight, Begin, ram, pin, wrapped, bounds, PinInForce, Retries
<1>4. Places'
  BY <1>1, <1>2, Types, KeptBefore
    DEF GetTokenRight, Begin, ram, pin, wrapped, bounds, PinInForce, Places, Saving, Wiping
<1>5. Generations'
  BY <1>1, <1>2, Types, KeptBefore
    DEF GetTokenRight, Begin, ram, pin, wrapped, bounds, PinInForce, Generations, Saving,
        Wiping
<1>6. Attempts'
  BY <1>1, <1>2, Types, KeptBefore
    DEF GetTokenRight, Begin, ram, pin, wrapped, bounds, PinInForce, Attempts, Pending, Kept,
        Saving, Places
<1>7. Tokens'
  BY <1>1, <1>2, Types, KeptBefore
    DEF GetTokenRight, Begin, ram, pin, wrapped, bounds, PinInForce, Tokens, Saving
<1>8. InForce'
  BY <1>1, <1>2, Types, KeptBefore
    DEF GetTokenRight, Begin, ram, pin, wrapped, bounds, PinInForce, InForce, Loaded,
        LoadedSet, PinInForce, Saving, Places
<1>9. Guarded'
  BY <1>1, <1>2, Types, KeptBefore
    DEF GetTokenRight, Begin, ram, pin, wrapped, bounds, PinInForce, Guarded, LoadedSet,
        Saving, Places
<1>10. Rotation'
  BY <1>1, <1>2, Types, KeptBefore
    DEF GetTokenRight, Begin, ram, pin, wrapped, bounds, PinInForce, Rotation, Saving,
        Wiping, Places
<1>11. Counts'
  BY <1>1, <1>2, Types, KeptBefore
    DEF GetTokenRight, Begin, ram, pin, wrapped, bounds, PinInForce, Counts, Rotation,
        Saving, Wiping
<1> QED
  BY <1>3, <1>4, <1>5, <1>6, <1>7, <1>8, <1>9, <1>10, <1>11

(* A reset wipes the store, then clears the PIN in RAM.                     *)
LEMMA ResetStep ==
    ASSUME IInv, Reset
    PROVE  IInv'
<1> USE Bounds, NoPinIsNone DEF IInv
<1>1. TypeOK
  OBVIOUS
<1>2. /\ nvs' = nvs /\ nvs' \in Nvs
      /\ refused' = refused /\ refused' \in SUBSET Keys /\ refused \subseteq refused'
  BY <1>1, Types DEF Reset, Begin, ram, pin, wrapped, bounds, PinInForce
<1>3. TypeOK'
  <2>1. residents' \in BOOLEAN /\ resetCut' \in BOOLEAN /\ pinSet' = FALSE
    BY <1>1, Zenon DEF Reset, Wiped, Begin, TypeOK
  <2>2. expected' \in SUBSET MaybePin
    BY <1>1 DEF Reset, Begin, PinInForce, TypeOK, MaybePin
  <2>3. resets' \in 0 .. MaxResets /\ pinRetries' \in Retries
    BY <1>1 DEF Reset, TypeOK, Retries
  <2> QED
    BY <1>1, <1>2, <2>1, <2>2, <2>3 DEF TypeOK, Nvs, Reset, Begin, MaybePin
<1>4. Places'
  BY <1>1, <1>2, Types, KeptBefore
    DEF Reset, Wiped, Begin, ram, pin, wrapped, bounds, PinInForce, Places, Saving, Wiping
<1>5. Generations'
  BY <1>1, <1>2, Types, KeptBefore
    DEF Reset, Wiped, Begin, ram, pin, wrapped, bounds, PinInForce, Generations, Saving,
        Wiping
<1>6. Attempts'
  BY <1>1, <1>2, Types, KeptBefore
    DEF Reset, Wiped, Begin, ram, pin, wrapped, bounds, PinInForce, Attempts, Pending, Kept,
        Saving, Places
<1>7. Tokens'
  BY <1>1, <1>2, Types, KeptBefore
    DEF Reset, Wiped, Begin, ram, pin, wrapped, bounds, PinInForce, Tokens, Saving
<1>8. InForce'
  BY <1>1, <1>2, Types, KeptBefore
    DEF Reset, Wiped, Begin, ram, pin, wrapped, bounds, PinInForce, InForce, Loaded,
        LoadedSet, PinInForce, Saving, Places
<1>9. Guarded'
  BY <1>1, <1>2, Types, KeptBefore
    DEF Reset, Wiped, Begin, ram, pin, wrapped, bounds, PinInForce, Guarded, LoadedSet,
        Saving, Places
<1>10. Rotation'
  BY <1>1, <1>2, Types, KeptBefore
    DEF Reset, Wiped, Begin, ram, pin, wrapped, bounds, PinInForce, Rotation, Saving, Wiping,
        Places
<1>11. Counts'
  BY <1>1, <1>2, Types, KeptBefore
    DEF Reset, Wiped, Begin, ram, pin, wrapped, bounds, PinInForce, Counts, Rotation, Saving,
        Wiping
<1> QED
  BY <1>3, <1>4, <1>5, <1>6, <1>7, <1>8, <1>9, <1>10, <1>11

(* A power loss leaves the keys at what the parts say of them for pc =      *)
(* off.                                                                     *)
LEMMA CrashStep ==
    ASSUME IInv, Crash
    PROVE  IInv'
<1> USE Bounds, NoPinIsNone DEF IInv
<1>1. TypeOK
  OBVIOUS
<1>2. /\ nvs' = nvs /\ nvs' \in Nvs
      /\ refused' = refused /\ refused' \in SUBSET Keys /\ refused \subseteq refused'
  BY <1>1, Types DEF Crash, Begin, ram, pin, wrapped, bounds, PinInForce
<1>3. TypeOK'
  BY <1>1, <1>2, Types DEF TypeOK, Nvs, Crash, ram, wrapped, bounds
<1>4. Places'
  BY <1>1, <1>2, Types, KeptBefore DEF Crash, ram, wrapped, bounds, Places, Saving, Wiping
<1>5. Generations'
  BY <1>1, <1>2, Types, KeptBefore DEF Crash, ram, wrapped, bounds, Generations, Saving, Wiping
<1>6. Attempts'
  BY <1>1, <1>2, Types, KeptBefore
    DEF Crash, ram, wrapped, bounds, Attempts, Pending, Kept, Saving, Places
<1>7. Tokens'
  BY <1>1, <1>2, Types, KeptBefore DEF Crash, ram, wrapped, bounds, Tokens, Saving
<1>8. InForce'
  BY <1>1, <1>2, Types, KeptBefore
    DEF Crash, ram, wrapped, bounds, InForce, Loaded, LoadedSet, PinInForce, Saving, Places
<1>9. Guarded'
  BY <1>1, <1>2, Types, KeptBefore
    DEF Crash, ram, wrapped, bounds, Guarded, LoadedSet, Saving, Places
<1>10. Rotation'
  BY <1>1, <1>2, Types, KeptBefore
    DEF Crash, ram, wrapped, bounds, Rotation, Saving, Wiping, Places
<1>11. Counts'
  BY <1>1, <1>2, Types, KeptBefore
    DEF Crash, ram, wrapped, bounds, Counts, Rotation, Saving, Wiping
<1> QED
  BY <1>3, <1>4, <1>5, <1>6, <1>7, <1>8, <1>9, <1>10, <1>11

(* A token means that a PIN is in force, in storage too.                    *)
LEMMA RegisterResidentStep ==
    ASSUME IInv, RegisterResident
    PROVE  IInv'
<1> USE Bounds, NoPinIsNone DEF IInv
<1>1. TypeOK
  OBVIOUS
<1>2. /\ nvs' = nvs /\ nvs' \in Nvs
      /\ refused' = refused /\ refused' \in SUBSET Keys /\ refused \subseteq refused'
  BY <1>1, Types DEF RegisterResident
<1>3. TypeOK'
  BY <1>1, <1>2, Types DEF TypeOK, Nvs, RegisterResident, ram, wrapped, bounds, PinInForce
<1>4. Places'
  BY <1>1, <1>2, Types, KeptBefore
    DEF RegisterResident, ram, wrapped, bounds, PinInForce, Places, Saving, Wiping
<1>5. Generations'
  BY <1>1, <1>2, Types, KeptBefore
    DEF RegisterResident, ram, wrapped, bounds, PinInForce, Generations, Saving, Wiping
<1>6. Attempts'
  BY <1>1, <1>2, Types, KeptBefore
    DEF RegisterResident, ram, wrapped, bounds, PinInForce, Attempts, Pending, Kept, Saving,
        Places
<1>7. Tokens'
  BY <1>1, <1>2, Types, KeptBefore
    DEF RegisterResident, ram, wrapped, bounds, PinInForce, Tokens, Saving
<1>8. InForce'
  BY <1>1, <1>2, Types, KeptBefore
    DEF RegisterResident, ram, wrapped, bounds, PinInForce, InForce, Loaded, LoadedSet,
        PinInForce, Saving, Places
<1>9. Guarded'
  BY <1>1, <1>2, Types, KeptBefore
    DEF RegisterResident, ram, wrapped, bounds, PinInForce, Guarded, LoadedSet, Saving,
        Places, InForce, Tokens, Loaded, TypeOK
<1>10. Rotation'
  BY <1>1, <1>2, Types, KeptBefore
    DEF RegisterResident, ram, wrapped, bounds, PinInForce, Rotation, Saving, Wiping, Places
<1>11. Counts'
  BY <1>1, <1>2, Types, KeptBefore
    DEF RegisterResident, ram, wrapped, bounds, PinInForce, Counts, Rotation, Saving, Wiping
<1> QED
  BY <1>3, <1>4, <1>5, <1>6, <1>7, <1>8, <1>9, <1>10, <1>11

(* An id is handed out under the secret that storage holds.                 *)
LEMMA RegisterStatelessStep ==
    ASSUME IInv, RegisterStateless
    PROVE  IInv'
<1> USE Bounds, NoPinIsNone DEF IInv
<1>1. TypeOK
  OBVIOUS
<1>2. /\ nvs' = nvs /\ nvs' \in Nvs
      /\ refused' = refused /\ refused' \in SUBSET Keys /\ refused \subseteq refused'
  BY <1>1, Types DEF RegisterStateless
<1>3. TypeOK'
  <2>1. master \in Secrets
    BY <1>1 DEF RegisterStateless, Generations, TypeOK
  <2>2. seen' \in [Secrets -> 0 .. MaxSignCount]
    BY <1>1, <2>1, Types DEF RegisterStateless, TypeOK
  <2> QED
    BY <1>1, <1>2, <2>1, <2>2 DEF TypeOK, Nvs, RegisterStateless, ram, bounds
<1>4. Places'
  BY <1>1, <1>2, Types, KeptBefore DEF RegisterStateless, ram, bounds, Places, Saving, Wiping
<1>5. Generations'
  BY <1>1, <1>2, Types, KeptBefore
    DEF RegisterStateless, ram, bounds, Generations, Saving, Wiping
<1>6. Attempts'
  BY <1>1, <1>2, Types, KeptBefore
    DEF RegisterStateless, ram, bounds, Attempts, Pending, Kept, Saving, Places
<1>7. Tokens'
  BY <1>1, <1>2, Types, KeptBefore DEF RegisterStateless, ram, bounds, Tokens, Saving
<1>8. InForce'
  BY <1>1, <1>2, Types, KeptBefore
    DEF RegisterStateless, ram, bounds, InForce, Loaded, LoadedSet, PinInForce, Saving,
        Places
<1>9. Guarded'
  BY <1>1, <1>2, Types, KeptBefore
    DEF RegisterStateless, ram, bounds, Guarded, LoadedSet, Saving, Places
<1>10. Rotation'
  BY <1>1, <1>2, Types, KeptBefore
    DEF RegisterStateless, ram, bounds, Rotation, Saving, Wiping, Places
<1>11. Counts'
  BY <1>1, <1>2, Types, KeptBefore
    DEF RegisterStateless, ram, bounds, Counts, Rotation, Saving, Wiping
<1> QED
  BY <1>3, <1>4, <1>5, <1>6, <1>7, <1>8, <1>9, <1>10, <1>11

(* The host learns the outcome: what was pending is now counted as failed.  *)
LEMMA AnswerStep ==
    ASSUME IInv, Answer
    PROVE  IInv'
<1> USE Bounds, NoPinIsNone DEF IInv
<1>1. TypeOK
  OBVIOUS
<1>2. /\ nvs' = nvs /\ nvs' \in Nvs
      /\ refused' = refused /\ refused' \in SUBSET Keys /\ refused \subseteq refused'
  BY <1>1, Types DEF Answer
<1>3. TypeOK'
  <2>1. seen' \in [Secrets -> 0 .. MaxSignCount]
    BY <1>1 DEF Answer, TypeOK
  <2>2. expected' \in SUBSET MaybePin
    BY <1>1 DEF Answer, PinInForce, TypeOK, MaybePin
  <2>3. failed' \in Nat /\ dead' \in SUBSET issued'
    BY <1>1 DEF Answer, TypeOK
  <2> QED
    BY <1>1, <1>2, <2>1, <2>2, <2>3 DEF TypeOK, Nvs, Answer, ram, bounds
<1>4. Places'
  BY <1>1, <1>2, Types, KeptBefore DEF Answer, ram, bounds, PinInForce, Places, Saving, Wiping
<1>5. Generations'
  BY <1>1, <1>2, Types, KeptBefore
    DEF Answer, ram, bounds, PinInForce, Generations, Saving, Wiping
<1>6. Attempts'
  BY <1>1, <1>2, Types, KeptBefore
    DEF Answer, ram, bounds, PinInForce, Attempts, Pending, Kept, Saving, Places
<1>7. Tokens'
  BY <1>1, <1>2, Types, KeptBefore DEF Answer, ram, bounds, PinInForce, Tokens, Saving
<1>8. InForce'
  BY <1>1, <1>2, Types, KeptBefore
    DEF Answer, ram, bounds, PinInForce, InForce, Loaded, LoadedSet, PinInForce, Saving,
        Places
<1>9. Guarded'
  BY <1>1, <1>2, Types, KeptBefore
    DEF Answer, ram, bounds, PinInForce, Guarded, LoadedSet, Saving, Places
<1>10. Rotation'
  BY <1>1, <1>2, Types, KeptBefore
    DEF Answer, ram, bounds, PinInForce, Rotation, Saving, Wiping, Places
<1>11. Counts'
  BY <1>1, <1>2, Types, KeptBefore
    DEF Answer, ram, bounds, PinInForce, Counts, Rotation, Saving, Wiping
<1> QED
  BY <1>3, <1>4, <1>5, <1>6, <1>7, <1>8, <1>9, <1>10, <1>11

(* The next count is stored before it is shown.                             *)
LEMMA SignStep ==
    ASSUME IInv, Sign
    PROVE  IInv'
<1> USE Bounds, NoPinIsNone DEF IInv
<1>1. TypeOK
  OBVIOUS
<1>2. /\ nvs' \in Nvs /\ refused' \in SUBSET Keys /\ refused \subseteq refused'
      /\ nvs'.set = nvs.set /\ nvs'.retries = nvs.retries /\ nvs'.hash = nvs.hash /\ nvs'.k = nvs.k
      /\ nvs'.sc = nvs.sc + 1 \/ nvs'.sc = nvs.sc
      /\ Kept({"k", "sc"})' => nvs'.sc = nvs.sc + 1
  BY <1>1, Types, PutCounter DEF Sign, TypeOK
<1>3. TypeOK'
  BY <1>1, <1>2, Types DEF TypeOK, Nvs, Sign, ram, wrapped, bounds
<1>4. Places'
  BY <1>1, <1>2, Types, KeptBefore DEF Sign, ram, wrapped, bounds, Places, Saving, Wiping
<1>5. Generations'
  BY <1>1, <1>2, Types, KeptBefore DEF Sign, ram, wrapped, bounds, Generations, Saving, Wiping
<1>6. Attempts'
  BY <1>1, <1>2, Types, KeptBefore
    DEF Sign, ram, wrapped, bounds, Attempts, Pending, Kept, Saving, Places
<1>7. Tokens'
  BY <1>1, <1>2, Types, KeptBefore DEF Sign, ram, wrapped, bounds, Tokens, Saving
<1>8. InForce'
  BY <1>1, <1>2, Types, KeptBefore
    DEF Sign, ram, wrapped, bounds, InForce, Loaded, LoadedSet, PinInForce, Saving, Places
<1>9. Guarded'
  BY <1>1, <1>2, Types, KeptBefore
    DEF Sign, ram, wrapped, bounds, Guarded, LoadedSet, Saving, Places
<1>10. Rotation'
  BY <1>1, <1>2, Types, KeptBefore
    DEF Sign, ram, wrapped, bounds, Rotation, Saving, Wiping, Places
<1>11. Counts'
  <2>1. master # NoSecret /\ master \in Secrets
    BY <1>1 DEF Sign, Generations, TypeOK
  <2>2. ASSUME Kept({"k", "sc"})'
        PROVE  nvs'.sc = nvs.sc + 1 /\ nvs.k = master /\ seen[master] <= nvs.sc
    BY <1>2, <2>1, <2>2, KeptBefore DEF Sign, Counts, Rotation
  <2>3. seen[master] \in Nat
    BY <1>1, <2>1 DEF TypeOK
  <2> QED
    BY <1>2, <2>2, <2>3, Types DEF Counts, Sign, ram, wrapped
<1> QED
  BY <1>3, <1>4, <1>5, <1>6, <1>7, <1>8, <1>9, <1>10, <1>11

(* The secret is removed first: no counter is left to it that could         *)
(* restart.                                                                 *)
LEMMA RemoveFirstStep ==
    ASSUME IInv, RemoveFirst
    PROVE  IInv'
<1> USE Bounds, NoPinIsNone DEF IInv
<1>1. TypeOK
  OBVIOUS
<1>2. /\ nvs' \in Nvs /\ refused' \in SUBSET Keys /\ refused \subseteq refused'
      /\ nvs'.set = nvs.set /\ nvs'.retries = nvs.retries /\ nvs'.hash = nvs.hash /\ nvs'.sc = nvs.sc
      /\ nvs'.k = NoSecret \/ nvs'.k = nvs.k
      /\ Kept({"k"})' => nvs'.k = NoSecret
  BY <1>1, Types, PutSecret DEF RemoveFirst, RemovalOrder, SecretFirst, Default, TypeOK
<1>3. TypeOK'
  BY <1>1, <1>2, Types DEF TypeOK, Nvs, RemoveFirst, ram, wrapped, bounds
<1>4. Places'
  BY <1>1, <1>2, Types, KeptBefore DEF RemoveFirst, ram, wrapped, bounds, Places, Saving, Wiping
<1>5. Generations'
  BY <1>1, <1>2, Types, KeptBefore
    DEF RemoveFirst, ram, wrapped, bounds, Generations, Saving, Wiping, NoSecret
<1>6. Attempts'
  BY <1>1, <1>2, Types, KeptBefore
    DEF RemoveFirst, ram, wrapped, bounds, Attempts, Pending, Kept, Saving, Places
<1>7. Tokens'
  BY <1>1, <1>2, Types, KeptBefore DEF RemoveFirst, ram, wrapped, bounds, Tokens, Saving
<1>8. InForce'
  BY <1>1, <1>2, Types, KeptBefore
    DEF RemoveFirst, ram, wrapped, bounds, InForce, Loaded, LoadedSet, PinInForce, Saving,
        Places
<1>9. Guarded'
  BY <1>1, <1>2, Types, KeptBefore
    DEF RemoveFirst, ram, wrapped, bounds, Guarded, LoadedSet, Saving, Places
<1>10. Rotation'
  BY <1>1, <1>2, Types, KeptBefore
    DEF RemoveFirst, ram, wrapped, bounds, Rotation, Saving, Wiping, Places, NoSecret,
        TypeOK
<1>11. Counts'
  BY <1>1, <1>2, Types, KeptBefore
    DEF RemoveFirst, ram, wrapped, bounds, Counts, Rotation, Saving, Wiping
<1> QED
  BY <1>3, <1>4, <1>5, <1>6, <1>7, <1>8, <1>9, <1>10, <1>11

(* Its counter is removed when no secret is left that it could count for.   *)
LEMMA RemoveSecondStep ==
    ASSUME IInv, RemoveSecond
    PROVE  IInv'
<1> USE Bounds, NoPinIsNone DEF IInv
<1>1. TypeOK
  OBVIOUS
<1>2. /\ nvs' \in Nvs /\ refused' \in SUBSET Keys /\ refused \subseteq refused'
      /\ nvs'.set = nvs.set /\ nvs'.retries = nvs.retries /\ nvs'.hash = nvs.hash /\ nvs'.k = nvs.k
      /\ nvs'.sc = 0 \/ nvs'.sc = nvs.sc
      /\ Kept({"k", "sc"})' => nvs'.sc = 0
  BY <1>1, Types, PutCounter DEF RemoveSecond, RemovalOrder, SecretFirst, Default, TypeOK
<1>3. TypeOK'
  BY <1>1, <1>2, Types DEF TypeOK, Nvs, RemoveSecond, ram, wrapped, bounds
<1>4. Places'
  BY <1>1, <1>2, Types, KeptBefore
    DEF RemoveSecond, ram, wrapped, bounds, Places, Saving, Wiping
<1>5. Generations'
  BY <1>1, <1>2, Types, KeptBefore
    DEF RemoveSecond, ram, wrapped, bounds, Generations, Saving, Wiping
<1>6. Attempts'
  BY <1>1, <1>2, Types, KeptBefore
    DEF RemoveSecond, ram, wrapped, bounds, Attempts, Pending, Kept, Saving, Places
<1>7. Tokens'
  BY <1>1, <1>2, Types, KeptBefore DEF RemoveSecond, ram, wrapped, bounds, Tokens, Saving
<1>8. InForce'
  BY <1>1, <1>2, Types, KeptBefore
    DEF RemoveSecond, ram, wrapped, bounds, InForce, Loaded, LoadedSet, PinInForce, Saving,
        Places
<1>9. Guarded'
  BY <1>1, <1>2, Types, KeptBefore
    DEF RemoveSecond, ram, wrapped, bounds, Guarded, LoadedSet, Saving, Places
<1>10. Rotation'
  BY <1>1, <1>2, Types, KeptBefore
    DEF RemoveSecond, ram, wrapped, bounds, Rotation, Saving, Wiping, Places
<1>11. Counts'
  BY <1>1, <1>2, Types, KeptBefore
    DEF RemoveSecond, ram, wrapped, bounds, Counts, Rotation, Saving, Wiping
<1> QED
  BY <1>3, <1>4, <1>5, <1>6, <1>7, <1>8, <1>9, <1>10, <1>11

(* ensureSecret() leaves a secret in RAM: the stored one, or a fresh one    *)
(* that it stores.                                                          *)
LEMMA SecretEnsured ==
    ASSUME TypeOK, Generations, generated <= crashes + resets, EnsureSecret
    PROVE  /\ nvs' \in Nvs /\ refused' \in SUBSET Keys /\ refused \subseteq refused'
           /\ nvs'.set = nvs.set /\ nvs'.retries = nvs.retries
           /\ nvs'.hash = nvs.hash /\ nvs'.sc = nvs.sc
           /\ master' \in Secrets /\ generated' \in Secrets \cup {0}
           /\ nvs'.k \in Secrets \cup {NoSecret}
           /\ Kept({"k"})' => nvs'.k = master'
           /\ \/ generated' = generated /\ nvs'.k = nvs.k /\ master' = nvs.k
              \/ /\ generated' = generated + 1 /\ master' = generated + 1
                 /\ nvs.k = NoSecret /\ nvs'.k \in {NoSecret, generated + 1}
<1>1. CASE nvs.k # NoSecret
  BY <1>1, Types DEF EnsureSecret, TypeOK
<1>2. CASE nvs.k = NoSecret
  <2>1. generated + 1 \in Secrets
    BY Types, Bounds DEF TypeOK, Secrets
  <2>2. Put("k", generated + 1) /\ generated' = generated + 1 /\ master' = generated + 1
    BY <1>2 DEF EnsureSecret
  <2> QED
    BY <1>2, <2>1, <2>2, Types, PutSecret DEF Nvs
<1> QED
  BY <1>1, <1>2

(* A start loads what storage holds.                                        *)
LEMMA BootStep ==
    ASSUME IInv, Boot
    PROVE  IInv'
<1> USE Bounds, NoPinIsNone DEF IInv
<1>1. TypeOK
  OBVIOUS
<1>2. /\ nvs' \in Nvs /\ refused' \in SUBSET Keys /\ refused \subseteq refused'
      /\ nvs'.set = nvs.set /\ nvs'.retries = nvs.retries
      /\ nvs'.hash = nvs.hash /\ nvs'.sc = nvs.sc
      /\ master' \in Secrets /\ generated' \in Secrets \cup {0}
      /\ nvs'.k \in Secrets \cup {NoSecret}
      /\ Kept({"k"})' => nvs'.k = master'
      /\ \/ generated' = generated /\ nvs'.k = nvs.k /\ master' = nvs.k
         \/ /\ generated' = generated + 1 /\ master' = generated + 1
            /\ nvs.k = NoSecret /\ nvs'.k \in {NoSecret, generated + 1}
  BY <1>1, SecretEnsured DEF Boot, Generations, Wiping, Places
<1>3. TypeOK'
  <2>1. pinSet' \in BOOLEAN /\ residents' \in BOOLEAN /\ resetCut' \in BOOLEAN
    BY <1>1, Types, Zenon DEF Boot, LoadedSet, TypeOK
  <2>2. storedPin' \in MaybePin /\ (pinSet' <=> storedPin' # NoPin)
    BY <1>1, Types DEF Boot, LoadedSet, MaybePin
  <2>3. pinRetries' \in Retries
    BY <1>1, Types DEF Boot, LoadedRetries, Retries
  <2> QED
    BY <1>1, <1>2, <2>1, <2>2, <2>3 DEF TypeOK, Nvs, Boot, MaybePin, wrapped, bounds
<1>4. Places'
  BY <1>1, <1>2, Types, KeptBefore DEF Boot, wrapped, bounds, Places, Saving, Wiping
<1>5. Generations'
  BY <1>1, <1>2, Types, KeptBefore DEF Boot, wrapped, bounds, Generations, Saving, Wiping
<1>6. Attempts'
  BY <1>1, <1>2, Types, KeptBefore
    DEF Boot, wrapped, bounds, Attempts, Pending, Kept, Saving, Places, LoadedRetries,
        LoadedSet
<1>7. Tokens'
  BY <1>1, <1>2, Types, KeptBefore DEF Boot, wrapped, bounds, Tokens, Saving
<1>8. InForce'
  BY <1>1, <1>2, Types, KeptBefore
    DEF Boot, wrapped, bounds, InForce, Loaded, LoadedSet, PinInForce, Saving, Places
<1>9. Guarded'
  BY <1>1, <1>2, Types, KeptBefore DEF Boot, wrapped, bounds, Guarded, LoadedSet, Saving, Places
<1>10. Rotation'
  <2>1. \A s \in issued : s \in Secrets /\ s # NoSecret /\ s <= generated
    BY <1>1, Types DEF Generations, TypeOK
  <2>2. ASSUME Kept({"k"})'
        PROVE  /\ nvs'.k = master' /\ master' \notin dead
               /\ issued \ ended \subseteq {master'}
               /\ op' = "none"
    BY <1>1, <1>2, <2>1, <2>2, KeptBefore, Types
      DEF Boot, Rotation, Places, Saving, Wiping, TypeOK
  <2> QED
    BY <2>2 DEF Rotation, Boot, wrapped, Saving, Wiping
<1>11. Counts'
  <2>1. ASSUME Kept({"k", "sc"})', nvs'.k # NoSecret
        PROVE  seen[nvs'.k] <= nvs.sc
    BY <1>1, <1>2, <2>1, KeptBefore, Types DEF Generations, Counts, TypeOK
  <2> QED
    BY <1>2, <2>1 DEF Counts, Boot, Places, Wiping, wrapped
<1> QED
  BY <1>3, <1>4, <1>5, <1>6, <1>7, <1>8, <1>9, <1>10, <1>11

(* A reset ends with a fresh secret, under which no id was handed out.      *)
LEMMA RotateStep ==
    ASSUME IInv, Rotate
    PROVE  IInv'
<1> USE Bounds, NoPinIsNone DEF IInv
<1>1. TypeOK
  OBVIOUS
<1>2. /\ nvs' \in Nvs /\ refused' \in SUBSET Keys /\ refused \subseteq refused'
      /\ nvs'.set = nvs.set /\ nvs'.retries = nvs.retries
      /\ nvs'.hash = nvs.hash /\ nvs'.sc = nvs.sc
      /\ master' \in Secrets /\ generated' \in Secrets \cup {0}
      /\ nvs'.k \in Secrets \cup {NoSecret}
      /\ Kept({"k"})' => nvs'.k = master'
      /\ \/ generated' = generated /\ nvs'.k = nvs.k /\ master' = nvs.k
         \/ /\ generated' = generated + 1 /\ master' = generated + 1
            /\ nvs.k = NoSecret /\ nvs'.k \in {NoSecret, generated + 1}
  BY <1>1, SecretEnsured DEF Rotate, Generations, Wiping, Places
<1>3. TypeOK'
  BY <1>1, <1>2, Types DEF TypeOK, Nvs, Rotate, pin, wrapped, bounds
<1>4. Places'
  BY <1>1, <1>2, Types, KeptBefore DEF Rotate, pin, wrapped, bounds, Places, Saving, Wiping
<1>5. Generations'
  <2>1. generated <= crashes + resets /\ op = "reset" /\ pc' = "answer"
    BY DEF Rotate, Generations, Places, Wiping
  <2>2. generated' <= crashes + resets + 1 /\ nvs'.k <= generated' /\ master' <= generated'
    BY <1>1, <1>2, <2>1, Types DEF Generations, NoSecret
  <2>3. \A s \in Secrets : s > generated' => s \notin issued /\ seen[s] = 0
    BY <1>1, <1>2, Types DEF Generations
  <2> QED
    BY <1>2, <2>1, <2>2, <2>3 DEF Generations, Rotate, Saving, Wiping, wrapped, bounds
<1>6. Attempts'
  BY <1>1, <1>2, Types, KeptBefore
    DEF Rotate, pin, wrapped, bounds, Attempts, Pending, Kept, Saving, Places, Wiping
<1>7. Tokens'
  BY <1>1, <1>2, Types, KeptBefore DEF Rotate, pin, wrapped, bounds, Tokens, Saving
<1>8. InForce'
  BY <1>1, <1>2, Types, KeptBefore
    DEF Rotate, pin, wrapped, bounds, InForce, Loaded, LoadedSet, PinInForce, Saving, Places
<1>9. Guarded'
  BY <1>1, <1>2, Types, KeptBefore
    DEF Rotate, pin, wrapped, bounds, Guarded, LoadedSet, Saving, Places
<1>10. Rotation'
  <2>1. \A s \in issued : s \in Secrets /\ s # NoSecret /\ s <= generated
    BY <1>1, Types DEF Generations, TypeOK
  <2>2. ASSUME Kept({"k"})'
        PROVE  /\ nvs'.k = master' /\ master' \notin dead
               /\ issued \ ended \subseteq {master'}
               /\ master' \notin issued /\ issued \subseteq ended
    BY <1>1, <1>2, <2>1, <2>2, KeptBefore, Types
      DEF Rotate, Rotation, Places, Saving, Wiping, TypeOK
  <2> QED
    BY <2>2 DEF Rotation, Rotate, wrapped, Saving, Wiping
<1>11. Counts'
  <2>1. ASSUME Kept({"k", "sc"})', nvs'.k # NoSecret
        PROVE  seen[nvs'.k] <= nvs.sc
    BY <1>1, <1>2, <2>1, KeptBefore, Types DEF Generations, Counts, TypeOK
  <2> QED
    BY <1>2, <2>1 DEF Counts, Rotate, Places, Wiping, wrapped
<1> QED
  BY <1>3, <1>4, <1>5, <1>6, <1>7, <1>8, <1>9, <1>10, <1>11

(* Every step preserves the invariant.                                      *)
LEMMA StepIInv == IInv /\ [Next]_vars => IInv'
<1> SUFFICES ASSUME IInv, [Next]_vars PROVE IInv'
  OBVIOUS
<1>1. CASE UNCHANGED vars
  BY <1>1 DEF vars, IInv, TypeOK, Places, Generations, Attempts, Tokens, InForce, Guarded,
              Rotation, Counts, Saving, Wiping, Pending, Kept, Loaded, LoadedSet, PinInForce
<1>2. CASE Next
  BY <1>2, BootStep, CrashStep, SetPinStep, ChangePinStep, GetTokenWrongStep,
     GetTokenRightStep, SaveSetStep, SaveRetriesStep, SaveHashStep, ResetStep,
     RemoveFirstStep, RemoveSecondStep, RotateStep, RegisterResidentStep,
     RegisterStatelessStep, SignStep, AnswerStep DEF Next
<1> QED
  BY <1>1, <1>2

(* The keys and RAM stay linked as IInv says, wherever power is lost.       *)
THEOREM LabIInv == Spec => []IInv
BY InitIInv, StepIInv, PTL DEF Spec

(* Types, and that a PIN is set exactly when there is a hash for it.        *)
THEOREM LabTypeOK == Spec => []TypeOK
<1>1. IInv => TypeOK
  BY DEF IInv
<1> QED
  BY <1>1, LabIInv, PTL

(* getPinToken: wrong PINs are counted across any power losses.             *)
THEOREM LabFailuresStayCounted == Spec => []FailuresStayCounted
<1>1. IInv => FailuresStayCounted
  BY Types DEF IInv, FailuresStayCounted, Attempts, Pending
<1> QED
  BY <1>1, LabIInv, PTL

(* loadPinState: the PIN in force is one the host may expect.               *)
THEOREM LabRestartKeepsPin == Spec => []RestartKeepsPin
<1>1. IInv => RestartKeepsPin
  BY DEF IInv, RestartKeepsPin, InForce
<1> QED
  BY <1>1, LabIInv, PTL

(* resetPinToken: a token does not outlive its PIN.                         *)
THEOREM LabTokenIsOfThisPin == Spec => []TokenIsOfThisPin
<1>1. IInv => TokenIsOfThisPin
  BY DEF IInv, TokenIsOfThisPin, Tokens, Saving
<1> QED
  BY <1>1, LabIInv, PTL

(* wipeLabState: the store goes before the PIN that guards it.              *)
THEOREM LabResidentsStayGuarded == Spec => []ResidentsStayGuarded
<1>1. IInv => ResidentsStayGuarded
  BY DEF IInv, ResidentsStayGuarded, Guarded
<1> QED
  BY <1>1, LabIInv, PTL

(* ensureSecret and MasterSecret::wipe: without a reset every id is         *)
(* accepted after any restart, after one none from before it.               *)
THEOREM LabIdsLastUntilReset == Spec => []IdsLastUntilReset
<1>1. IInv => IdsLastUntilReset
  BY DEF IInv, IdsLastUntilReset, Rotation
<1> QED
  BY <1>1, LabIInv, PTL

(* nextSignCount and wipe: the counts of one secret advance.                *)
THEOREM LabSignCountsAdvance == Spec => []SignCountsAdvance
<1>1. IInv => SignCountsAdvance
  BY DEF IInv, SignCountsAdvance, Counts
<1> QED
  BY <1>1, LabIInv, PTL
=============================================================================
