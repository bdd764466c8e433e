# A formal model of the ESP32-S3 FIDO2 key

TLA+ modules for the firmware in `src/`, their TLC configurations, and proofs checked by
TLAPS. Paths below are relative to the repository.

To check one configuration or one proof module:

    tlc -workers 2 -config MCCredentialStore.cfg MCCredentialStore.tla
    tlapm CredentialStoreProofs.tla

## The system

The board is a USB security key. All of it runs in one Arduino loop task, with one exception:
the USB stack calls `FidoHidDevice::_onOutput` from a task of its own.

    host --reports--> _onOutput --queue_--> poll --> CtapHid --messages--> Ctap2 --> CredentialStore (NVS)
      ^                (USB task)           (loop task)  |                   |   --> MasterSecret, PIN (NVS)
      +------------------ sendMessage -------------------+                   +--> waits for BOOT
                                                          App::loop: poll, screen, admin button

| Component | State | Operations | What makes it correct |
|---|---|---|---|
| Credential store (`CredentialStore`) | up to 8 records in NVS, the stored count, `count_` | begin, add, update, updateCounter, removeByCredentialId, wipe, compact | confirmed credentials are found after any power loss; no holes; counts do not go back; removed credentials are gone |
| CTAP2/U2F commands (`Ctap2`) | cached assertion chain, last request's hash | makeCredential, getAssertion, getNextAssertion, U2F register/authenticate, deletion, reset | counts shown to the host advance; removed credentials never sign; the chain is walked exactly once |
| Client PIN (`Ctap2`) | PIN hash, retries, token | setPin, changePin, getPinToken | attempts are counted, across power losses too |
| Credential management (`Ctap2`) | cached RP and credential indexes | enumerate, next, delete, update user | an enumeration shows what is stored |
| USB report queue (`UsbFidoHid`) | ring of 8 reports, two volatile indexes | `_onOutput`, `poll` | a lock-free bounded FIFO of whole reports |
| CTAPHID (`CtapHid`) | one message being reassembled, the channel | receivePacket, dispatchMessage, sendMessage | messages are dispatched as sent, channels do not mix, errors are answered |
| User presence (`UserPresence`, `waitForPresence`) | start of the wait, start of the hold, `canceled_` | the waits of commands and of reset | a wait ends; a reset takes the whole hold; cancels end the wait they are for |
| Application loop and admin button (`App`) | admin state, start of the hold | open, confirm, time out | a wipe takes two holds of the full length |
| Master secret (`MasterSecret`) | secret and counter in NVS | ensureSecret, nextSignCount, wipe | rotation ends all stateless ids |
| CBOR codec, request parsers, answers (`CborCodec`, `Ctap2`) | - | read and write items; parse requests; write answers | a request means what the host meant or is refused; an answer is one canonical item |
| Lab recorder (`LabRecorder`) | session number, event number, history; files on a TF card | begin, record | the log holds the events in order, without private names, and earlier sessions stay |
| Screen (`AmoledUx`) | what is shown, when the ready screen returns | one method per message, poll | it says what a hold of BOOT does |
| Crypto, diagnostics | - | - | see "Not modelled" |

What is hard here is not parallelism in general (there is one shared ring) but *when* things
happen:

- **Power** can go between any two NVS writes, and a write can be refused.
- **A command that waits for BOOT blocks the loop** for up to 30 s: packets pile up in the ring
  (CANCEL among them), the admin button is not looked at, and everything measured with
  `millis()` goes on.
- **Commands leave state behind** for later ones: the assertion chain, `canceled_`, the
  enumeration caches, a half-received message. All are used later without being checked again.
- **Several host processes** send packets that interleave on one bus.

`PROJECT.json` lists these hazards at their lines, with the properties that would catch them
going wrong, or a note why none does yet.

## Modules

| Module | Models | State and actions |
|---|---|---|
| `CredentialStore` | `CredentialStore.cpp` | One action per NVS write. `nvs`, `nvsCount` are the keys, `count` is `count_`; `pc`, `r`, `w` say how far add (`Add`, `AddCount`) or `compact()` (`CompactSkip/Keep/Save/Move/Scanned`, `Trim`, `TrimDone`) is. `Crash` can come at any point, after which `Boot` compacts again. A refused write, or a refused remove (`Remove`), leaves its key as it was; where the code looks at the result (add, update) the operation fails. |
| `CredentialMap` | the promise of the store | A map from ids to a user and a count: `Register`, `SetUser`, `Count`, `Remove`, `RemoveAll`, each at once or not at all. |
| `Ctap2Session` | assertion side of `Ctap2.cpp` | One action per handler. `recs` is the store by index, `chain`/`next`/`hash` are `assertionIndexes_`/`assertionNext_`/`assertionClientDataHash_`; `tx` is the answer not sent yet, `Send` sends it. `Crash` loses RAM and the unsent answer. What a wait for BOOT returns is an input. |
| `CborCodec` | `CborCodec.cpp` | No state: one operator per method, on sequences of bytes. |
| `Ctap2Requests` | the parsers of `Ctap2.cpp` | No state: one operator per parser, from bytes to the request struct, or to a refusal. |
| `Ctap2Responses` | the answers of `Ctap2.cpp` | No state: an answer is the sequence of calls of the writer that a handler makes, with the map sizes it announces. |
| `CtapHost` | `tools/ctaphid_probe.py`, and a browser | The host's side: the requests of the probe tool in every spelling a host is free to use, and a strict decoder of answers. |
| `BoundedFifo` | the promise of the report queue | `Accept`, `Refuse`, `Take` of a bounded FIFO. |
| `UsbQueue` | `_onOutput` and `poll` | One action per access to shared memory; a report is copied in two halves, so a torn copy would show. |
| `LabRecorder` | `LabRecorder.cpp` behind the queue | Extends `UsbQueue`: `Handle` receives a report and may `record` what its command did, `AdminWiped` records a wipe, `recordBoot` the start. `sessions` and `proofs` are the files on the card, sequences of lines, each whole, cut short or lost. |
| `CtapHid` | `CtapHid.cpp` | One action per packet: `InitPacket`, `ContinuationPacket`, both with `Dispatch` when the message is complete and `Send` for what goes out, of which the host may refuse a packet. Processes start messages, give them up, and lose packets. Bytes are named by process, message and position, so that a mixture is visible. |
| `LabState` | PIN and reset of `Ctap2.cpp`, `MasterSecret.cpp` | One action per NVS write: an operation (`SetPin`, `ChangePin`, `GetTokenWrong`, `GetTokenRight`, `Reset`) changes RAM and then goes through `SaveSet`, `SaveRetries`, `SaveHash`, a reset also through `RemoveFirst`, `RemoveSecond`, `Rotate`, to its `Answer`. `nvs` holds the five keys, `pinSet`, `storedPin`, `pinRetries`, `token`, `master` are the members. `Sign` and the two registrations use the secret and the PIN. `Crash` loses RAM, `Boot` is `ensureSecret` and `loadPinState`. |
| `CredMgmt` | `handleCredentialManagement` | One action per subcommand that changes state. `cmRp`/`cmRpNext` and `cmCredential`/`cmCredentialNext` are the two cached lists with their positions; `recs` is the store by index, in which `Delete` moves the records behind it down by one. |
| `Presence` | `waitForPresence`, `waitForResetHold`, `App::loop`, `handleAdminButton` | One action per turn of a loop and per packet. Times since an event are ages that `Tick` advances. |
| `AmoledUx` | `AmoledUx.cpp` over `Presence` | Each action is one of `Presence` with what it paints: `screen`, and the time left until the ready screen comes back. |
| `MCCredentialStore`, `MCCtap2Session`, `MCCtapHid` | - | Instances for TLC: symmetry, channels and requests; the session together with the bytes of its requests and answers. |
| `CredentialStoreProofs`, `Ctap2SessionProofs`, `Ctap2WireProofs`, `LabRecorderProofs`, `CtapHidProofs`, `PresenceProofs`, `LabStateProofs`, `CredMgmtProofs` | - | Proofs; `CredentialStoreProofs` also of the map, `LabRecorderProofs` of the queue, `PresenceProofs` of the screen; `Ctap2WireProofs` of the codec, the parsers and the writer of answers. |

How they fit together: `UsbQueue` implements `BoundedFifo`, which is the queue that `CtapHid`
(where a lost packet is the queue's refusal) and `Presence` (where commands wait in it) stand
behind; `LabRecorder` and `AmoledUx` are compositions: the queue with the recorder of what its
reports bring about, and the button with the screen that tells the user to press it.
`CredentialStore` implements `CredentialMap`, the map that `Ctap2Session` is proved to use, and so opens up
the store operations the session takes as atomic;
`CredMgmt` takes the same atomic store operations, and is proved to use the map the same way; `LabState` opens up the session's atomic
reset and its counter of stateless ids; `Presence` opens up the waits whose outcome
`Ctap2Session` takes as an input. They are separate modules because the state they share is
only the result of a call.

### Choices worth knowing

- A single NVS key is written atomically; the driver promises that. Checksums and versions are
  left out: only this store writes the keys, so a record that is there is valid.
- `CredentialStore`: `IsMap` holds with duplicate records about, because the stale one of two is
  always the later one, which no lookup finds first. It ends with the first unnoticed refused
  write (`intact`); that a deleted credential can come back from its duplicate is the finding of
  `storeDelete` and does not contradict it: the id was removed from the map, and `IsMap` says
  nothing of ids that are not in it.
- `CborCodec`: TLC counts to 2^31 - 1, so numbers beyond that are not tried; the code reads 32
  bits and refuses 64. A text is its bytes: that `copyBounded` can cut a name in the middle of a
  UTF-8 character (`src/Ctap2.cpp:133`) is not seen.
- `Ctap2Requests`: names of users and relying parties are read and checked, not kept.
- `LabRecorder`: a line is the number of its event, the name it shows and whether it is whole. A
  line that is cut has no end, and the next one is joined to it: a spoiled print costs two events
  at most. A log that cannot be opened turns the recorder off, but the proof note of that very
  event is still written. The card at power-up is one only this firmware wrote to.
- `AmoledUx`: a command that arrives while the admin screen is open paints over it, and the
  ready screen that follows does not close it: a hold of BOOT still wipes, with nothing on the
  screen that says so, until the timeout (which is looked at between commands: a host that kept
  the loop busy for ever could delay it for ever, and `AdminScreenCloses` says nothing of that,
  since the packets of a behaviour are finitely many). The code is modelled so; `overdrawn` marks it in
  `ScreenTellsTheHold`. A keepalive that the host does not take replaces the prompt by an error.
- `CtapHid`: an answer of which the host refuses a packet ends there; a keepalive that is refused
  changes nothing of the answer that follows. What INIT answers after the nonce (`ChannelLen`) is
  known by its length only.
- `CtapHid`: what is dispatched is what was sent also when packets were lost, but for the first:
  then the second can go on with a message the same process gave up before, as nothing in a
  continuation packet tells the two apart. `headless` marks a process in this case, and
  `DispatchedIsIntact` and `EchoIsExact` exempt it; `BytesStayInPlace` does not.
- `CtapHost`: of an allow list that is too long the first entries count as what the host meant
  (`Capped`): the comment at `src/Ctap2.cpp:705` says that the others are dropped.
- `Ctap2Session`: a command refused because of its PIN parameters (`verifyPinUvAuthParam`), or
  answered by the path for `.dummy`, leaves the chain, the store and the counts alone; it would
  be a stuttering step.
- Credential ids, keys and MACs are fresh values; they cannot be guessed or forged.
- `CredentialStore`: a refused *save inside compact* and a refused *count write inside add* are
  ignored by the code, and records are then lost. The ghost `lossy` marks these behaviours and
  the properties exempt exactly them. Nor does the code look at the result of a *remove*: the
  record stays, and `stuck` marks it. No living credential is lost by it, none shows an older
  count, and the slots below the count stay full (`LiveIsStored`, `IsMap`, `IdleIsDense`). The
  exemption is for `CrashSafeOutsideMove` (a deleted record that could not be removed is still
  there) and for the half of `IdleIsDense` that says that the other slots are empty.
- `LabState`: a PIN stands for its hash, and a request that fails before it looks at the PIN
  changes nothing. No code looks at the result of a write of these keys, so a write that is
  refused leaves an operation half done without notice. `refused` names the keys this happened
  to, and each property speaks of the behaviours where the keys it is about were kept. One
  sequence of two power losses puts an old PIN back in force: a reset cut short between "set"
  and "hash", then a setPin cut short after "set". The ghost `resetCut` marks it.
- `CredMgmt`: after a removal in the middle of an enumeration the cached indexes stand for other
  records, and the rest may skip a credential or show one of another relying party, or a U2F
  key. Nothing in the repository says what an enumeration shows then; the completeness
  properties are about enumerations without a removal, `NeverTwice` is about all.
- `changePin` with a wrong old PIN is not counted as an attempt (`src/Ctap2.cpp:1254`), so
  `FailuresStayCounted` is about getPinToken.
- `UsbQueue`: the steps of a task take effect in program order. The indexes are `volatile` and
  the payload is copied with calls the compiler does not move across them.
- `Presence`: a tick is much longer than a turn of a loop (5 to 10 ms); the loop task looks at
  BOOT at least once in each tick and at least once between two changes of the button
  (`looked`). A bounce *inside* one look (the 25 ms of `waitForPresence`) is modelled
  (`Settle`). A command that does not wait takes no time.
- `MCCtapHid` scales the packet sizes from 57 and 59 bytes to 2 and 3, and the largest message
  from 1024 to 6; the lengths used are the boundaries (empty, exactly one packet, one byte
  more, the longest, one byte too long).

## Runs

| Run | Configuration | Checks | Bounds, and why they are enough |
|---|---|---|---|
| `store` | `MCCredentialStore.cfg` | `TypeOK` `LiveIsStored` `IdleIsDense` `CrashSafeOutsideMove` `IsMap` `StepsRunOut` | 3 slots and 4 ids: deleting the first moves two records, and the store fills. 2 power losses: the second can hit the recovery from the first. 2 refused writes: the second can be the remove that would take away what the first left. Ids are symmetric. |
| `storeDelete` | `CredentialStoreDelete.cfg` | `DeletedStaysDeleted` **fails** | 2 slots, 2 ids, 1 power loss: the smallest instance that shows it. |
| `session` | `MCCtap2Session.cfg` | `TypeOK` `CounterAdvances` `RemovedNeverSigns` `NextAnswersTheRest` `RequestsAreUnderstood` `AnswersAreCanonical` | 2 RPs (an index can point at the other's record), 3 ids in 3 slots (a chain has a middle), counts to 2 (a repeated count shows), 1 reset (an old stateless id), allow lists of 2. RPs are symmetric. Requests: each member in each place, one unknown member of each kind of value anywhere, values one below, at and above each size (hashes scaled from 32 to 2 bytes, texts from 64 to 4), every strict prefix. Answers: real sizes, shortest and longest names, every optional member there and not. |
| `sessionUp` | `MCCtap2SessionUp.cfg` | `NextWasPressedFor` **fails** | as `session`. |
| `ring` | `LabRecorder.cfg` | `TypeOK` `NeverTheSameSlot` `SessionIsRecorded` `IsFifo` `AcceptedIsReceived` | 3 slots and 5 reports: the indexes wrap, and the queue is full while one report is copied and another written. 3 events and a history of 2: it goes round. 2 session numbers: they run out. 1 spoiled print. The proofs of the queue cover every depth. |
| `hid` | `MCCtapHid.cfg` | `TypeOK` `DispatchedIsIntact` `BytesStayInPlace` `NoSilence` `EchoIsExact` | 2 processes, 2 messages each, 2 lost packets, 1 answer cut off: every interleaving of one's packets with an abandoned and a complete message of the other. The longest message is of three packets, so that one in the middle can be lost. |
| `hidShared` | `MCCtapHidShared.cfg` | `DispatchedIsIntact` **fails** | 2 processes on one channel, nothing lost. |
| `presence` | `AmoledUx.cfg` | `UxTypeOK` `ResetHoldIsFull` `WipeTakesTwoHolds` `WipeIsHeldUnlessBlocked` `CancelIsNotLeftOver` `ScreenTellsTheHold` `WaitsEnd` `AdminScreenCloses` | Times of 1 to 4 ticks in the order of the real ones; 3 packets: a command, a CANCEL, and the command it could wrongly end. Messages of 1 and 2 ticks: one can end inside a hold and one outlast it. The proofs cover all values of the times. |
| `lab` | `LabState.cfg` | `TypeOK` `FailuresStayCounted` `RestartKeepsPin` `TokenIsOfThisPin` `ResidentsStayGuarded` `IdsLastUntilReset` `SignCountsAdvance` | 2 PINs (an old one can come back), 2 retries (one failure is not yet the last), 1 reset, counts to 2, 2 power losses (the second can hit what follows the recovery from the first), 1 key with refused writes. The proofs cover all of these. |
| `credMgmt` | `CredMgmt.cfg` | `TypeOK` `EnumerationsComplete` `NeverTwice` | 2 RPs, 3 slots (a list has a middle, a removal moves two records), 5 ids (new records take the place of removed ones). The proofs cover all of these. |
| `presenceCancel` | `PresenceCancel.cfg` | `CancelStopsTheWait` **fails** | 2 packets. |
| `presenceWipe` | `PresenceWipe.cfg` | `WipeIsHeld` **fails** | 1 packet; a confirming hold of 3 ticks. |

Deadlock is not checked in `ring` (the host may stop sending) and in `hid` and `hidShared` (the
processes may have nothing more to send).

### What the failing runs show

1. `storeDelete`: `compact()` saves a record to its new slot (`src/CredentialStore.cpp:191`)
   and then removes the old one. Power lost in between leaves two records of one credential;
   boot keeps both. A later deletion removes one and reports success; the credential is still
   found and still signs.
2. `sessionUp`: `handleGetAssertion` fills the assertion list before it waits for BOOT and does
   not clear it when the wait fails (`src/Ctap2.cpp:1594`). `getNextAssertion` then signs from it
   with the UP flag set, though nobody pressed. The specification
   (`docs/specs/esp32-s3-fido2-webauthn-authenticator-spec.md:232`) says not to sign until
   presence is confirmed.
3. `hidShared`: every INIT is answered with the same channel (`src/CtapHid.cpp:155`), so the
   packets of two processes can be joined to one message.
4. `presenceCancel`: `waitForPresence` looks at `canceled_`, but the CANCEL packet stays in the
   queue for as long as the wait lasts. The specification (line 363) says the wait stops.
5. `presenceWipe`: the start of a hold is kept across a command that blocks the loop
   (`src/App.cpp:62`). With the admin screen open, a short press, a command, and the press that
   confirms this command count as one long hold, and the device is wiped.
   `docs/bringup/arduino-cli-mvp.md:125` asks for a hold of 5 seconds.

## Fairness

- `UsbQueue` and `LabRecorder`: `WF_vars(Poll)`, `WF_labVars(LabPoll)`. `loop()` calls `poll()` for ever and every handler returns,
  because each wait in it has a timeout (which `Presence` shows: `WaitsEnd`).
- `Presence` and `AmoledUx`: `WF_vars(Loop)`, `WF_uxVars(UxLoop)`, for the same reason, and `SF_vars(Tick)`, `SF_uxVars(UxTick)`: time passes whatever
  the user does. Weak fairness is not enough for the clock only because `Tick` is disabled for
  the instant between a change of the button and the next look, so a user who pressed and
  released without pause could stop it. The user, the host and the sequence of their inputs are
  not fair.

`CredentialStore`, `Ctap2Session`, `CtapHid`, `LabState` and `CredMgmt` have safety properties only
(`StepsRunOut` of the store among them: an operation that is executed returns).

## Proofs

TLAPS proves these for all values of the constants (subject to the named assumptions: at least
one slot in the store, at least two in the queue, times that are positive and not above
`Longest`, at least one PIN retry, packets and a history of at least one element, at least one
session number, a nonce of INIT that fits its first packet; the bounds are arbitrary naturals).

**CredentialStoreProofs**, the store: `StoreTypeOK`, `StoreLiveIsStored`, `StoreIdleIsDense`. Neither
invariant is inductive: while `compact()` runs a record is safe because of where the two loop
indexes stand. `IInv` adds `Cursors` (the order of the indexes in each phase), `Counted` (the
stored count covers the count in RAM, except during an add), `Anchored` (each live credential is
in a slot that the phase has not given up: before the write index, or from the read index on)
and `Packed` (which slots are full so far, and, unless a remove was refused, which are empty). Each action preserves it, in a lemma of
its own.

`StoreCrashSafeOutsideMove` needs to know where a second record of an id can be: until a power
loss falls between the save and the remove of a move, or a remove is refused, `Single` says that there is one only in
that window, and `Gone` that a removed id has no record, nor one that is being removed behind the
final removes.

**CredentialStoreProofs**, the map: `StoreIsMap`, that the store implements `CredentialMap`. A duplicate a
power loss left could make a lookup find an older count; what excludes it is that lookups take
the *first* record of an id and that every write goes to the first: `update` and `updateCounter`
write where a lookup found, a move of `compact()` puts its copy into a slot that holds no first record, with none up to the
original, and what `move` and `trim` remove is never first. `Shadowed` says so of what a refused
remove left behind: a record of a living credential that stands there has an earlier one. `IInv` says where a
record of a live credential is; `Fresh` adds that an id in use was generated, that the one being
added has one record with count 1, and that a finished save left two equal copies. The lemmas
show for each action that `Creds`, the map as a function of the store, stays (`QuietSteps`,
`SaveIsQuiet`, `AddIsQuiet`) or changes as one operation (`AddCountRegisters`, `CounterShows`,
`UserShows`, `DeleteShows`).

**CredentialStoreProofs**, the loops: an operation, or the recovery at boot, returns as long as the loop
task goes on with it. `StepsLeft` bounds the steps still to come in each phase. `StoreStepsAreBounded`:
it is a number bounded by the slots, and 0 exactly when nothing runs. `StoreStepsRunOut`: every
step of an operation or of the recovery makes it smaller, for any number of slots and any writes and
removes refused. With a loop that repeats a remove until it is done (`AfterTrimRetried`, the mutant of
`StepsRunOut`) it does not: nothing bounds how often the storage refuses.

**Ctap2SessionProofs**: the four properties of `Ctap2Session`. They are about answers; `IInv`
says what protects the next one. `Distinct`: an id is that of one record or of one stateless
credential, never of both. `Alive`: what was removed is not in the store and not under the present
secret, so that neither an id the host kept nor an index that moved reaches it. `Covered`: the
count a signature goes on from, in the record or the common one of the stateless ids, is at least
what the host was shown and what is on its way. `Walk`: while nothing was removed, the rest of the
chain is an ascending list of indexes of records of its relying party, and their ids are what the
host is owed. `Generated` says which ids are fresh. `SessionUsesMap` says that the session, which
names records by their indexes and keeps some of them over a deletion, changes the store by the
operations of `CredentialMap` and by nothing else. `StoreIsMap` says that `CredentialStore`
implements these, write by write and through power losses: that is what lets the session take
them as atomic.

**LabRecorderProofs**, the queue: `QueueTypeOK`, `QueueNeverTheSameSlot`, `QueueIsFifo`. `IInv` says
that past its check the USB task has a free slot and the loop task a full one (`Reserved`), what each
has copied (`Copied`), and that the slots from `readIndex` on hold the accepted reports that are not
taken out yet, counted round the ring (`Content`). With it, `Publish` is the FIFO's `Accept`,
`OutputDropped` its `Refuse`, `Advance` its `Take`, and all other steps leave it unchanged.

**LabRecorderProofs**, the recorder: `RecorderKeepsQueue` says that every step of the recorder is one
of the queue or leaves it alone, so that the theorems about the queue hold behind it (`RecorderIsFifo`
and `RecorderNeverTheSameSlot` state two). `RecorderSessionIsRecorded` is about the files. A cut line is
paid for when it is written, the line that will be joined to it only later: `LogOK` and `NotesOK`
therefore count one more missing event while a file ends in a cut line (`Trailing`). They speak of
the file, the events and the faults as arguments, so that one lemma (`CostIs`) says for both files what
a print costs, and one each what becomes of them when the recorder is on (`LogKept`, `NotesKept`) and
when it gives up (`LogGivenUp`, `NotesGivenUp`). `PlacesTurn` is the arithmetic of the ring `history_`.

**CtapHidProofs**: `HidTypeOK` and `HidBytesStayInPlace` hold whoever sends on which channel:
`Framed` puts the end of what was received at the end of a packet and before the end of the
message, which is what keeps every copy inside `rxBuffer_`, and with the sequence number the next
packet in its place (`Placed`; `Passed` for what was dispatched). `HidNoSilence`, `HidDispatchedIsIntact` and `HidEchoIsExact` are about a message as a
whole and assume `OwnChannels`: no two processes send on one channel, other than channel 0 on which
nothing is accepted. A single process satisfies it, and the run `hid`; the firmware does not see to
it, and `hidShared` shows what happens without. Under it `Current` says that what is received on
the channel of a process whose first packet arrived is the beginning of the message it is sending, and
`Waiting` that a process without a reaction still has packets to send.

**PresenceProofs**, the button: `PresenceTypeOK`, `PresenceResetHoldIsFull`, `PresenceWipeTakesTwoHolds`,
`PresenceWipeIsHeldUnlessBlocked`, `PresenceCancelIsNotLeftOver`. The ages the code measures are compared with `heldFor`, the
real time of the press. They agree except between a release and the next look (`~looked`), which
`WaitInv` and `HoldInv` spell out; `ScreenInv` says that while the admin screen is open BOOT
either has been released or still has to be. That a wait does not exceed its timeout rests on the
looks: a wait that was looked at in this tick has not timed out.

**PresenceProofs**, the screen: `UxIsPresence` says that painting decides nothing: each step of `AmoledUx` is
one of `Presence` or a stutter, so the theorems about `Presence` hold under its screen
(`UxKeepsPromises` states them).
`UxTypeIsCorrect` is that and the types of the screen. `UxScreenTellsTheHold` is inductive
together with `AdminStays`: while the admin screen is up no timer runs that could bring the ready
screen back over it.

**LabStateProofs**: every property of `LabState`. The properties speak of idle moments; `IInv`
says what links storage to RAM at every moment, so that a power loss can come anywhere.
`Attempts` counts an answer that is still on its way (`Pending`): in RAM from the start of the
operation, in storage once "retries" is written. `InForce` says which PIN a restart would bring
up (`Loaded`) at each point of `savePinState`, `Guarded` that it is one while credentials are
stored, `Tokens` that a token matches the PIN except between a change of the PIN and
`resetPinToken`, `Rotation` which secret is in storage, `Counts` that the stored counter covers
what the host was shown of the secret in storage, `Generations` that a new secret is a fresh one.
Each part holds while the keys it is about had no write refused. With the counter removed before
the secret (`CounterFirst`) `Counts` is not preserved, and neither TLC nor TLAPS accepts it.

**CredMgmtProofs**: every property of `CredMgmt`. `RpsListed` and `CredentialsListed` say, while
nothing was removed, which records the list stands for and that those up to the position were
shown; that a relying party has a *first* record is a minimum in the naturals. `NeverTwice` rests
on `Behind`, which removals keep: a credential that was shown is at or before the index shown
last, since records only move down, and the list ascends.

`MgmtUsesMap` says of credential management what `SessionUsesMap` says of the session: it changes the
store by the operations of `CredentialMap` and by nothing else. A deletion or a new user names an id,
never one of the cached indexes, and it is the id of the map that changes, however stale these are.

**Ctap2WireProofs**: the bytes, for every buffer and every value, not only those the runs try.

- `AnswersAreWhole`: whatever a handler writes and however small the buffer, the answer is status 0 and
  all of it, or `kOther` alone. `Wrote` is the state after a write, `WroteBoth` joins two of them:
  `ok_` stays false, so nothing follows what did not fit.
- `WrittenIsRead`: the reader gets back what the writer wrote, anywhere in a buffer, and stands behind
  it: for integers, counts, strings and Booleans of up to 32 bits. `Digits` is the arithmetic.
- `RequestsFit`: whatever the bytes of a request, the reader stays in the buffer; the parser fills the
  request struct within the sizes the code declares (`Parsing`, `MakeCredentialRequests` and the other
  structs); what it accepts has the members the handler goes on to use; the data of a U2F request is
  no longer than the request. No header holds more than 32 bits (`Unsigned`): the check of the
  permissions in `parseClientPin` (`src/Ctap2.cpp:954`) never refuses anything, and the model leaves
  it out.

The library's induction theorems take an operator as a parameter, which the provers cannot
instantiate. These proofs therefore state induction over a *set* (`Induction`) and recursion over a
*function* (`Recursion`, `LoopExists`), from the minimum that well-founded relations have: a definition
that looks at lower values only has a fixed point, and it is the only one where it matters. `SkipStays`
uses this for `skip()`, whose recursion goes down a buffer that is nested arbitrarily deep: each
item ends behind where it starts, so a skip looks only at later offsets (`SkipAtLooksDown`). The loops of
the parsers become one operator `Entry` with a case for each loop, about which one lemma (`AllStay`)
says what holds of all; the lemmas named `...Is` tie each parser to its case, those named
`...Stays` say what each keeps to. For this the codec has no `RECURSIVE` operator, only recursive functions.

Only model-checked: what a request and an answer *mean* to the other side (`RequestsAreUnderstood`,
`AnswersAreCanonical`), which is a relation to the host's own encoder and decoder in `CtapHost`, whose
operators are `RECURSIVE` and out of the provers' reach; and liveness
(`AcceptedIsReceived`, `WaitsEnd`, `AdminScreenCloses`): there is no `ENABLED` and no fairness in the
proofs.

## Not modelled, and why

- **PIN parameters of registrations and assertions** (`verifyPinUvAuthParam`), permissions of a
  token, and the encryption around the PIN: `LabState` has which PIN a token is for, not which
  command accepts it.
- **Crypto provider**: calls of mbedTLS, taken as perfect.
- **Drawing**: fonts, colours, layout, brightness, wording; a board without a display.
- **Diagnostics**: logging.
- **Descriptors, board profile, build files**: configuration.

## Plan

Done: the store (the state that must survive) and the map it implements, the session on top of it
with the bytes of its requests and answers, the queue with its abstract FIFO and the recorder
behind it, the framing with refused sends and keepalives, the button with its screen, the PIN and
the master secret with the reset that goes through them, credential management, and the bytes of
requests and answers for every buffer. Next: the permissions of PIN tokens, with the commands that
ask for them, and what that model promises.
