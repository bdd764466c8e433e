--------------------------- MODULE PresenceProofs ---------------------------
(***************************************************************************)
(* Type correctness of Presence, and what the three wipe properties rest   *)
(* on, for every value of the times and any number of requests.            *)
(*                                                                         *)
(* The ages the code measures are compared with heldFor, the real time of  *)
(* the press.  They may differ for one step only: after the button has     *)
(* changed and before the loop task has looked again (~looked), when the   *)
(* button is up.                                                           *)
(*                                                                         *)
(* Then the screen against the button: painting adds nothing to what       *)
(* Presence does, so that everything shown of it holds with AmoledUx too.  *)
(***************************************************************************)
EXTENDS AmoledUx, TLAPS

\* TypeOK in parts.
Effect == SUBSET [by : {"ctap2", "u2f", "reset", "admin"}, outcome : Outcomes]
Truths ==
    /\ button \in BOOLEAN /\ looked \in BOOLEAN /\ canceled \in BOOLEAN
    /\ bootWasPressed \in BOOLEAN /\ adminNeedsRelease \in BOOLEAN
    /\ blocked \in BOOLEAN /\ released \in BOOLEAN /\ cancelArrived \in BOOLEAN
Packets == queue \in Seq(Requests) /\ Len(queue) <= sent /\ sent \in 0 .. MaxRequests
Clocks ==
    /\ heldFor \in Ages /\ waited \in 0 .. kUserPresenceTimeout
    /\ heldSince \in Ages \cup {NotHeld} /\ (heldSince # NotHeld => heldSince <= waited)
    /\ bootHeldMs \in Ages /\ confirmMs \in Ages
Places ==
    /\ pc \in {"poll", "wait", "settle", "hold", "admin"}
    /\ cmd \in Requests \ {"info", "cancel"}
    /\ adminState \in {"kReady", "kConfirm"}

\* A wait that was looked at in this tick has not timed out, and a reset's
\* hold is measured only while it is waited for.
WaitInv ==
    /\ Waiting /\ looked => waited < kUserPresenceTimeout
    /\ heldSince # NotHeld => pc = "hold" /\ (looked => button) /\ (button => heldSince <= heldFor)
    /\ Waiting => blocked

\* The hold that handleAdminButton measures, as long as no command blocked it.
HoldInv ==
    bootWasPressed /\ ~blocked => (looked => button) /\ (button => bootHeldMs <= heldFor)

\* The admin screen is open: BOOT has to be, or has been, released.
ScreenInv ==
    adminState = "kConfirm" => (adminNeedsRelease \/ released) /\ (released \/ button)

Effects == ResetHoldIsFull /\ WipeTakesTwoHolds /\ WipeIsHeldUnlessBlocked

IInv ==
    /\ Truths /\ Packets /\ Clocks /\ Places /\ effect \in Effect
    /\ WaitInv /\ HoldInv /\ ScreenInv /\ Effects

(* The assumptions on the times, as the arithmetic below uses them.         *)
LEMMA Positive ==
    /\ Longest \in Nat /\ MaxRequests \in Nat
    /\ kUserPresenceTimeout \in Nat /\ 1 <= kUserPresenceTimeout /\ kUserPresenceTimeout <= Longest
    /\ kResetHold \in Nat /\ 1 <= kResetHold
    /\ kAdminOpenHold \in Nat /\ 1 <= kAdminOpenHold
    /\ kAdminConfirmHold \in Nat /\ 1 <= kAdminConfirmHold
    /\ kAdminConfirmTimeout \in Nat /\ 1 <= kAdminConfirmTimeout
BY TimesArePositive, MaxRequestsIsNat

(* Ages stay in order as they grow.                                         *)
LEMMA OlderKeepsOrder ==
    ASSUME NEW a \in Ages, NEW b \in Ages
    PROVE  Older(a) \in Ages /\ (a <= b => Older(a) <= Older(b)) /\ Older(a) <= a + 1
BY Positive DEF Older, Ages

(* A step that reports nothing keeps the three wipe properties.             *)
LEMMA QuietEffects ==
    ASSUME effect' = Nothing
    PROVE  Effects'
BY DEF Nothing, Effects, ResetHoldIsFull, WipeTakesTwoHolds, WipeIsHeldUnlessBlocked

(* The end of a wait wipes nothing but after a full hold.                   *)
LEMMA EndedEffects ==
    ASSUME Places, NEW o \in Outcomes, effect' = Ended(o),
           cmd = "reset" /\ o = "wiped" => heldFor' >= kResetHold
    PROVE  /\ Effects'
           /\ effect' \in Effect
<1>1. cmd \in {"ctap2", "u2f", "reset"}
  BY DEF Places, Requests
<1>2. AdminWipe \notin effect'
  <2>1. [by |-> cmd, outcome |-> o].by # AdminWipe.by
    BY <1>1 DEF AdminWipe
  <2> QED
    BY <2>1 DEF Ended
<1>3. ResetHoldIsFull'
  BY DEF ResetHoldIsFull, Ended
<1>4. effect' \in Effect
  BY <1>1 DEF Ended, Effect
<1> QED
  BY <1>2, <1>3, <1>4 DEF Effects, WipeTakesTwoHolds, WipeIsHeldUnlessBlocked

(* IInv holds TypeOK in parts.                                              *)
LEMMA TypeParts ==
    TypeOK <=> Truths /\ Packets /\ Clocks /\ Places /\ effect \in Effect
BY DEF TypeOK, Truths, Packets, Clocks, Places, Effect

(* At power-up nothing is held, waited for or open.                         *)
LEMMA InitIInv == Init => IInv
<1> SUFFICES ASSUME Init PROVE IInv
  OBVIOUS
<1>1. Truths /\ Packets /\ Clocks /\ Places /\ effect \in Effect
  <2>1. Truths
    BY Zenon DEF Init, Truths
  <2>2. Packets /\ Clocks
    BY Positive DEF Init, Packets, Clocks, Ages, NotHeld
  <2>3. Places /\ effect \in Effect
    BY DEF Init, Places, Requests, Effect, Nothing
  <2> QED
    BY <2>1, <2>2, <2>3
<1>2. WaitInv /\ HoldInv /\ ScreenInv
  BY DEF Init, WaitInv, HoldInv, ScreenInv, Waiting
<1>3. Effects
  BY DEF Init, Nothing, Effects, ResetHoldIsFull, WipeTakesTwoHolds, WipeIsHeldUnlessBlocked
<1> QED
  BY <1>1, <1>2, <1>3 DEF IInv

-----------------------------------------------------------------------------
(* The user, the host and the clock.                                        *)

(* The button can change only after a look, so an age that is being         *)
(* measured belongs to a press that has just ended.                         *)
LEMMA ToggleStep == IInv /\ Toggle => IInv'
<1> SUFFICES ASSUME IInv, Toggle PROVE IInv'
  OBVIOUS
<1> USE DEF IInv, Toggle, press, host, wait, admin
<1>1. Truths' /\ Packets' /\ Clocks' /\ Places' /\ effect' \in Effect
  <2>1. Truths'
    BY DEF Truths
  <2>2. Packets' /\ Clocks'
    BY Positive DEF Packets, Clocks, Ages
  <2>3. Places' /\ effect' \in Effect
    BY DEF Places, Effect, Nothing
  <2> QED
    BY <2>1, <2>2, <2>3
<1>2. WaitInv' /\ HoldInv' /\ ScreenInv'
  BY DEF Clocks, Truths, WaitInv, HoldInv, ScreenInv, Waiting
<1>3. Effects'
  BY QuietEffects
<1> QED
  BY <1>1, <1>2, <1>3

(* A packet that arrives touches the queue only.                            *)
LEMMA OutputStep == ASSUME NEW req \in Requests PROVE IInv /\ Output(req) => IInv'
<1> SUFFICES ASSUME IInv, Output(req) PROVE IInv'
  OBVIOUS
<1> USE DEF IInv, Output, press, host, wait, admin
<1>1. Truths' /\ Packets' /\ Clocks' /\ Places' /\ effect' \in Effect
  <2>1. Truths'
    BY DEF Truths
  <2>2. Packets' /\ Clocks'
    BY Positive DEF Packets, Clocks
  <2>3. Places' /\ effect' \in Effect
    BY DEF Places, Effect, Nothing
  <2> QED
    BY <2>1, <2>2, <2>3
<1>2. WaitInv' /\ HoldInv' /\ ScreenInv'
  BY DEF WaitInv, HoldInv, ScreenInv, Waiting
<1>3. Effects'
  BY QuietEffects
<1> QED
  BY <1>1, <1>2, <1>3

(* All ages grow together; a wait that was looked at has time left.         *)
LEMMA TickStep == IInv /\ Tick => IInv'
<1> SUFFICES ASSUME IInv, Tick PROVE IInv'
  OBVIOUS
<1> USE DEF IInv, Tick, press, host, wait, admin, ghosts
<1>1. Truths' /\ Packets' /\ Clocks' /\ Places' /\ effect' \in Effect
  <2>1. Truths'
    BY DEF Truths
  <2>2. Packets' /\ Clocks'
    BY Positive DEF Packets, Clocks, WaitInv, Ages, NotHeld, Older, Waiting
  <2>3. Places' /\ effect' \in Effect
    BY DEF Places, Effect, Nothing
  <2> QED
    BY <2>1, <2>2, <2>3
<1>2. WaitInv'
  BY Positive, OlderKeepsOrder DEF Clocks, Truths, WaitInv, Waiting, NotHeld, Ages
<1>3. HoldInv' /\ ScreenInv'
  BY Positive, OlderKeepsOrder DEF Clocks, Truths, HoldInv, ScreenInv
<1>4. Effects'
  BY QuietEffects
<1> QED
  BY <1>1, <1>2, <1>3, <1>4

-----------------------------------------------------------------------------
(* usb_.poll().                                                             *)

(* Taking a packet leaves a queue of packets.                               *)
LEMMA TakeKeepsPackets ==
    ASSUME Packets, NEW req \in Requests, Take(req), UNCHANGED sent
    PROVE  Packets'
BY Positive DEF Packets, Take

(* A CANCEL sets canceled_ and nothing else.                                *)
LEMMA TakeCancelStep == IInv /\ TakeCancel => IInv'
<1> SUFFICES ASSUME IInv, TakeCancel PROVE IInv'
  OBVIOUS
<1> USE DEF IInv, TakeCancel, press, admin, ghosts, Untouched
<1>1. Truths' /\ Packets' /\ Clocks' /\ Places' /\ effect' \in Effect
  <2>1. Truths'
    BY DEF Truths
  <2>2. Packets' /\ Clocks'
    BY Positive, TakeKeepsPackets DEF Clocks, Requests, NotHeld, Ages
  <2>3. Places' /\ effect' \in Effect
    BY DEF Places, Effect, Nothing, Take, Requests
  <2> QED
    BY <2>1, <2>2, <2>3
<1>2. WaitInv' /\ HoldInv' /\ ScreenInv'
  BY Positive DEF Truths, Clocks, WaitInv, HoldInv, ScreenInv, Waiting, Take, NotHeld
<1>3. Effects'
  BY QuietEffects DEF Take
<1> QED
  BY <1>1, <1>2, <1>3

(* A command that does not wait clears canceled_ at most.                   *)
LEMMA TakeInfoStep == IInv /\ TakeInfo => IInv'
<1> SUFFICES ASSUME IInv, TakeInfo PROVE IInv'
  OBVIOUS
<1> USE DEF IInv, TakeInfo, press, admin, ghosts, Untouched, Cleared
<1>1. Truths' /\ Packets' /\ Clocks' /\ Places' /\ effect' \in Effect
  <2>1. Truths'
    BY DEF Truths
  <2>2. Packets' /\ Clocks'
    BY Positive, TakeKeepsPackets DEF Clocks, Requests, NotHeld, Ages
  <2>3. Places' /\ effect' \in Effect
    BY DEF Places, Effect, Nothing, Take, Requests
  <2> QED
    BY <2>1, <2>2, <2>3
<1>2. WaitInv' /\ HoldInv' /\ ScreenInv'
  BY Positive DEF Truths, Clocks, WaitInv, HoldInv, ScreenInv, Waiting, Take, NotHeld
<1>3. Effects'
  BY QuietEffects DEF Take
<1> QED
  BY <1>1, <1>2, <1>3

(* A command that waits is recorded as blocking the admin hold.             *)
LEMMA TakeCtap2Step == IInv /\ TakeCtap2 => IInv'
<1> SUFFICES ASSUME IInv, TakeCtap2 PROVE IInv'
  OBVIOUS
<1> USE DEF IInv, TakeCtap2, press, admin, ghosts, StartWait, Cleared
<1>1. Truths' /\ Packets' /\ Clocks' /\ Places' /\ effect' \in Effect
  <2>1. Truths'
    BY DEF Truths
  <2>2. Packets' /\ Clocks'
    BY Positive, TakeKeepsPackets DEF Clocks, Requests, NotHeld, Ages
  <2>3. Places' /\ effect' \in Effect
    BY DEF Places, Effect, Nothing, Take, Requests
  <2> QED
    BY <2>1, <2>2, <2>3
<1>2. WaitInv' /\ HoldInv' /\ ScreenInv'
  BY Positive DEF Truths, Clocks, WaitInv, HoldInv, ScreenInv, Waiting, Take, NotHeld
<1>3. Effects'
  BY QuietEffects DEF Take
<1> QED
  BY <1>1, <1>2, <1>3

(* So is a U2F command.                                                     *)
LEMMA TakeU2fStep == IInv /\ TakeU2f => IInv'
<1> SUFFICES ASSUME IInv, TakeU2f PROVE IInv'
  OBVIOUS
<1> USE DEF IInv, TakeU2f, press, admin, ghosts, StartWait, Cleared
<1>1. Truths' /\ Packets' /\ Clocks' /\ Places' /\ effect' \in Effect
  <2>1. Truths'
    BY DEF Truths
  <2>2. Packets' /\ Clocks'
    BY Positive, TakeKeepsPackets DEF Clocks, Requests, NotHeld, Ages
  <2>3. Places' /\ effect' \in Effect
    BY DEF Places, Effect, Nothing, Take, Requests
  <2> QED
    BY <2>1, <2>2, <2>3
<1>2. WaitInv' /\ HoldInv' /\ ScreenInv'
  BY Positive DEF Truths, Clocks, WaitInv, HoldInv, ScreenInv, Waiting, Take, NotHeld
<1>3. Effects'
  BY QuietEffects DEF Take
<1> QED
  BY <1>1, <1>2, <1>3

(* So is the reset, whose hold starts unmeasured.                           *)
LEMMA TakeResetStep == IInv /\ TakeReset => IInv'
<1> SUFFICES ASSUME IInv, TakeReset PROVE IInv'
  OBVIOUS
<1> USE DEF IInv, TakeReset, press, admin, ghosts, StartWait, Cleared
<1>1. Truths' /\ Packets' /\ Clocks' /\ Places' /\ effect' \in Effect
  <2>1. Truths'
    BY DEF Truths
  <2>2. Packets' /\ Clocks'
    BY Positive, TakeKeepsPackets DEF Clocks, Requests, NotHeld, Ages
  <2>3. Places' /\ effect' \in Effect
    BY DEF Places, Effect, Nothing, Take, Requests
  <2> QED
    BY <2>1, <2>2, <2>3
<1>2. WaitInv' /\ HoldInv' /\ ScreenInv'
  BY Positive DEF Truths, Clocks, WaitInv, HoldInv, ScreenInv, Waiting, Take, NotHeld
<1>3. Effects'
  BY QuietEffects DEF Take
<1> QED
  BY <1>1, <1>2, <1>3

(* poll() returns without a wait under way.                                 *)
LEMMA PollDoneStep == IInv /\ PollDone => IInv'
<1> SUFFICES ASSUME IInv, PollDone PROVE IInv'
  OBVIOUS
<1> USE DEF IInv, PollDone, press, host, wait, admin, ghosts
<1>1. Truths' /\ Packets' /\ Clocks' /\ Places' /\ effect' \in Effect
  <2>1. Truths'
    BY DEF Truths
  <2>2. Packets' /\ Clocks'
    BY Positive DEF Packets, Clocks
  <2>3. Places' /\ effect' \in Effect
    BY DEF Places, Effect, Nothing
  <2> QED
    BY <2>1, <2>2, <2>3
<1>2. WaitInv' /\ HoldInv' /\ ScreenInv'
  BY Positive DEF Truths, Clocks, WaitInv, HoldInv, ScreenInv, Waiting
<1>3. Effects'
  BY QuietEffects
<1> QED
  BY <1>1, <1>2, <1>3

-----------------------------------------------------------------------------
(* waitForPresence() and waitForResetHold().                                *)

(* A wait that timed out wipes nothing.                                     *)
LEMMA WaitTimeoutStep == IInv /\ WaitTimeout => IInv'
<1> SUFFICES ASSUME IInv, WaitTimeout PROVE IInv'
  OBVIOUS
<1> USE DEF IInv, WaitTimeout, Turn, EndWait, press, host, admin, ghosts
<1>1. Truths' /\ Packets' /\ Clocks' /\ Places' /\ effect' \in Effect
  <2>1. Truths'
    BY DEF Truths
  <2>2. Packets' /\ Clocks'
    BY Positive DEF Packets, Clocks, NotHeld
  <2>3. Places' /\ effect' \in Effect
    BY EndedEffects DEF Places, Outcomes
  <2> QED
    BY <2>1, <2>2, <2>3
<1>2. WaitInv' /\ HoldInv' /\ ScreenInv'
  BY Positive DEF Truths, Clocks, WaitInv, HoldInv, ScreenInv, Waiting, NotHeld
<1>3. Effects'
  BY EndedEffects DEF Outcomes
<1> QED
  BY <1>1, <1>2, <1>3

(* Nor does one that was canceled.                                          *)
LEMMA WaitCanceledStep == IInv /\ WaitCanceled => IInv'
<1> SUFFICES ASSUME IInv, WaitCanceled PROVE IInv'
  OBVIOUS
<1> USE DEF IInv, WaitCanceled, Turn, EndWait, press, host, admin, ghosts
<1>1. Truths' /\ Packets' /\ Clocks' /\ Places' /\ effect' \in Effect
  <2>1. Truths'
    BY DEF Truths
  <2>2. Packets' /\ Clocks'
    BY Positive DEF Packets, Clocks, NotHeld
  <2>3. Places' /\ effect' \in Effect
    BY EndedEffects DEF Places, Outcomes
  <2> QED
    BY <2>1, <2>2, <2>3
<1>2. WaitInv' /\ HoldInv' /\ ScreenInv'
  BY Positive DEF Truths, Clocks, WaitInv, HoldInv, ScreenInv, Waiting, NotHeld
<1>3. Effects'
  BY EndedEffects DEF Outcomes
<1> QED
  BY <1>1, <1>2, <1>3

(* Nor does one that was confirmed: that is left to the commands.           *)
LEMMA SettleStep == IInv /\ Settle => IInv'
<1> SUFFICES ASSUME IInv, Settle PROVE IInv'
  OBVIOUS
<1> USE DEF IInv, Settle, Turn, EndWait, press, host, admin, ghosts
<1>1. Truths' /\ Packets' /\ Clocks' /\ Places' /\ effect' \in Effect
  <2>1. Truths'
    BY DEF Truths
  <2>2. Packets' /\ Clocks'
    BY Positive DEF Packets, Clocks, NotHeld
  <2>3. Places' /\ effect' \in Effect
    BY EndedEffects DEF Places, Outcomes
  <2> QED
    BY <2>1, <2>2, <2>3
<1>2. WaitInv' /\ HoldInv' /\ ScreenInv'
  BY Positive DEF Truths, Clocks, WaitInv, HoldInv, ScreenInv, Waiting, NotHeld
<1>3. Effects'
  BY EndedEffects DEF Outcomes
<1> QED
  BY <1>1, <1>2, <1>3

(* A reset that timed out wipes nothing.                                    *)
LEMMA HoldTimeoutStep == IInv /\ HoldTimeout => IInv'
<1> SUFFICES ASSUME IInv, HoldTimeout PROVE IInv'
  OBVIOUS
<1> USE DEF IInv, HoldTimeout, Turn, EndWait, press, host, admin, ghosts
<1>1. Truths' /\ Packets' /\ Clocks' /\ Places' /\ effect' \in Effect
  <2>1. Truths'
    BY DEF Truths
  <2>2. Packets' /\ Clocks'
    BY Positive DEF Packets, Clocks, NotHeld
  <2>3. Places' /\ effect' \in Effect
    BY EndedEffects DEF Places, Outcomes
  <2> QED
    BY <2>1, <2>2, <2>3
<1>2. WaitInv' /\ HoldInv' /\ ScreenInv'
  BY Positive DEF Truths, Clocks, WaitInv, HoldInv, ScreenInv, Waiting, NotHeld
<1>3. Effects'
  BY EndedEffects DEF Outcomes
<1> QED
  BY <1>1, <1>2, <1>3

(* A look before the timeout leaves time for the next tick.                 *)
LEMMA WaitLookStep == IInv /\ WaitLook => IInv'
<1> SUFFICES ASSUME IInv, WaitLook PROVE IInv'
  OBVIOUS
<1> USE DEF IInv, WaitLook, Turn, press, host, wait, admin, ghosts
<1>1. Truths' /\ Packets' /\ Clocks' /\ Places' /\ effect' \in Effect
  <2>1. Truths'
    BY DEF Truths
  <2>2. Packets' /\ Clocks'
    BY Positive DEF Packets, Clocks
  <2>3. Places' /\ effect' \in Effect
    BY DEF Places, Effect, Nothing
  <2> QED
    BY <2>1, <2>2, <2>3
<1>2. WaitInv' /\ HoldInv' /\ ScreenInv'
  BY Positive DEF Truths, Clocks, WaitInv, HoldInv, ScreenInv, Waiting, TimedOut
<1>3. Effects'
  BY QuietEffects
<1> QED
  BY <1>1, <1>2, <1>3

(* What waitForResetHold measures starts at a look at a button that is      *)
(* down, and is dropped at a look at one that is up.                        *)
LEMMA HoldLookStep == IInv /\ HoldLook => IInv'
<1> SUFFICES ASSUME IInv, HoldLook PROVE IInv'
  OBVIOUS
<1> USE DEF IInv, HoldLook, Turn, press, host, admin, ghosts
<1>1. Truths' /\ Packets' /\ Clocks' /\ Places' /\ effect' \in Effect
  <2>1. Truths'
    BY DEF Truths
  <2>2. Packets' /\ Clocks'
    BY Positive DEF Packets, Clocks, HeldAtLook, Released, NotHeld, Ages
  <2>3. Places' /\ effect' \in Effect
    BY DEF Places, Effect, Nothing
  <2> QED
    BY <2>1, <2>2, <2>3
<1>2. WaitInv' /\ HoldInv' /\ ScreenInv'
  BY Positive DEF Truths, Clocks, WaitInv, HoldInv, ScreenInv, Waiting, TimedOut, HeldAtLook,
                  Released, NotHeld, Ages
<1>3. Effects'
  BY QuietEffects
<1> QED
  BY <1>1, <1>2, <1>3

(* The measured hold is at most the real one, so a wipe is earned.          *)
LEMMA HoldDoneStep == IInv /\ HoldDone => IInv'
<1> SUFFICES ASSUME IInv, HoldDone PROVE IInv'
  OBVIOUS
<1> USE DEF IInv, HoldDone, Turn, EndWait, press, host, admin, ghosts
<1>0. heldFor' >= kResetHold
  BY Positive DEF Clocks, WaitInv, HeldAtLook, Ages, NotHeld
<1>1. Truths' /\ Packets' /\ Clocks' /\ Places' /\ effect' \in Effect
  <2>1. Truths'
    BY DEF Truths
  <2>2. Packets' /\ Clocks'
    BY Positive DEF Packets, Clocks, NotHeld
  <2>3. Places' /\ effect' \in Effect
    BY <1>0, EndedEffects DEF Places, Outcomes
  <2> QED
    BY <2>1, <2>2, <2>3
<1>2. WaitInv' /\ HoldInv' /\ ScreenInv'
  BY Positive DEF Truths, Clocks, WaitInv, HoldInv, ScreenInv, Waiting, NotHeld
<1>3. Effects'
  BY <1>0, EndedEffects DEF Outcomes
<1> QED
  BY <1>1, <1>2, <1>3

-----------------------------------------------------------------------------
(* handleAdminButton().                                                     *)

(* A look at a button that is up forgets the press; if the screen is open   *)
(* BOOT has been released since.                                            *)
LEMMA AdminUpStep == IInv /\ AdminUp => IInv'
<1> SUFFICES ASSUME IInv, AdminUp PROVE IInv'
  OBVIOUS
<1> USE DEF IInv, AdminUp, Admin, ForgetPress, press, host, wait
<1>1. Truths' /\ Packets' /\ Clocks' /\ Places' /\ effect' \in Effect
  <2>1. Truths'
    BY DEF Truths
  <2>2. Packets' /\ Clocks'
    BY Positive DEF Packets, Clocks, Ages
  <2>3. Places' /\ effect' \in Effect
    BY DEF Places, Effect, Nothing, Expired
  <2> QED
    BY <2>1, <2>2, <2>3
<1>2. WaitInv' /\ HoldInv' /\ ScreenInv'
  BY Positive DEF Truths, Clocks, WaitInv, HoldInv, ScreenInv, Waiting, Expired
<1>3. Effects'
  BY QuietEffects
<1> QED
  BY <1>1, <1>2, <1>3

(* A press that opened the screen is ignored until it ends.                 *)
LEMMA AdminIgnoredStep == IInv /\ AdminIgnored => IInv'
<1> SUFFICES ASSUME IInv, AdminIgnored PROVE IInv'
  OBVIOUS
<1> USE DEF IInv, AdminIgnored, Admin, AdminHeld, NeedsRelease, press, host, wait, admin
<1>1. Truths' /\ Packets' /\ Clocks' /\ Places' /\ effect' \in Effect
  <2>1. Truths'
    BY DEF Truths
  <2>2. Packets' /\ Clocks'
    BY Positive DEF Packets, Clocks, Ages
  <2>3. Places' /\ effect' \in Effect
    BY DEF Places, Effect, Nothing
  <2> QED
    BY <2>1, <2>2, <2>3
<1>2. WaitInv' /\ HoldInv' /\ ScreenInv'
  BY Positive DEF Truths, Clocks, WaitInv, HoldInv, ScreenInv, Waiting, Ages
<1>3. Effects'
  BY QuietEffects
<1> QED
  BY <1>1, <1>2, <1>3

(* A press is measured from the look that finds it.                         *)
LEMMA AdminPressedStep == IInv /\ AdminPressed => IInv'
<1> SUFFICES ASSUME IInv, AdminPressed PROVE IInv'
  OBVIOUS
<1> USE DEF IInv, AdminPressed, Admin, AdminHeld, NeedsRelease, press, host, wait, admin
<1>1. Truths' /\ Packets' /\ Clocks' /\ Places' /\ effect' \in Effect
  <2>1. Truths'
    BY DEF Truths
  <2>2. Packets' /\ Clocks'
    BY Positive DEF Packets, Clocks, Ages
  <2>3. Places' /\ effect' \in Effect
    BY DEF Places, Effect, Nothing
  <2> QED
    BY <2>1, <2>2, <2>3
<1>2. WaitInv' /\ HoldInv' /\ ScreenInv'
  BY Positive DEF Truths, Clocks, WaitInv, HoldInv, ScreenInv, Waiting, Ages
<1>3. Effects'
  BY QuietEffects
<1> QED
  BY <1>1, <1>2, <1>3

(* The screen opens with the release still owed.                            *)
LEMMA AdminOpenStep == IInv /\ AdminOpen => IInv'
<1> SUFFICES ASSUME IInv, AdminOpen PROVE IInv'
  OBVIOUS
<1> USE DEF IInv, AdminOpen, Admin, AdminHeld, NeedsRelease, press, host, wait, admin
<1>1. Truths' /\ Packets' /\ Clocks' /\ Places' /\ effect' \in Effect
  <2>1. Truths'
    BY DEF Truths
  <2>2. Packets' /\ Clocks'
    BY Positive DEF Packets, Clocks, Ages
  <2>3. Places' /\ effect' \in Effect
    BY DEF Places, Effect, Nothing
  <2> QED
    BY <2>1, <2>2, <2>3
<1>2. WaitInv' /\ HoldInv' /\ ScreenInv'
  BY Positive DEF Truths, Clocks, WaitInv, HoldInv, ScreenInv, Waiting, Ages
<1>3. Effects'
  BY QuietEffects
<1> QED
  BY <1>1, <1>2, <1>3

(* A hold that is not long enough changes nothing.                          *)
LEMMA AdminWaitsStep == IInv /\ AdminWaits => IInv'
<1> SUFFICES ASSUME IInv, AdminWaits PROVE IInv'
  OBVIOUS
<1> USE DEF IInv, AdminWaits, Admin, AdminHeld, NeedsRelease, press, host, wait, admin
<1>1. Truths' /\ Packets' /\ Clocks' /\ Places' /\ effect' \in Effect
  <2>1. Truths'
    BY DEF Truths
  <2>2. Packets' /\ Clocks'
    BY Positive DEF Packets, Clocks, Ages
  <2>3. Places' /\ effect' \in Effect
    BY DEF Places, Effect, Nothing
  <2> QED
    BY <2>1, <2>2, <2>3
<1>2. WaitInv' /\ HoldInv' /\ ScreenInv'
  BY Positive DEF Truths, Clocks, WaitInv, HoldInv, ScreenInv, Waiting, Ages
<1>3. Effects'
  BY QuietEffects
<1> QED
  BY <1>1, <1>2, <1>3

(* The wipe: the release has happened, and an unblocked hold is real.       *)
LEMMA AdminConfirmedStep == IInv /\ AdminConfirmed => IInv'
<1> SUFFICES ASSUME IInv, AdminConfirmed PROVE IInv'
  OBVIOUS
<1> USE DEF IInv, AdminConfirmed, Admin, AdminHeld, press, host, wait
<1>1. Truths' /\ Packets' /\ Clocks' /\ Places' /\ effect' \in Effect
  <2>1. Truths'
    BY DEF Truths
  <2>2. Packets' /\ Clocks'
    BY Positive DEF Packets, Clocks, Ages
  <2>3. Places' /\ effect' \in Effect
    BY DEF Places, Effect, AdminWipe, Outcomes
  <2> QED
    BY <2>1, <2>2, <2>3
<1>2. WaitInv' /\ HoldInv' /\ ScreenInv'
  BY Positive DEF Truths, Clocks, WaitInv, HoldInv, ScreenInv, Waiting, Ages
<1>3. Effects'
  BY Positive DEF Clocks, Truths, HoldInv, ScreenInv, Effects, ResetHoldIsFull, WipeTakesTwoHolds,
      WipeIsHeldUnlessBlocked, AdminWipe, Ages
<1> QED
  BY <1>1, <1>2, <1>3

-----------------------------------------------------------------------------
(* Between any two steps of the user, the host, the clock and the loop      *)
(* task, the ages that the code measures agree with the real press.         *)
THEOREM PresenceIInv == Spec => []IInv
<1>1. IInv /\ [Next]_vars => IInv'
  <2> SUFFICES ASSUME IInv, [Next]_vars PROVE IInv'
    OBVIOUS
  <2>1. CASE Loop
    <3>1. CASE TakeCancel \/ TakeInfo \/ TakeCtap2 \/ TakeU2f \/ TakeReset \/ PollDone
      BY <3>1, TakeCancelStep, TakeInfoStep, TakeCtap2Step, TakeU2fStep, TakeResetStep, PollDoneStep
    <3>2. CASE WaitTimeout \/ WaitCanceled \/ WaitLook \/ Settle
      BY <3>2, WaitTimeoutStep, WaitCanceledStep, WaitLookStep, SettleStep
    <3>3. CASE HoldTimeout \/ HoldLook \/ HoldDone
      BY <3>3, HoldTimeoutStep, HoldLookStep, HoldDoneStep
    <3>4. CASE AdminUp \/ AdminIgnored \/ AdminPressed \/ AdminOpen \/ AdminConfirmed \/ AdminWaits
      BY <3>4, AdminUpStep, AdminIgnoredStep, AdminPressedStep, AdminOpenStep, AdminConfirmedStep,
         AdminWaitsStep
    <3> QED
      BY <2>1, <3>1, <3>2, <3>3, <3>4 DEF Loop
  <2>2. CASE Toggle \/ Tick
    BY <2>2, ToggleStep, TickStep
  <2>3. ASSUME NEW req \in Requests, Output(req) PROVE IInv'
    BY <2>3, OutputStep
  <2>4. CASE UNCHANGED vars
    BY <2>4 DEF vars, IInv, Truths, Packets, Clocks, Places, WaitInv, HoldInv, ScreenInv, Waiting,
        Effects, ResetHoldIsFull, WipeTakesTwoHolds, WipeIsHeldUnlessBlocked
  <2> QED
    BY <2>1, <2>2, <2>3, <2>4 DEF Next
<1> QED
  BY InitIInv, <1>1, PTL DEF Spec

(* No age passes its bound: in particular a wait is never looked at later   *)
(* than its timeout.                                                        *)
THEOREM PresenceTypeOK == Spec => []TypeOK
<1>1. IInv => TypeOK
  BY TypeParts DEF IInv
<1> QED
  BY PresenceIInv, <1>1, PTL

(* A reset by the host takes a full, unbroken hold.                         *)
THEOREM PresenceResetHoldIsFull == Spec => []ResetHoldIsFull
<1>1. IInv => ResetHoldIsFull
  BY DEF IInv, Effects
<1> QED
  BY PresenceIInv, <1>1, PTL

(* The admin wipe takes two holds with a release in between.                *)
THEOREM PresenceWipeTakesTwoHolds == Spec => []WipeTakesTwoHolds
<1>1. IInv => WipeTakesTwoHolds
  BY DEF IInv, Effects
<1> QED
  BY PresenceIInv, <1>1, PTL

(* The confirming hold is a full one unless a command blocked it.           *)
THEOREM PresenceWipeIsHeldUnlessBlocked == Spec => []WipeIsHeldUnlessBlocked
<1>1. IInv => WipeIsHeldUnlessBlocked
  BY DEF IInv, Effects
<1> QED
  BY PresenceIInv, <1>1, PTL

(* No CANCEL that came before a CTAP2 command ends its wait: handle() has   *)
(* cleared canceled_, and nothing sets it while the command waits.          *)
THEOREM PresenceCancelIsNotLeftOver == Spec => []CancelIsNotLeftOver
<1> DEFINE NotCanceled == Waiting /\ cmd = "ctap2" => ~canceled
           CInv == NotCanceled /\ CancelIsNotLeftOver
<1>1. Init => CInv
  BY DEF Init, Waiting, CancelIsNotLeftOver, Nothing
<1>2. CInv /\ [Next]_vars => CInv'
  <2> SUFFICES ASSUME CInv, [Next]_vars PROVE CInv'
    OBVIOUS
  <2>1. CASE TakeCancel \/ TakeInfo \/ PollDone
    BY <2>1 DEF TakeCancel, TakeInfo, PollDone, Take, Untouched, Waiting, CancelIsNotLeftOver, Nothing
  <2>2. CASE TakeCtap2 \/ TakeU2f \/ TakeReset
    BY <2>2 DEF TakeCtap2, TakeU2f, TakeReset, Take, StartWait, Cleared, Waiting,
        CancelIsNotLeftOver, Nothing
  <2>3. CASE WaitCanceled
    <3>1. Waiting /\ cmd # "ctap2" /\ effect' = Ended("canceled") /\ pc' = "poll"
      BY <2>3 DEF WaitCanceled, EndWait, Waiting
    <3> QED
      BY <3>1 DEF Ended, Waiting, CancelIsNotLeftOver
  <2>4. CASE WaitTimeout \/ Settle \/ HoldTimeout \/ HoldDone
    <3>1. pc' = "poll" /\ \E o \in {"timeout", "confirmed", "wiped"} : effect' = Ended(o)
      BY <2>4 DEF WaitTimeout, Settle, HoldTimeout, HoldDone, EndWait
    <3> QED
      BY <3>1 DEF Ended, Waiting, CancelIsNotLeftOver
  <2>5. CASE WaitLook \/ HoldLook
    BY <2>5 DEF WaitLook, HoldLook, Turn, wait, Waiting, CancelIsNotLeftOver, Nothing
  <2>6. CASE AdminUp \/ AdminIgnored \/ AdminPressed \/ AdminOpen \/ AdminWaits \/ AdminConfirmed
    BY <2>6 DEF AdminUp, AdminIgnored, AdminPressed, AdminOpen, AdminWaits, AdminConfirmed, AdminHeld,
        Admin, Waiting, CancelIsNotLeftOver, Nothing, AdminWipe
  <2>7. CASE Toggle \/ Tick \/ \E req \in Requests : Output(req)
    BY <2>7 DEF Toggle, Tick, Output, wait, Waiting, CancelIsNotLeftOver, Nothing
  <2>8. CASE UNCHANGED vars
    BY <2>8 DEF vars, Waiting, CancelIsNotLeftOver
  <2> QED
    BY <2>1, <2>2, <2>3, <2>4, <2>5, <2>6, <2>7, <2>8 DEF Next, Loop
<1>3. CInv => CancelIsNotLeftOver
  OBVIOUS
<1> QED
  BY <1>1, <1>2, <1>3, PTL DEF Spec

-----------------------------------------------------------------------------
(* Every step that paints is a step of Presence.                            *)
THEOREM UxIsPresence == UxSpec => Spec
<1>1. UxInit => Init
  BY DEF UxInit
<1>2. [UxNext]_uxVars => [Next]_vars
  BY DEF UxNext, UxLoop, UxTick, UxToggle, UxOutput, UxTakeCancel, UxTakeInfo, UxStartWait, UxLook,
     UxWaitFailed, UxSettle, UxHoldDone, UxPollDone, UxAdminUp, UxAdminSilent, UxAdminOpen,
     UxAdminConfirmed, Next, Loop, uxVars
<1> QED
  BY <1>1, <1>2, PTL DEF UxSpec, Spec

(* The promises of the button hold under the screen: the holds of a reset   *)
(* and of the wipe, and the CANCEL that ends the wait it is for.            *)
THEOREM UxKeepsPromises ==
    UxSpec => [](ResetHoldIsFull /\ WipeTakesTwoHolds /\ WipeIsHeldUnlessBlocked /\ CancelIsNotLeftOver)
BY UxIsPresence, PresenceResetHoldIsFull, PresenceWipeTakesTwoHolds, PresenceWipeIsHeldUnlessBlocked,
   PresenceCancelIsNotLeftOver, PTL

\* What a step may do to the screen.
DisplayOK ==
    screen \in Screens /\ overdrawn \in BOOLEAN /\ returnToReadyAt \in Nat \cup {NoReturn}

(* Every painting method leaves a screen and a time that can be.            *)
LEMMA MessageOK ==
    ASSUME NEW time \in MessageTimes, message(time)
    PROVE  screen' = "message" /\ screen' \in Screens /\ returnToReadyAt' \in Nat
BY MessagesAreShown DEF message, MessageTimes, Screens

(* The screen stays one of the four, and its timer a time.                  *)
THEOREM UxTypeIsCorrect == UxSpec => []UxTypeOK
<1>1. UxInit => DisplayOK
  BY DEF UxInit, DisplayOK, Screens
<1>2. DisplayOK /\ [UxNext]_uxVars => DisplayOK'
  <2> SUFFICES ASSUME DisplayOK, [UxNext]_uxVars PROVE DisplayOK'
    OBVIOUS
  <2>1. CASE UNCHANGED display
    BY <2>1 DEF display, DisplayOK
  <2>2. CASE UxTick
    BY <2>2 DEF UxTick, DisplayOK, NoReturn
  <2>3. ASSUME NEW time \in MessageTimes, message(time), overdrawn' = TRUE \/ NotByCommand
        PROVE  DisplayOK'
    BY <2>3, MessageOK DEF DisplayOK, NotByCommand
  <2>4. CASE UxStartWait
    BY <2>4 DEF UxStartWait, waitingForPresence, DisplayOK, Screens, ByCommand
  <2>5. CASE passive /\ (NotByCommand \/ ByCommand)
    BY <2>5 DEF passive, DisplayOK, NotByCommand, ByCommand
  <2>6. CASE UxAdminOpen
    BY <2>6 DEF UxAdminOpen, adminStatus, DisplayOK, Screens
  <2>7. {DiagnosticTime, ErrorTime, SuccessTime} \subseteq MessageTimes
    BY DEF MessageTimes
  <2>8. CASE UxTakeCancel \/ UxTakeInfo \/ UxLook \/ UxSettle \/ UxHoldDone \/ UxWaitFailed \/ UxAdminConfirmed
    BY <2>1, <2>3, <2>5, <2>7, <2>8 DEF UxTakeCancel, UxTakeInfo, UxLook, UxSettle, UxHoldDone,
       UxWaitFailed, UxAdminConfirmed, ByCommand
  <2>9. CASE UxPollDone \/ UxAdminUp \/ UxStartWait
    <3>1. CASE UxPollDone
      BY <3>1 DEF UxPollDone, poll, usbReady, passive, NotByCommand, DisplayOK, Screens
    <3>2. CASE UxAdminUp
      BY <3>2 DEF UxAdminUp, usbReady, passive, NotByCommand, DisplayOK, Screens
    <3> QED
      BY <2>4, <2>9, <3>1, <3>2
  <2>10. CASE UxToggle \/ (\E req \in Requests : UxOutput(req)) \/ UxAdminSilent
    BY <2>1, <2>10 DEF UxToggle, UxOutput, UxAdminSilent
  <2>11. CASE UNCHANGED uxVars
    BY <2>1, <2>11 DEF uxVars, display
  <2> QED
    BY <2>2, <2>6, <2>8, <2>9, <2>10, <2>11 DEF UxNext, UxLoop
<1>3. UxSpec => []DisplayOK
  BY <1>1, <1>2, PTL DEF UxSpec
<1>4. DisplayOK /\ TypeOK => UxTypeOK
  BY DEF DisplayOK, UxTypeOK
<1> QED
  BY <1>3, <1>4, UxIsPresence, PresenceTypeOK, PTL

\* The admin screen has no timer that could paint the ready screen over it.
AdminStays == screen = "admin" => returnToReadyAt = NoReturn

(* The screen offers the wipe while, and only while, a hold would wipe,     *)
(* unless a command has painted over it.                                    *)
THEOREM UxScreenTellsTheHold == UxSpec => []ScreenTellsTheHold
<1> DEFINE UInv == AdminStays /\ ScreenTellsTheHold
<1>1. UxInit => UInv
  BY DEF UxInit, Init, AdminStays, ScreenTellsTheHold, Waiting
<1>2. UInv /\ [UxNext]_uxVars => UInv'
  <2> SUFFICES ASSUME UInv, [UxNext]_uxVars PROVE UInv'
    OBVIOUS
  <2> USE DEF AdminStays, ScreenTellsTheHold, Waiting, display
  <2>1. CASE UxTick \/ UxToggle \/ \E req \in Requests : UxOutput(req)
    BY <2>1 DEF UxTick, UxToggle, UxOutput, Tick, Toggle, Output, wait, admin, NoReturn
  <2>2. CASE UxTakeCancel \/ UxTakeInfo
    BY <2>2 DEF UxTakeCancel, UxTakeInfo, TakeCancel, TakeInfo, Take, Untouched, admin, message, ByCommand
  <2>3. CASE UxStartWait
    BY <2>3 DEF UxStartWait, TakeCtap2, TakeU2f, TakeReset, Take, StartWait, admin, waitingForPresence,
       ByCommand
  <2>4. CASE UxPollDone
    BY <2>4 DEF UxPollDone, PollDone, admin, poll, Due, usbReady, passive, NotByCommand, NoReturn
  <2>5. CASE UxLook
    BY <2>5 DEF UxLook, WaitLook, HoldLook, Turn, wait, admin, message, ByCommand
  <2>6. CASE UxWaitFailed \/ UxHoldDone
    BY <2>6 DEF UxWaitFailed, UxHoldDone, WaitTimeout, WaitCanceled, HoldTimeout, HoldDone, EndWait,
       Turn, admin, message, ByCommand
  <2>7. CASE UxSettle
    BY <2>7 DEF UxSettle, Settle, EndWait, Turn, admin, message, passive, ByCommand
  <2>8. CASE UxAdminUp
    BY <2>8 DEF UxAdminUp, AdminUp, Admin, Expired, usbReady, passive, NotByCommand
  <2>9. CASE UxAdminSilent
    BY <2>9 DEF UxAdminSilent, AdminIgnored, AdminPressed, AdminWaits, AdminHeld, Admin, admin
  <2>10. CASE UxAdminOpen \/ UxAdminConfirmed
    BY <2>10 DEF UxAdminOpen, AdminOpen, UxAdminConfirmed, AdminConfirmed, AdminHeld, Admin, adminStatus,
       message, NotByCommand
  <2>11. CASE UNCHANGED uxVars
    BY <2>11 DEF uxVars, vars
  <2> QED
    BY <2>1, <2>2, <2>3, <2>4, <2>5, <2>6, <2>7, <2>8, <2>9, <2>10, <2>11 DEF UxNext, UxLoop
<1>3. UInv => ScreenTellsTheHold
  OBVIOUS
<1> QED
  BY <1>1, <1>2, <1>3, PTL DEF UxSpec
=============================================================================
