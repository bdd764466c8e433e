------------------------------ MODULE Presence ------------------------------
(***************************************************************************)
(* The BOOT button and everything that waits for it: loop() and the admin  *)
(* hold of src/src/App.cpp, waitForPresence() of src/src/Ctap2.cpp and     *)
(* waitForResetHold() of src/src/UserPresence.cpp, with the commands and   *)
(* CANCELs the host puts in the report queue meanwhile.                    *)
(*                                                                         *)
(* Time is a count of ticks, much longer than a turn of a loop: the loop   *)
(* task looks at the button at least once in every tick, and at least once *)
(* between two changes of it.  A time since some event is kept as an age   *)
(* that Tick advances, up to Longest, beyond which no comparison tells two *)
(* ages apart.  A command without a wait takes no time.                    *)
(***************************************************************************)
EXTENDS Integers, Sequences

CONSTANTS
    kUserPresenceTimeout, kResetHold, kAdminOpenHold, kAdminConfirmHold,
    kAdminConfirmTimeout,       \* of BuildConfig, in ticks
    Longest,                    \* bound: the greatest age
    MaxRequests                 \* bound: packets the host sends

ASSUME TimesArePositive ==
    /\ Longest \in Nat
    /\ {kUserPresenceTimeout, kResetHold, kAdminOpenHold, kAdminConfirmHold,
        kAdminConfirmTimeout} \subseteq 1 .. Longest
ASSUME MaxRequestsIsNat == MaxRequests \in Nat

\* "ctap2" and "u2f" stand for the commands that call waitForPresence, "info"
\* for those CTAP2 commands that do not wait.
Requests == {"ctap2", "u2f", "reset", "info", "cancel"}
NotHeld == -1
Ages == 0 .. Longest

VARIABLES
    button,             \* BOOT is down
    heldFor,            \* for how long it has been
    looked,             \* the loop task has seen it so, in this tick
    queue, sent,        \* packets waiting in queue_, packets sent so far
    pc,                 \* where loop() is
    cmd,                \* the command that waits
    waited,             \* time since it started
    heldSince,          \* heldSince of waitForResetHold, as an age, or NotHeld
    canceled,           \* canceled_
    adminState, bootWasPressed, adminNeedsRelease,
    bootHeldMs,         \* time since bootHeldSince_
    confirmMs,          \* time since adminConfirmStarted_
    blocked,            \* a command has waited since bootWasPressed_ was set
    released,           \* BOOT was up at some time since the admin screen opened
    cancelArrived,      \* a CANCEL came during this wait, before the press was seen
    effect              \* what the last step did, if it did anything

press == <<button, heldFor>>
host == <<queue, sent>>
wait == <<cmd, waited, heldSince, canceled>>
admin == <<adminState, bootWasPressed, adminNeedsRelease, bootHeldMs, confirmMs>>
ghosts == <<blocked, released, cancelArrived>>
vars == <<button, heldFor, looked, queue, sent, pc, cmd, waited, heldSince, canceled,
          adminState, bootWasPressed, adminNeedsRelease, bootHeldMs, confirmMs,
          blocked, released, cancelArrived, effect>>

Outcomes == {"confirmed", "canceled", "timeout", "wiped"}
Nothing == {}
Ended(outcome) == {[by |-> cmd, outcome |-> outcome]}
AdminWipe == [by |-> "admin", outcome |-> "wiped"]

TypeOK ==
    /\ button \in BOOLEAN /\ looked \in BOOLEAN /\ heldFor \in Ages
    /\ queue \in Seq(Requests) /\ Len(queue) <= sent /\ sent \in 0 .. MaxRequests
    /\ pc \in {"poll", "wait", "settle", "hold", "admin"}
    /\ cmd \in Requests \ {"info", "cancel"}
    /\ waited \in 0 .. kUserPresenceTimeout
    /\ heldSince \in Ages \cup {NotHeld} /\ (heldSince # NotHeld => heldSince <= waited)
    /\ canceled \in BOOLEAN
    /\ adminState \in {"kReady", "kConfirm"}
    /\ bootWasPressed \in BOOLEAN /\ adminNeedsRelease \in BOOLEAN
    /\ bootHeldMs \in Ages /\ confirmMs \in Ages
    /\ blocked \in BOOLEAN /\ released \in BOOLEAN /\ cancelArrived \in BOOLEAN
    /\ effect \in SUBSET [by : {"ctap2", "u2f", "reset", "admin"}, outcome : Outcomes]

Init ==
    /\ button = FALSE /\ heldFor = 0 /\ looked = FALSE
    /\ queue = <<>> /\ sent = 0
    /\ pc = "poll" /\ cmd = "ctap2" /\ waited = 0 /\ heldSince = NotHeld /\ canceled = FALSE
    /\ adminState = "kReady" /\ bootWasPressed = FALSE /\ adminNeedsRelease = FALSE
    /\ bootHeldMs = 0 /\ confirmMs = 0
    /\ blocked = FALSE /\ released = FALSE /\ cancelArrived = FALSE
    /\ effect = Nothing

-----------------------------------------------------------------------------
(* The user, the host and the clock.                                        *)

Toggle ==
    /\ looked
    /\ button' = ~button /\ heldFor' = 0 /\ looked' = FALSE
    /\ released' = TRUE
    /\ effect' = Nothing
    /\ UNCHANGED <<host, pc, wait, admin, blocked, cancelArrived>>

\* The callback of the USB task: a packet can come at any time.
Output(req) ==
    /\ sent < MaxRequests
    /\ queue' = Append(queue, req) /\ sent' = sent + 1
    /\ cancelArrived' = (cancelArrived \/ (req = "cancel" /\ pc = "wait"))
    /\ effect' = Nothing
    /\ UNCHANGED <<press, looked, pc, wait, admin, blocked, released>>

Older(age) == IF age < Longest THEN age + 1 ELSE Longest

Waiting == pc \in {"wait", "settle", "hold"}

Tick ==
    /\ looked /\ looked' = FALSE
    /\ heldFor' = IF button THEN Older(heldFor) ELSE heldFor
    /\ waited' = IF Waiting THEN Older(waited) ELSE waited
    /\ heldSince' = IF heldSince # NotHeld THEN Older(heldSince) ELSE NotHeld
    /\ bootHeldMs' = IF bootWasPressed THEN Older(bootHeldMs) ELSE bootHeldMs
    /\ confirmMs' = IF adminState = "kConfirm" THEN Older(confirmMs) ELSE confirmMs
    /\ effect' = Nothing
    /\ UNCHANGED <<button, host, pc, cmd, canceled, adminState, bootWasPressed,
                   adminNeedsRelease, ghosts>>

-----------------------------------------------------------------------------
(* usb_.poll(): one packet after the other, each handled to its end.        *)

Take(req) ==
    /\ pc = "poll" /\ queue # <<>> /\ Head(queue) = req
    /\ queue' = Tail(queue) /\ effect' = Nothing

StartWait(c) ==
    /\ cmd' = c /\ waited' = 0 /\ heldSince' = NotHeld
    /\ cancelArrived' = FALSE /\ blocked' = TRUE
    /\ UNCHANGED <<press, looked, sent, admin, released>>

Untouched == UNCHANGED <<press, looked, sent, admin, ghosts>>

TakeCancel ==
    /\ Take("cancel")
    /\ canceled' = TRUE
    /\ Untouched /\ UNCHANGED <<pc, cmd, waited, heldSince>>

\* handle() clears canceled_ first.
ClearedNever == canceled
Cleared == FALSE

TakeInfo ==
    /\ Take("info")
    /\ canceled' = Cleared
    /\ Untouched /\ UNCHANGED <<pc, cmd, waited, heldSince>>

TakeCtap2 ==
    /\ Take("ctap2") /\ StartWait("ctap2") /\ pc' = "wait"
    /\ canceled' = Cleared

\* handleCtap1() does not.
TakeU2f ==
    /\ Take("u2f") /\ StartWait("u2f") /\ pc' = "wait"
    /\ UNCHANGED canceled

TakeReset ==
    /\ Take("reset") /\ StartWait("reset") /\ pc' = "hold"
    /\ canceled' = Cleared

PollDone ==
    /\ pc = "poll" /\ queue = <<>>
    /\ pc' = "admin" /\ effect' = Nothing
    /\ UNCHANGED <<press, looked, host, wait, admin, ghosts>>

-----------------------------------------------------------------------------
(* waitForPresence(), one turn of its loop at a time.                       *)

Turn == looked' = TRUE /\ UNCHANGED <<press, host, admin, ghosts>>
TimedOutLate == waited > kUserPresenceTimeout
TimedOutNever == FALSE
TimedOut == waited >= kUserPresenceTimeout

\* The command answers, and poll() goes on with the next packet.
EndWait(outcome) ==
    /\ pc' = "poll" /\ heldSince' = NotHeld /\ waited' = 0 /\ effect' = Ended(outcome)
    /\ UNCHANGED <<cmd, canceled>>

WaitTimeout == pc = "wait" /\ TimedOut /\ Turn /\ EndWait("timeout")

WaitCanceled == pc = "wait" /\ ~TimedOut /\ canceled /\ Turn /\ EndWait("canceled")

WaitLook ==
    /\ pc = "wait" /\ ~TimedOut /\ ~canceled
    /\ pc' = IF button THEN "settle" ELSE "wait"
    /\ Turn /\ effect' = Nothing /\ UNCHANGED wait

\* The second look, 25 ms later.  A bounce ends the wait like a timeout.
Settle ==
    /\ pc = "settle"
    /\ Turn /\ EndWait(IF button THEN "confirmed" ELSE "timeout")

-----------------------------------------------------------------------------
(* waitForResetHold(), and the wipe that handleReset() goes on to.          *)

HeldAtLook == IF heldSince = NotHeld THEN 0 ELSE heldSince
ReleasedKept == heldSince
Released == NotHeld

HoldTimeout == pc = "hold" /\ TimedOut /\ Turn /\ EndWait("timeout")

HoldLook ==
    /\ pc = "hold" /\ ~TimedOut
    /\ ~button \/ HeldAtLook < kResetHold
    /\ heldSince' = IF button THEN HeldAtLook ELSE Released
    /\ Turn /\ effect' = Nothing /\ UNCHANGED <<pc, cmd, waited, canceled>>

HoldDone ==
    /\ pc = "hold" /\ ~TimedOut
    /\ button /\ HeldAtLook >= kResetHold
    /\ Turn /\ EndWait("wiped")

-----------------------------------------------------------------------------
(* handleAdminButton().                                                     *)

Admin ==
    /\ pc = "admin"
    /\ pc' = "poll" /\ looked' = TRUE
    /\ UNCHANGED <<press, host, wait, cancelArrived>>

KeepPress == UNCHANGED <<bootWasPressed, bootHeldMs>>
ForgetPress == bootWasPressed' = FALSE /\ bootHeldMs' = 0
NeverExpired == FALSE
Expired == adminState = "kConfirm" /\ confirmMs >= kAdminConfirmTimeout

AdminUp ==
    /\ Admin /\ ~button
    /\ ForgetPress /\ adminNeedsRelease' = FALSE
    /\ adminState' = IF Expired THEN "kReady" ELSE adminState
    /\ confirmMs' = IF Expired THEN 0 ELSE confirmMs
    /\ blocked' = FALSE
    /\ effect' = Nothing /\ UNCHANGED released

AdminIgnored ==
    /\ Admin /\ button /\ adminNeedsRelease
    /\ effect' = Nothing /\ UNCHANGED <<admin, blocked, released>>

AdminPressed ==
    /\ Admin /\ button /\ ~adminNeedsRelease /\ ~bootWasPressed
    /\ bootWasPressed' = TRUE /\ bootHeldMs' = 0
    /\ blocked' = FALSE
    /\ effect' = Nothing /\ UNCHANGED <<adminState, adminNeedsRelease, confirmMs, released>>

AdminHeld == Admin /\ button /\ ~adminNeedsRelease /\ bootWasPressed

NeedsNoRelease == FALSE
NeedsRelease == TRUE

AdminOpen ==
    /\ AdminHeld /\ adminState = "kReady" /\ bootHeldMs >= kAdminOpenHold
    /\ adminState' = "kConfirm" /\ confirmMs' = 0 /\ adminNeedsRelease' = NeedsRelease
    /\ released' = FALSE
    /\ effect' = Nothing /\ UNCHANGED <<bootWasPressed, bootHeldMs, blocked>>

AdminConfirmed ==
    /\ AdminHeld /\ adminState = "kConfirm" /\ bootHeldMs >= kAdminConfirmHold
    /\ adminState' = "kReady" /\ confirmMs' = 0 /\ bootHeldMs' = 0
    /\ effect' = {AdminWipe}
    /\ UNCHANGED <<bootWasPressed, adminNeedsRelease, blocked, released>>

AdminWaits ==
    /\ AdminHeld
    /\ bootHeldMs < IF adminState = "kReady" THEN kAdminOpenHold ELSE kAdminConfirmHold
    /\ effect' = Nothing /\ UNCHANGED <<admin, blocked, released>>

-----------------------------------------------------------------------------
Loop ==
    \/ TakeCancel \/ TakeInfo \/ TakeCtap2 \/ TakeU2f \/ TakeReset \/ PollDone
    \/ WaitTimeout \/ WaitCanceled \/ WaitLook \/ Settle
    \/ HoldTimeout \/ HoldLook \/ HoldDone
    \/ AdminUp \/ AdminIgnored \/ AdminPressed \/ AdminOpen \/ AdminConfirmed \/ AdminWaits

Next == Loop \/ Toggle \/ Tick \/ \E req \in Requests : Output(req)

Spec == Init /\ [][Next]_vars

\* The loop task keeps running.  Time passes whatever the user does: Tick is
\* disabled for the instant between a change of the button and the next look.
FairSpec == Spec /\ WF_vars(Loop) /\ SF_vars(Tick)

-----------------------------------------------------------------------------
(* The host's reset wipes the device only when BOOT was held for the whole  *)
(* of kResetHoldMs, without a release in between, while its prompt was up.  *)
ResetHoldIsFull ==
    \A e \in effect : (e.by = "reset" /\ e.outcome = "wiped") => heldFor >= kResetHold

(* The hold that opens the admin screen never goes on to wipe: BOOT was     *)
(* released after the screen opened ("Release BOOT", arduino-cli-mvp.md,    *)
(* line 124), also when a command blocked the loop in between.              *)
WipeTakesTwoHolds == AdminWipe \in effect => released

(* When no command waited during it, the hold that wipes lasted for the     *)
(* whole of kAdminConfirmHoldMs.                                            *)
WipeIsHeldUnlessBlocked == (AdminWipe \in effect /\ ~blocked) => heldFor >= kAdminConfirmHold

(* The wait of a CTAP2 command is never ended by a CANCEL that was meant    *)
(* for an earlier one.  (Waits of U2F commands are: see TakeU2f.)           *)
CancelIsNotLeftOver ==
    \A e \in effect : (e.by = "ctap2" /\ e.outcome = "canceled") => cancelArrived

(* Every wait ends, whatever the user and the host do.                      *)
WaitsEnd == Waiting ~> pc = "poll"

(* The admin screen does not stay open unattended: it closes, or the user   *)
(* presses BOOT.                                                            *)
AdminScreenCloses == adminState = "kConfirm" ~> (adminState = "kReady" \/ button)

(* "If CTAPHID_CANCEL arrives while waiting, stop waiting" (the             *)
(* authenticator spec in src/docs/specs, line 363).  Does not hold: the     *)
(* packet stays in the queue until the wait is over.                        *)
CancelStopsTheWait ==
    \A e \in effect : e.outcome = "confirmed" => ~cancelArrived

(* "Long-hold BOOT again for about 5 seconds to confirm the wipe"           *)
(* (src/docs/bringup/arduino-cli-mvp.md, line 125).  Does not hold: two     *)
(* presses on either side of a command's wait count as one hold.            *)
WipeIsHeld == AdminWipe \in effect => heldFor >= kAdminConfirmHold
=============================================================================
