------------------------------ MODULE AmoledUx ------------------------------
(***************************************************************************)
(* What the user reads while BOOT is pressed: Presence, with the screen of *)
(* src/src/AmoledUx.cpp that each of its steps paints.  A screen is known  *)
(* by what it tells the user to do; the text on it is left out, and so is  *)
(* a board whose display did not start (ready_ false).                     *)
(***************************************************************************)
EXTENDS Presence

CONSTANTS
    DiagnosticTime, SuccessTime, ErrorTime  \* how long a message is shown, in ticks

ASSUME MessagesAreShown == {DiagnosticTime, SuccessTime, ErrorTime} \subseteq Nat \ {0}

\* "ready", "Press BOOT to approve", "Hold BOOT 5s to wipe", and any message.
Screens == {"ready", "prompt", "admin", "message"}
NoReturn == -1
MessageTimes == {DiagnosticTime, SuccessTime, ErrorTime}

VARIABLES
    screen,
    returnToReadyAt,    \* the time left until returnToReadyAt_, or NoReturn
    overdrawn           \* a command has painted since the admin screen opened

display == <<screen, returnToReadyAt, overdrawn>>
uxVars == <<vars, screen, returnToReadyAt, overdrawn>>

\* begin() ends with ux_.usbReady().
UxInit == Init /\ screen = "ready" /\ returnToReadyAt = NoReturn /\ overdrawn = FALSE

-----------------------------------------------------------------------------
(* The methods of AmoledUx.                                                 *)

usbReady == screen' = "ready" /\ returnToReadyAt' = NoReturn

waitingForPresence == screen' = "prompt" /\ returnToReadyAt' = NoReturn

adminStatusKeepsTimer == screen' = "admin" /\ UNCHANGED returnToReadyAt
adminStatus == screen' = "admin" /\ returnToReadyAt' = NoReturn

\* diagnostic, diagnosticError, success and error.
message(time) == screen' = "message" /\ returnToReadyAt' = time

\* trace and recorderStatus keep what they are given for the next usbReady.
passive == UNCHANGED <<screen, returnToReadyAt>>

Due == returnToReadyAt = 0
poll == IF Due THEN usbReady ELSE passive

-----------------------------------------------------------------------------
(* The steps of Presence, with what they paint.                             *)

ByCommand == overdrawn' = TRUE
NotByCommand == UNCHANGED overdrawn

\* The clock, and what happens outside the loop task, paints nothing.
UxTick ==
    /\ Tick
    /\ returnToReadyAt' = IF returnToReadyAt > 0 THEN returnToReadyAt - 1 ELSE returnToReadyAt
    /\ UNCHANGED <<screen, overdrawn>>

UxToggle == Toggle /\ UNCHANGED display
UxOutput(req) == Output(req) /\ UNCHANGED display
UxTakeCancel == TakeCancel /\ message(DiagnosticTime) /\ ByCommand

\* Most commands without a wait say what they did, the probes do not.
UxTakeInfo ==
    /\ TakeInfo
    /\ \/ UNCHANGED display
       \/ \E time \in MessageTimes : message(time) /\ ByCommand

UxStartWait == (TakeCtap2 \/ TakeU2f \/ TakeReset) /\ waitingForPresence /\ ByCommand

\* A keepalive that the host does not take paints over the prompt.
UxLook ==
    \/ (WaitLook \/ HoldLook) /\ UNCHANGED display
    \/ WaitLook /\ ~button /\ cmd = "ctap2" /\ message(ErrorTime) /\ ByCommand

UxWaitFailed == (WaitTimeout \/ WaitCanceled \/ HoldTimeout) /\ message(ErrorTime) /\ ByCommand

\* "BOOT detected", and over it what the command that goes on ends with; a bounce
\* leaves the prompt.  After either, that the host did not take the answer.
UxSettle ==
    /\ Settle /\ ByCommand
    /\ \/ button /\ \E time \in MessageTimes : message(time)
       \/ ~button /\ (passive \/ message(ErrorTime))

UxHoldDone == HoldDone /\ ByCommand /\ \E time \in {SuccessTime, ErrorTime} : message(time)

\* loop() calls ux_.poll() between usb_.poll() and handleAdminButton().
UxPollDone == PollDone /\ poll /\ NotByCommand

UxAdminUp == AdminUp /\ NotByCommand /\ IF Expired THEN usbReady ELSE passive
UxAdminSilent == (AdminIgnored \/ AdminPressed \/ AdminWaits) /\ UNCHANGED display
UxAdminOpen == AdminOpen /\ adminStatus /\ overdrawn' = FALSE
UxAdminConfirmed == AdminConfirmed /\ message(SuccessTime) /\ NotByCommand

-----------------------------------------------------------------------------
UxLoop ==
    \/ UxTakeCancel \/ UxTakeInfo \/ UxStartWait \/ UxPollDone
    \/ UxLook \/ UxWaitFailed \/ UxSettle \/ UxHoldDone
    \/ UxAdminUp \/ UxAdminSilent \/ UxAdminOpen \/ UxAdminConfirmed

UxNext == UxLoop \/ UxToggle \/ UxTick \/ \E req \in Requests : UxOutput(req)

UxSpec == UxInit /\ [][UxNext]_uxVars

FairUxSpec == UxSpec /\ WF_uxVars(UxLoop) /\ SF_uxVars(UxTick)

-----------------------------------------------------------------------------
UxTypeOK ==
    /\ TypeOK
    /\ screen \in Screens /\ overdrawn \in BOOLEAN
    /\ returnToReadyAt \in Nat \cup {NoReturn}

(* The screen tells what a hold of BOOT does.  Whoever holds it while a     *)
(* command waits reads the prompt, or that a keepalive was not taken, and   *)
(* never that the device is ready or about to be wiped.  "Hold BOOT 5s to   *)
(* wipe" is shown only while such a hold would wipe, and all the time that  *)
(* one would: until a command paints over it, which leaves the wipe armed   *)
(* behind its messages and behind the ready screen they give way to.        *)
ScreenTellsTheHold ==
    /\ Waiting => screen \in {"prompt", "message"}
    /\ screen = "admin" => adminState = "kConfirm"
    /\ adminState = "kConfirm" /\ ~overdrawn => screen = "admin"
=============================================================================
