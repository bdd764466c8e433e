---------------------------- MODULE LabRecorder ----------------------------
(***************************************************************************)
(* The recorder of src/src/LabRecorder.cpp: a numbered session log and a   *)
(* bundle of proof notes on a TF card, and the last summaries in memory.   *)
(* Its events come from the reports that UsbQueue hands to the commands,   *)
(* and from the admin wipe.                                                *)
(*                                                                         *)
(* A file is the sequence of its lines.  The card may refuse to open a     *)
(* file, and may keep a part of what is printed or nothing: the results of *)
(* print are not looked at.  A cut line has no end, so that a reader of    *)
(* the file finds the next one joined to it.  The card at power-up is one  *)
(* that only this firmware has written to.                                 *)
(***************************************************************************)
EXTENDS UsbQueue, FiniteSets

CONSTANTS
    MaxSession,     \* the highest session number, 999 in the code
    kHistoryDepth,
    MaxEvents,      \* bound: events recorded
    MaxFaults       \* bound: prints that the card does not keep whole

ASSUME RecorderSizes ==
    MaxSession \in Nat \ {0} /\ kHistoryDepth \in Nat \ {0} /\ MaxEvents \in Nat /\ MaxFaults \in Nat

\* isFullRpAllowed: the two relying parties whose names may be shown.
Public == {"webauthn.io", ".dummy"}
Boot == [rp |-> "", proof |-> FALSE]
Wipe == [rp |-> "", proof |-> TRUE]
\* A registration or sign-in, which goes to the proof notes, or a failure.
CommandEvents == [rp : {"webauthn.io", "private"}, proof : {TRUE}] \cup [rp : {"private"}, proof : {FALSE}]

NoFile == <<[seq |-> 0, rp |-> "no file", whole |-> FALSE]>>
Empty == <<>>                       \* for a proof file: its heading
SessionNumbers == 1 .. MaxSession

VARIABLES
    sessions, proofs,           \* the files of each number, on the card
    session,                    \* the number in sessionPath_ and proofPath_, or 0
    sdReady, statusLine,
    seq,                        \* seq_
    history, historyNext, historyCount,
    faults,
    before,                     \* the card as it was found
    events                      \* what has happened since power-up

file == <<sessions, proofs, sdReady, statusLine, faults>>
recorder == <<sessions, proofs, session, sdReady, statusLine, seq, history, historyNext,
              historyCount, faults, before, events>>
labVars == <<vars, sessions, proofs, session, sdReady, statusLine, seq, history, historyNext,
             historyCount, faults, before, events>>

-----------------------------------------------------------------------------
(* begin().                                                                 *)

\* chooseSessionFiles() takes the first number without a session file.
Free(files) == {n \in SessionNumbers : files[n] = NoFile}
FirstNumber(files) == 1
FirstFree(files) == CHOOSE n \in Free(files) : \A m \in Free(files) : n <= m

\* The card after some earlier starts, any of which may have been refused its
\* proof file.
Earlier == <<[seq |-> 1, rp |-> "", whole |-> TRUE]>>
Files(numbers) == [n \in SessionNumbers |-> IF n \in numbers THEN Earlier ELSE NoFile]
Cards ==
    UNION {{[sessions |-> Files(1 .. k), proofs |-> Files(S)] : S \in SUBSET (1 .. k)} :
           k \in 0 .. MaxSession}

\* Nothing was mounted, or no number was free.  The other ways to stay off (no
\* card, a directory or the session file refused) differ in the status only.
BeginOff(status) ==
    /\ sdReady = FALSE /\ statusLine = status /\ session = 0
    /\ sessions = before.sessions /\ proofs = before.proofs

\* FILE_WRITE empties a file that is there.
BeginSession(status, withProof) ==
    LET n == FirstFree(before.sessions) IN
    /\ Free(before.sessions) # {}
    /\ session = n /\ sessions = [before.sessions EXCEPT ![n] = Empty]
    /\ proofs = IF withProof THEN [before.proofs EXCEPT ![n] = Empty] ELSE before.proofs
    /\ sdReady = withProof /\ statusLine = status

begin ==
    \/ BeginOff("SD off: mount failed")
    \/ Free(before.sessions) = {} /\ BeginOff("SD off: write failed")
    \/ BeginSession("SD off: write failed", FALSE)
    \/ BeginSession("SD ready", TRUE)

-----------------------------------------------------------------------------
(* record().                                                                *)

Redacted(rp) == IF rp \in Public \cup {""} THEN rp ELSE "redacted"

\* What the card keeps of a line that is printed.
Outcomes == {"whole", "cut", "lost"}
Kept(lines, n, e, outcome) ==
    IF outcome = "lost" THEN lines
    ELSE Append(lines, [seq |-> n, rp |-> Redacted(e.rp), whole |-> outcome = "whole"])
Faults(outcomes) == Cardinality({i \in DOMAIN outcomes : outcomes[i] # "whole"})

updateHistory(e) ==
    /\ history' = [history EXCEPT ![historyNext] = Redacted(e.rp)]
    /\ historyNext' = (historyNext + 1) % kHistoryDepth
    /\ historyCount' = IF historyCount < kHistoryDepth THEN historyCount + 1 ELSE historyCount

\* An open that is refused turns the recorder off until the next start.
appendJsonl(n, e, outcome) ==
    \/ /\ sessions' = [sessions EXCEPT ![session] = Kept(@, n, e, outcome)]
       /\ UNCHANGED <<sdReady, statusLine>>
    \/ /\ outcome = "whole"
       /\ sdReady' = FALSE /\ statusLine' = "SD off: append failed"
       /\ UNCHANGED sessions

\* Tried even when the log has just been given up; a refused open is silent.
appendProof(n, e, outcome) ==
    proofs' = IF e.proof THEN [proofs EXCEPT ![session] = Kept(@, n, e, outcome)] ELSE proofs

record(e) ==
    /\ seq < MaxEvents
    /\ seq' = seq + 1 /\ events' = Append(events, e)
    /\ updateHistory(e)
    /\ IF sdReady
       THEN \E log, note \in Outcomes :
              /\ ~e.proof => note = "whole"
              /\ faults' = faults + Faults(<<log, note>>) /\ faults' <= MaxFaults
              /\ appendJsonl(seq + 1, e, log)
              /\ appendProof(seq + 1, e, note)
       ELSE UNCHANGED file
    /\ UNCHANGED <<session, before>>

-----------------------------------------------------------------------------
(* The loop task.                                                           *)

LabInit ==
    /\ Init
    /\ before \in Cards /\ begin /\ faults = 0
    /\ seq = 0 /\ events = <<>>
    /\ history = [i \in 0 .. kHistoryDepth - 1 |-> "none"] /\ historyNext = 0 /\ historyCount = 0

\* Esp32KeyApp::begin() records the boot before it starts USB.
recordBoot == seq = 0 /\ record(Boot) /\ UNCHANGED vars

UsbStarted == seq # 0

\* A packet completes a command that is recorded, or not.
Handle ==
    /\ UsbStarted /\ Receive
    /\ (\E e \in CommandEvents : record(e)) \/ UNCHANGED recorder

AdminWiped ==
    /\ UsbStarted /\ rpc = "idle" /\ ~Something
    /\ record(Wipe) /\ UNCHANGED vars

PollStep == UsbStarted /\ (Look \/ ReadLow \/ ReadHigh \/ Advance) /\ UNCHANGED recorder
OutputStep == UsbStarted /\ Output /\ UNCHANGED recorder

LabPoll == PollStep \/ Handle
LabNext == recordBoot \/ LabPoll \/ AdminWiped \/ OutputStep

LabSpec == LabInit /\ [][LabNext]_labVars

FairLabSpec == LabSpec /\ WF_labVars(LabPoll)

-----------------------------------------------------------------------------
\* The events a reader of the file finds: whole lines that start a line.
Readable(lines) ==
    {lines[i].seq : i \in {j \in DOMAIN lines : lines[j].whole /\ (j = 1 \/ lines[j - 1].whole)}}
InOrder(lines) == \A i, j \in DOMAIN lines : i < j => lines[i].seq < lines[j].seq
Tells(lines) ==
    \A i \in DOMAIN lines :
        lines[i].seq \in 1 .. seq /\ lines[i].rp = Redacted(events[lines[i].seq].rp)
Last(lines) == IF lines = <<>> THEN 0 ELSE lines[Len(lines)].seq
Proofs == {n \in DOMAIN events : events[n].proof}

(* The log is in the order of the numbers, and a print the card spoils      *)
(* costs at most two events while the recorder is on: its own and the one   *)
(* that is joined to it.  It turns off only with a status line that says so.*)
LogIsComplete ==
    session # 0 =>
        LET log == sessions[session] IN
        /\ InOrder(log) /\ Tells(log)
        /\ Cardinality((1 .. IF sdReady THEN seq ELSE Last(log)) \ Readable(log)) <= 2 * faults
        /\ sdReady = (statusLine = "SD ready")

\* The same of the proof notes, one of which may be about the event whose
\* log line was refused.
ProofsAreEvents ==
    (session # 0 /\ proofs[session] # NoFile) =>
        LET notes == proofs[session] IN
        /\ InOrder(notes) /\ Tells(notes)
        /\ Readable(notes) \subseteq Proofs
        /\ \A n \in Readable(notes) : n <= Last(sessions[session]) + 1 + faults
        /\ sdReady => Cardinality(Proofs \ Readable(notes)) <= 2 * faults

\* What earlier starts wrote is as it was.
EarlierSessionsStay ==
    /\ \A n \in SessionNumbers \ {session} :
          sessions[n] = before.sessions[n] /\ proofs[n] = before.proofs[n]
    /\ session # 0 => before.sessions[session] = NoFile /\ before.proofs[session] = NoFile

\* No name of a relying party but the public ones is kept anywhere.
NamesStayPrivate ==
    /\ \A n \in SessionNumbers : \A f \in {sessions[n], proofs[n]} \ {NoFile} :
          \A i \in DOMAIN f : f[i].rp # "private"
    /\ \A i \in DOMAIN history : history[i] # "private"

\* history_ goes round and holds the latest events.
HistoryIsLatest ==
    /\ historyCount = IF seq < kHistoryDepth THEN seq ELSE kHistoryDepth
    /\ \A i \in 1 .. historyCount :
          history[(historyNext + kHistoryDepth - i) % kHistoryDepth] = Redacted(events[seq + 1 - i].rp)

(* What a session leaves on the card is its events in order, without the    *)
(* names of relying parties, beside what earlier sessions left.             *)
SessionIsRecorded ==
    LogIsComplete /\ ProofsAreEvents /\ EarlierSessionsStay /\ NamesStayPrivate /\ HistoryIsLatest
=============================================================================
