------------------------------ MODULE Sessions ------------------------------
(***************************************************************************)
(* Exploratory sessions on top of Runs (qaplatform/service.py,             *)
(* qaplatform/exploratory.py) and the browser capture that posts notes to  *)
(* one (qaplatform/capture.py).                                            *)
(*                                                                         *)
(* Starting a session opens a run of its own, named by the same id here;   *)
(* ending it records coverage for its requirements and closes the run.     *)
(* The run is an ordinary run: whoever may push results can append to it   *)
(* and finish it.                                                          *)
(***************************************************************************)
EXTENDS Runs

CONSTANTS
  MaxNotes,   \* a bound: the notes of one session
  MaxErrors   \* a bound: the browser errors a capture collects

ASSUME SessionsAssumption == MaxNotes \in Nat /\ MaxErrors \in Nat

VARIABLES
  session,     \* the status of the session of each run; "none" where there is none
  requirement, \* whether it is linked to a requirement
  notes,       \* the number of its notes
  capture,     \* the browser capture of the session
  unposted     \* the notes a capture has collected and not posted

sessionVars == << session, requirement, notes >>
captureVars == << capture, unposted >>
sessionsVars == << runsVars, sessionVars, captureVars >>

SessionStatus == {"none", "active", "ended", "abandoned"}
CaptureStatus == {"none", "open", "closing", "closed", "raised"}

SessionsTypeOK ==
  /\ RunsTypeOK
  /\ session \in [RunIds -> SessionStatus]
  /\ requirement \in [RunIds -> BOOLEAN]
  /\ notes \in [RunIds -> Nat]
  /\ capture \in [RunIds -> CaptureStatus]
  /\ unposted \in [RunIds -> Nat]

SessionsInit ==
  /\ RunsInit
  /\ session = [r \in RunIds |-> "none"]
  /\ requirement = [r \in RunIds |-> FALSE]
  /\ notes = [r \in RunIds |-> 0]
  /\ capture = [r \in RunIds |-> "none"]
  /\ unposted = [r \in RunIds |-> 0]

\* The coverage a session leaves, under the node id session::<id>; never more than recorded.
SessionRow(r) == [test |-> r, kind |-> "coverage", ticket |-> NoTicket, verdict |-> "recorded"]

\* Nobody else pushes a row under the node id of a session.
ASSUME SessionRowsAssumption == \A r \in RunIds : SessionRow(r) \in VerdictRows \ PushedRows

-----------------------------------------------------------------------------
\* start_session.
StartSession(r, linked) ==
  /\ CreateRun(r, NoExternal, Undeclared, NoRequest)
  /\ session' = [session EXCEPT ![r] = "active"]
  /\ requirement' = [requirement EXCEPT ![r] = linked]
  /\ UNCHANGED << notes, captureVars >>

\* add_session_note is refused unless the session is active.
Accepts(r) == session[r] = "active"

Noted(r) ==
  /\ Writable /\ Accepts(r)
  /\ notes' = [notes EXCEPT ![r] = @ + 1]
  /\ UNCHANGED << runsVars, session, requirement >>

AddNote(r) ==
  /\ notes[r] < MaxNotes
  /\ Noted(r)
  /\ UNCHANGED captureVars

\* end_session: once; an abandoned session records nothing.  The run is judged and closed,
\* whatever its status is.
FaultyRecorded(r, abandoned) == IF requirement[r] THEN {SessionRow(r)} ELSE {}
Recorded(r, abandoned) == IF ~ abandoned /\ requirement[r] THEN {SessionRow(r)} ELSE {}

FaultyEndSession(r, abandoned) ==
  /\ Writable /\ session[r] = "active"
  /\ session' = [session EXCEPT ![r] = IF abandoned THEN "abandoned" ELSE "ended"]
  /\ rows' = [rows EXCEPT ![r] = @ \cup Recorded(r, abandoned)]
  /\ UNCHANGED << status, verdict, external, request, expected, results, reqVars, ciVars >>
  /\ UNCHANGED << requirement, notes, captureVars >>

EndSession(r, abandoned) ==
  /\ Writable /\ session[r] = "active"
  /\ session' = [session EXCEPT ![r] = IF abandoned THEN "abandoned" ELSE "ended"]
  /\ rows' = [rows EXCEPT ![r] = @ \cup Recorded(r, abandoned)]
  /\ Judged(r, IF abandoned THEN "interrupted" ELSE "finished",
            FinalResults(results[r]), rows'[r], expected[r])
  /\ UNCHANGED << external, request, expected, results, reqVars, ciVars >>
  /\ UNCHANGED << requirement, notes, captureVars >>

-----------------------------------------------------------------------------
(* The capture, in the tester's process. *)

OpenCapture(r) ==
  /\ session[r] = "active" /\ capture[r] = "none"
  /\ capture' = [capture EXCEPT ![r] = "open"]
  /\ UNCHANGED << runsVars, sessionVars, unposted >>

\* The browser reports an error.
Captured(r) ==
  /\ capture[r] = "open" /\ unposted[r] < MaxErrors
  /\ unposted' = [unposted EXCEPT ![r] = @ + 1]
  /\ UNCHANGED << runsVars, sessionVars, capture >>

\* close: one note more for the trace, or for why there is none.  Closing again does nothing.
CloseCapture(r) ==
  /\ capture[r] = "open"
  /\ capture' = [capture EXCEPT ![r] = "closing"]
  /\ unposted' = [unposted EXCEPT ![r] = @ + 1]
  /\ UNCHANGED << runsVars, sessionVars >>

\* The notes go out one by one ...
Post(r) ==
  /\ capture[r] = "closing" /\ Noted(r)
  /\ unposted' = [unposted EXCEPT ![r] = @ - 1]
  /\ capture' = [capture EXCEPT ![r] = IF unposted[r] = 1 THEN "closed" ELSE "closing"]

\* ... and the first that is refused ends it with an exception.
Refused(r) ==
  /\ capture[r] = "closing" /\ ~ Accepts(r)
  /\ capture' = [capture EXCEPT ![r] = "raised"]
  /\ UNCHANGED << runsVars, sessionVars, unposted >>

SessionOrCaptureNext ==
  \E r \in RunIds :
    \/ \E linked \in BOOLEAN : StartSession(r, linked)
    \/ AddNote(r)
    \/ \E abandoned \in BOOLEAN : EndSession(r, abandoned)
    \/ OpenCapture(r) \/ Captured(r) \/ CloseCapture(r) \/ Post(r) \/ Refused(r)

SessionsNext == SessionOrCaptureNext \/ (RunsNext /\ UNCHANGED << sessionVars, captureVars >>)

SessionsSpec == SessionsInit /\ [][SessionsNext]_sessionsVars

-----------------------------------------------------------------------------
Over(r) == session[r] \in {"ended", "abandoned"}

\* "Ending a session records coverage: recorded for each linked requirement. Abandoning a
\* session records nothing" (docs/features/exploratory_sessions.md:13-17), and neither comes
\* before the end or is lost when the run was finished first.
RecordedWhenEnded ==
  \A r \in RunIds :
    SessionRow(r) \in rows[r] <=> session[r] = "ended" /\ requirement[r]

\* A session that is over has a closed run, whose verdict counts what the session recorded.
OverIsClosed ==
  \A r \in RunIds : Over(r) =>
    /\ Closed(r)
    /\ verdict[r] = Judge(FinalResults(results[r]), rows[r], expected[r])

=============================================================================
