------------------------------ MODULE RunRecord ------------------------------
(***************************************************************************)
(* What a run promises when clients (Runs) or testers and clients          *)
(* (ManualRuns) fill it: it is opened once, then only added to, then       *)
(* closed once with the verdict of what it holds, and not touched again.   *)
(* A stored result or verdict row stays as it is.  The end of a session    *)
(* (Sessions) is the exception: it adds its rows and closes again.         *)
(* (docs/features/platform_api.md, docs/integration_api.md)                *)
(***************************************************************************)
CONSTANTS
  RunIds, Tests, Attempts,
  Undeclared, NoResult, NoVerdict,
  VerdictOf(_, _, _)  \* the rules: the verdict of stored results, verdict rows and a count

VARIABLES status, expected, verdict, results, rows

vars == << status, expected, verdict, results, rows >>

Keys == Tests \X Attempts

Init ==
  /\ status = [r \in RunIds |-> "none"]
  /\ expected = [r \in RunIds |-> Undeclared]
  /\ verdict = [r \in RunIds |-> NoVerdict]
  /\ results = [r \in RunIds |-> [k \in Keys |-> NoResult]]
  /\ rows = [r \in RunIds |-> {}]

Untouched(r) ==
  /\ status'[r] = status[r] /\ expected'[r] = expected[r] /\ verdict'[r] = verdict[r]
  /\ results'[r] = results[r] /\ rows'[r] = rows[r]

Open(r) ==
  /\ status[r] = "none" /\ status'[r] = "running"
  /\ verdict'[r] = NoVerdict /\ results'[r] = results[r] /\ rows'[r] = rows[r]

Add(r) ==
  /\ status[r] = "running" /\ status'[r] = "running"
  /\ expected'[r] = expected[r] /\ verdict'[r] = verdict[r]
  /\ \A k \in Keys : results[r][k] # NoResult => results'[r][k] = results[r][k]
  /\ rows[r] \subseteq rows'[r]

Close(r) ==
  /\ status[r] = "running" /\ status'[r] \in {"finished", "interrupted"}
  /\ verdict'[r] = VerdictOf(results'[r], rows'[r], expected'[r])
  /\ results'[r] = results[r] /\ rows'[r] = rows[r]

\* A step is about one run.
Next ==
  \E r \in RunIds :
    /\ Open(r) \/ Add(r) \/ Close(r)
    /\ \A other \in RunIds \ {r} : Untouched(other)

Spec == Init /\ [][Next]_vars

=============================================================================
