----------------------------- MODULE ManualRuns -----------------------------
(***************************************************************************)
(* Manual test execution on top of Runs (qaplatform/service.py with the    *)
(* rules of qaplatform/manual.py).                                         *)
(*                                                                         *)
(* Starting a manual run opens a run whose expected_count is the number of *)
(* its cases, and one execution for each.  A tester records the steps of   *)
(* an execution, may correct them, and finishes it, which turns the steps  *)
(* into one result and, for a pass, one coverage verdict.  The run is an   *)
(* ordinary run: whoever may push results can append to it and finish it.  *)
(***************************************************************************)
EXTENDS Runs

CONSTANTS
  Cases,       \* the cases, named by the node id of their result
  Steps,       \* the number of steps of a case
  NotRecorded  \* no result for this step

ASSUME ManualAssumption ==
  /\ Cases \subseteq Tests /\ 1 \in Attempts
  /\ 1 .. Cardinality(Cases) \subseteq Counts
  /\ Steps \in Nat \ {0}

VARIABLES
  execution,  \* the status of each case's execution in each run; "none" where there is none
  recorded    \* the step results of each

executionVars == << execution, recorded >>
manualVars == << runsVars, executionVars >>

StepResults == [status : {"pass", "fail", "blocked", "na"}, evidence : BOOLEAN]
ExecutionStatus == {"none", "in_progress", "passed", "failed", "blocked", "skipped"}

ManualTypeOK ==
  /\ RunsTypeOK
  /\ execution \in [RunIds -> [Cases -> ExecutionStatus]]
  /\ recorded \in [RunIds -> [Cases -> [1 .. Steps -> StepResults \cup {NotRecorded}]]]

ManualInit ==
  /\ RunsInit
  /\ execution = [r \in RunIds |-> [c \in Cases |-> "none"]]
  /\ recorded = [r \in RunIds |-> [c \in Cases |-> [n \in 1 .. Steps |-> NotRecorded]]]

-----------------------------------------------------------------------------
With(status_, steps) == { n \in 1 .. Steps : steps[n].status = status_ }

\* outcome_of: any failed step fails the case; otherwise any blocked step makes it a skip;
\* so does a case none of whose steps applied.  A pass is proved when every passing step has
\* evidence.  (FaultyOutcomeOf: when one of them has.)
FaultyOutcomeOf(steps) ==
  IF With("fail", steps) # {} THEN [status |-> "failed", outcome |-> "failed", coverage |-> "none"]
  ELSE IF With("blocked", steps) # {}
    THEN [status |-> "blocked", outcome |-> "skipped", coverage |-> "none"]
  ELSE IF With("na", steps) = 1 .. Steps
    THEN [status |-> "skipped", outcome |-> "skipped", coverage |-> "none"]
  ELSE [status |-> "passed", outcome |-> "passed",
        coverage |-> IF \E n \in With("pass", steps) : steps[n].evidence THEN "proved" ELSE "recorded"]

OutcomeOf(steps) ==
  IF With("fail", steps) # {} THEN [status |-> "failed", outcome |-> "failed", coverage |-> "none"]
  ELSE IF With("blocked", steps) # {}
    THEN [status |-> "blocked", outcome |-> "skipped", coverage |-> "none"]
  ELSE IF With("na", steps) = 1 .. Steps
    THEN [status |-> "skipped", outcome |-> "skipped", coverage |-> "none"]
  ELSE [status |-> "passed", outcome |-> "passed",
        coverage |-> IF \A n \in With("pass", steps) : steps[n].evidence THEN "proved" ELSE "recorded"]

Coverage(case, verdict_) ==
  [test |-> case, kind |-> "coverage", ticket |-> NoTicket, verdict |-> verdict_]

ResultOf(outcome) == [outcome |-> outcome, tags |-> {}, ticket |-> NoTicket]

\* What testers store is something, and a row the store can hold.
ASSUME StoredAssumption ==
  /\ NotRecorded \notin StepResults
  /\ \A outcome \in Outcomes : ResultOf(outcome) # NoResult
  /\ \A case \in Cases, verdict_ \in {"proved", "recorded"} : Coverage(case, verdict_) \in VerdictRows

-----------------------------------------------------------------------------
\* start_manual_run; an external_id already known is refused.
StartManualRun(r, x, cases) ==
  /\ cases # {}
  /\ CreateRun(r, x, Cardinality(cases), NoRequest)
  /\ execution' = [execution EXCEPT ![r] = [c \in Cases |-> IF c \in cases THEN "in_progress" ELSE "none"]]
  /\ UNCHANGED recorded

\* record_manual_step: recorded, or corrected, while the execution is in progress.
FaultyInProgress(r, c) == execution[r][c] # "none"
InProgress(r, c) == execution[r][c] = "in_progress"

RecordStep(r, c, n, step) ==
  /\ Writable /\ OpenRun(r) /\ InProgress(r, c)
  /\ recorded' = [recorded EXCEPT ![r][c][n] = step]
  /\ UNCHANGED << runsVars, execution >>

\* finish_manual_execution: every step must be recorded; the result goes in as attempt 1, which
\* is left alone if there is one.
AllRecorded(steps) == \A n \in 1 .. Steps : steps[n] # NotRecorded

FinishExecution(r, c) ==
  /\ Writable /\ OpenRun(r) /\ InProgress(r, c)
  /\ AllRecorded(recorded[r][c])
  /\ LET result == OutcomeOf(recorded[r][c]) IN
       /\ results' = [results EXCEPT ![r] =
                        Store(results[r], [k \in {<< c, 1 >>} |-> ResultOf(result.outcome)])]
       /\ rows' = [rows EXCEPT ![r] =
                     IF result.coverage = "none" THEN @ ELSE @ \cup {Coverage(c, result.coverage)}]
       /\ execution' = [execution EXCEPT ![r][c] = result.status]
  /\ UNCHANGED << status, external, request, expected, verdict, reqVars, ciVars, recorded >>

TesterNext ==
  \E r \in RunIds :
    \/ \E x \in ExternalIds \cup {NoExternal}, cases \in SUBSET Cases : StartManualRun(r, x, cases)
    \/ \E c \in Cases :
         \/ \E n \in 1 .. Steps, step \in StepResults : RecordStep(r, c, n, step)
         \/ FinishExecution(r, c)

ManualNext == TesterNext \/ (RunsNext /\ UNCHANGED executionVars)

ManualSpec == ManualInit /\ [][ManualNext]_manualVars

-----------------------------------------------------------------------------
Started(r) == { c \in Cases : execution[r][c] # "none" }
Finished(r, c) == execution[r][c] \notin {"none", "in_progress"}

\* An execution that is finished has its result in the run, and what was recorded of it is
\* what it was finished on: a later correction would leave the result behind.
FinishedOnItsSteps ==
  \A r \in RunIds, c \in Cases : Finished(r, c) =>
    /\ results[r][<< c, 1 >>] # NoResult
    /\ AllRecorded(recorded[r][c])
    /\ execution[r][c] = OutcomeOf(recorded[r][c]).status

\* "every passing step carries an evidence link" (qaplatform/manual.py:18-19), of a case that
\* passed: proved coverage, unless another client pushed it, never rests on a word.
ProvedHasEvidence ==
  \A r \in RunIds, c \in Cases : Coverage(c, "proved") \in rows[r] \ PushedRows =>
    /\ execution[r][c] = "passed"
    /\ \E n \in 1 .. Steps : recorded[r][c][n].status = "pass"
    /\ \A n \in 1 .. Steps : recorded[r][c][n].status = "pass" => recorded[r][c][n].evidence

\* "blocked work was not executed, so it can never count as a pass" (manual.py:12-13), and no
\* more does a failed or an inapplicable case: a case whose key nobody else pushes under passes
\* in the run only on steps that passed, as they are recorded now.
PushedTests == { k[1] : k \in UNION { DOMAIN batch : batch \in Batches } }

BlockedIsNoPass ==
  \A r \in RunIds, c \in Cases \ PushedTests :
    LET finals == FinalResults(results[r])
        steps  == recorded[r][c]
    IN  c \in DOMAIN finals /\ finals[c].outcome = "passed" =>
          /\ AllRecorded(steps)
          /\ With("pass", steps) # {}
          /\ With("pass", steps) \cup With("na", steps) = 1 .. Steps

=============================================================================
