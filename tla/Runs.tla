-------------------------------- MODULE Runs --------------------------------
(***************************************************************************)
(* Test runs and run requests of one project of the results platform       *)
(* (qaplatform/service.py on qaplatform/store.py and results/store.py).    *)
(*                                                                         *)
(* A client creates a run, appends results in batches and verdict rows,    *)
(* and finishes it; finishing judges it.  A run request is handed to a CI  *)
(* system, whose job pushes a run that names the request.  Each handler is *)
(* one transaction (WriteTransaction shows that it is atomic), so it is    *)
(* one action here, except request_run: it waits for the CI system inside  *)
(* its transaction, and holds the write lock meanwhile.                    *)
(*                                                                         *)
(* Anybody may call anything in any order and again, which covers clients  *)
(* that retry.  Evidence links, and what a run says of its origin, are     *)
(* left out: no rule reads them.                                           *)
(*                                                                         *)
(* A definition named Faulty... is what a mistake in the code would make   *)
(* of the one below it; no action uses it.                                 *)
(***************************************************************************)
EXTENDS RunTrust

CONSTANTS
  RunIds, ExternalIds, RequestIds, Tests, Attempts,
  Batches,     \* what clients append: functions from some of Tests \X Attempts to results
  VerdictRows, \* the verdict rows there may be,
  PushedRows,  \* and those clients append
  Counts,      \* the counts there may be,
  Recounts,    \* and those clients give when they finish a run
  Dispatchers, \* what the server is configured with; a restart may change it
  NoExternal, NoRequest, NoRun, NoVerdict

ASSUME RunsAssumption ==
  /\ IsFiniteSet(Tests) /\ Attempts \subseteq Nat
  /\ Counts \subseteq Nat /\ Recounts \subseteq Counts
  /\ PushedRows \subseteq VerdictRows
  /\ NoExternal \notin ExternalIds /\ NoRequest \notin RequestIds /\ NoRun \notin RunIds
  /\ NoVerdict \notin Verdicts
  /\ Dispatchers \subseteq {"none", "github"}

VARIABLES
  status,       \* of each run; "none" where there is no row
  external,     \* external_id, unique in the project
  request,      \* run_request_id
  expected,     \* expected_count
  verdict,      \* integrity_verdict, stored when the run is finished
  results,      \* the result of each attempt of each test
  rows,         \* the verdict rows
  reqStatus,    \* of each run request; "none" where there is no row
  reqRun,       \* its run_id
  issued,       \* the request ids drawn
  dispatching,  \* the request whose transaction is open, waiting for the CI system
  posted,       \* dispatch calls on their way to the CI system
  jobs          \* the requests the CI system has started a job for

runVars == << status, external, request, expected, verdict, results, rows >>
reqVars == << reqStatus, reqRun >>
ciVars == << issued, dispatching, posted, jobs >>
runsVars == << runVars, reqVars, ciVars >>

RunStatus == {"none", "running", "finished", "interrupted"}
RequestStatus == {"none", "queued", "dispatched", "rejected", "running", "finished", "failed"}

RunsTypeOK ==
  /\ status \in [RunIds -> RunStatus]
  /\ external \in [RunIds -> ExternalIds \cup {NoExternal}]
  /\ request \in [RunIds -> RequestIds \cup {NoRequest}]
  /\ expected \in [RunIds -> Counts \cup {Undeclared}]
  /\ verdict \in [RunIds -> Verdicts \cup {NoVerdict}]
  /\ DOMAIN results = RunIds
  /\ rows \in [RunIds -> SUBSET VerdictRows]
  /\ reqStatus \in [RequestIds -> RequestStatus]
  /\ reqRun \in [RequestIds -> RunIds \cup {NoRun}]
  /\ issued \subseteq RequestIds
  /\ dispatching \in RequestIds \cup {NoRequest}
  /\ posted \subseteq RequestIds /\ jobs \subseteq RequestIds

RunsInit ==
  /\ status = [r \in RunIds |-> "none"]
  /\ external = [r \in RunIds |-> NoExternal]
  /\ request = [r \in RunIds |-> NoRequest]
  /\ expected = [r \in RunIds |-> Undeclared]
  /\ verdict = [r \in RunIds |-> NoVerdict]
  /\ results = [r \in RunIds |-> [k \in Tests \X Attempts |-> NoResult]]
  /\ rows = [r \in RunIds |-> {}]
  /\ reqStatus = [q \in RequestIds |-> "none"]
  /\ reqRun = [q \in RequestIds |-> NoRun]
  /\ issued = {} /\ dispatching = NoRequest /\ posted = {} /\ jobs = {}

-----------------------------------------------------------------------------
(* What handlers are made of. *)

\* The write lock is free: no request_run is waiting inside its transaction.
Writable == dispatching = NoRequest

\* _open_run: the run exists and is not finished.
FaultyOpenRun(r) == status[r] # "none"
OpenRun(r) == status[r] = "running"

Closed(r) == status[r] \in {"finished", "interrupted"}

\* run_by_external_id.
FaultyKnown(x) == FALSE
Known(x) == x # NoExternal /\ \E r \in RunIds : status[r] # "none" /\ external[r] = x

\* add_results: an attempt already stored is left alone.
FaultyStore(stored, batch) ==
  [k \in Tests \X Attempts |-> IF k \in DOMAIN batch THEN batch[k] ELSE stored[k]]
Store(stored, batch) ==
  [k \in Tests \X Attempts |->
     IF stored[k] = NoResult /\ k \in DOMAIN batch THEN batch[k] ELSE stored[k]]

\* The row begin_run inserts for a new run.
BeginRun(r, x, count, q) ==
  /\ status[r] = "none"
  /\ status' = [status EXCEPT ![r] = "running"]
  /\ external' = [external EXCEPT ![r] = x]
  /\ expected' = [expected EXCEPT ![r] = count]
  /\ request' = [request EXCEPT ![r] = q]

\* judge over what is stored, and finish_run of the store, which looks at no status.
Judged(r, there, finals, verdictRows, count) ==
  /\ status' = [status EXCEPT ![r] = there]
  /\ verdict' = [verdict EXCEPT ![r] = Judge(finals, verdictRows, count)]

\* The run's request, if it has one, when the run is finished.
FaultyRequestsAfter(r, interrupted) == reqStatus
RequestsAfter(r, interrupted) ==
  [q \in RequestIds |-> IF q # request[r] THEN reqStatus[q]
                        ELSE IF interrupted THEN "failed" ELSE "finished"]

-----------------------------------------------------------------------------
(* The handlers. *)

\* create_run.  An external_id already known returns that run and changes nothing; a run
\* request that does not exist refuses the call.
CreateRun(r, x, count, q) ==
  /\ Writable
  /\ ~ Known(x)
  /\ q # NoRequest => reqStatus[q] # "none"
  /\ BeginRun(r, x, count, q)
  /\ reqStatus' = [p \in RequestIds |-> IF p = q THEN "running" ELSE reqStatus[p]]
  /\ reqRun' = [p \in RequestIds |-> IF p = q THEN r ELSE reqRun[p]]
  /\ UNCHANGED << verdict, results, rows, ciVars >>

\* append_results and append_junit.
AppendResults(r, batch) ==
  /\ Writable /\ OpenRun(r)
  /\ results' = [results EXCEPT ![r] = Store(results[r], batch)]
  /\ UNCHANGED << status, external, request, expected, verdict, rows, reqVars, ciVars >>

\* append_verdicts.
AppendVerdicts(r, added) ==
  /\ Writable /\ OpenRun(r)
  /\ rows' = [rows EXCEPT ![r] = @ \cup added]
  /\ UNCHANGED << status, external, request, expected, verdict, results, reqVars, ciVars >>

\* finish_run.  Finishing a finished run changes nothing.  A count given here replaces the
\* one declared.
FinishRun(r, count, interrupted) ==
  /\ Writable /\ OpenRun(r)
  /\ LET declared == IF count = Undeclared THEN expected[r] ELSE count IN
       /\ expected' = [expected EXCEPT ![r] = declared]
       /\ Judged(r, IF interrupted THEN "interrupted" ELSE "finished",
                 FinalResults(results[r]), rows[r], declared)
  /\ reqStatus' = RequestsAfter(r, interrupted)
  /\ UNCHANGED << external, request, results, rows, reqRun, ciVars >>

\* request_run without a CI system, or for a target that is not configured: one step.
RequestAnswered(q) ==
  /\ Writable /\ q \notin issued
  /\ issued' = issued \cup {q}
  /\ \E dispatcher \in Dispatchers :
       reqStatus' = [reqStatus EXCEPT ![q] = IF dispatcher = "none" THEN "queued" ELSE "rejected"]
  /\ UNCHANGED << runVars, reqRun, dispatching, posted, jobs >>

\* request_run: the row is inserted in a transaction that stays open during the dispatch
\* call.
RequestRun(q) ==
  /\ Writable /\ q \notin issued /\ "github" \in Dispatchers
  /\ issued' = issued \cup {q}
  /\ dispatching' = q
  /\ posted' = posted \cup {q}
  /\ UNCHANGED << runVars, reqVars, jobs >>

\* The CI system takes the call, however late it arrives.
CiAccepts(q) ==
  /\ q \in posted
  /\ posted' = posted \ {q}
  /\ jobs' = jobs \cup {q}
  /\ UNCHANGED << runVars, reqVars, issued, dispatching >>

\* It answers 204, and the transaction commits ...
Dispatched(q) ==
  /\ dispatching = q /\ q \in jobs
  /\ reqStatus' = [reqStatus EXCEPT ![q] = "dispatched"]
  /\ dispatching' = NoRequest
  /\ UNCHANGED << runVars, reqRun, issued, posted, jobs >>

\* ... or it refuses, or its answer is not there in time.
Rejected(q) ==
  /\ dispatching = q
  /\ reqStatus' = [reqStatus EXCEPT ![q] = "rejected"]
  /\ dispatching' = NoRequest
  /\ \E refused \in BOOLEAN : posted' = IF refused THEN posted \ {q} ELSE posted
  /\ UNCHANGED << runVars, reqRun, issued, jobs >>

\* The server is gone during the call: the open transaction rolls back.
Crash(q) ==
  /\ dispatching = q
  /\ dispatching' = NoRequest
  /\ UNCHANGED << runVars, reqVars, issued, posted, jobs >>

ClientNext ==
  \E r \in RunIds :
    \/ \E x \in ExternalIds \cup {NoExternal}, count \in Counts \cup {Undeclared},
          q \in RequestIds \cup {NoRequest} : CreateRun(r, x, count, q)
    \/ \E batch \in Batches : AppendResults(r, batch)
    \/ \E row \in PushedRows : AppendVerdicts(r, {row})
    \/ \E count \in Recounts \cup {Undeclared}, interrupted \in BOOLEAN :
         FinishRun(r, count, interrupted)

RequestNext ==
  \E q \in RequestIds :
    \/ RequestAnswered(q) \/ RequestRun(q)
    \/ CiAccepts(q) \/ Dispatched(q) \/ Rejected(q) \/ Crash(q)

RunsNext == ClientNext \/ RequestNext

RunsSpec == RunsInit /\ [][RunsNext]_runsVars

-----------------------------------------------------------------------------
\* "Judge over what was actually stored" (docs/features/platform_api.md:13-15): the verdict
\* of a closed run is the one of the results, verdict rows and count it has now, not only
\* of those it had when it was judged.
VerdictIsOfStoredResults ==
  \A r \in RunIds :
    Closed(r) => verdict[r] = Judge(FinalResults(results[r]), rows[r], expected[r])

\* "A client cannot claim green by leaving results out" (platform_api.md:15-16): PASS means
\* that as many tests reported as the run's count says, and that one of them ran or a
\* tracked defect was decided; whatever the thresholds are.
PassIsEarned ==
  \A r \in RunIds : verdict[r] = "PASS" =>
    LET finals == FinalResults(results[r]) IN
      /\ expected[r] # Undeclared => Cardinality(DOMAIN finals) >= expected[r]
      /\ \/ \E t \in DOMAIN finals : finals[t].outcome \in Executed
         \/ \E v \in rows[r] : v.kind = "expected_red" /\ v.verdict \in Reached

\* A retried create_run finds the run of its first try: no two runs share an external_id.
OneRunPerExternalId ==
  \A r, s \in RunIds :
    status[r] # "none" /\ status[s] # "none" /\ external[r] = external[s]
      => r = s \/ external[r] = NoExternal

\* "Finishing a finished run returns it unchanged" (service.py:485), and appending to it is
\* refused: a run is opened, added to, closed once with the verdict of what it holds, and no
\* call of a client touches it again; a batch sent again, or a late one, changes no result
\* already stored.
VerdictOf(stored, verdictRows, count) == Judge(FinalResults(stored), verdictRows, count)
Record == INSTANCE RunRecord
IsRunRecord == Record!Spec

\* A request that a run has named is no longer waiting for one: its run_id is a run that named
\* it, it is running only while that run is open, and otherwise some run of it ended as it says.
\* The answer of the dispatch call, which comes while the job may already push, overwrites
\* none of that.  (A request with one run so follows it exactly.  With two it may be finished
\* while the newer is open: finish_run does not look at the run the request shows.)
RequestFollowsItsRuns ==
  \A q \in RequestIds :
    /\ (\E r \in RunIds : request[r] = q) =>
         reqStatus[q] \in {"running", "finished", "failed"} /\ request[reqRun[q]] = q
    /\ reqStatus[q] = "running" => status[reqRun[q]] = "running" /\ request[reqRun[q]] = q
    /\ reqStatus[q] = "finished" => \E r \in RunIds : request[r] = q /\ status[r] = "finished"
    /\ reqStatus[q] = "failed" => \E r \in RunIds : request[r] = q /\ status[r] = "interrupted"

=============================================================================
