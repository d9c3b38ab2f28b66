---------------------------- MODULE Runs_proofs ----------------------------
(***************************************************************************)
(* Proofs about Runs and RunTrust, for any runs, requests, tests, batches, *)
(* counts and thresholds; and about the two clients of Runs that keep      *)
(* tables of their own, Sessions and ManualRuns: each specification for    *)
(* itself, for any sessions, cases, steps and other clients that push.     *)
(***************************************************************************)
EXTENDS Sessions, ManualRuns, FiniteSetTheorems, TLAPS

-----------------------------------------------------------------------------
(* Runs. *)

\* What happens to run requests leaves the runs alone.
LEMMA RequestsLeaveRuns == RequestNext => UNCHANGED runVars
  BY DEF RequestNext, RequestAnswered, RequestRun, CiAccepts, Dispatched, Rejected, Crash

LEMMA JudgeType == ASSUME NEW finals, NEW added, NEW count PROVE Judge(finals, added, count) \in Verdicts
  BY DEF Judge, Evaluate, Verdicts

LEMMA TypedInit == RunsInit => RunsTypeOK
  BY RunsAssumption DEF RunsInit, RunsTypeOK, RunStatus, RequestStatus

LEMMA TypedStep == RunsTypeOK /\ [RunsNext]_runsVars => RunsTypeOK'
<1> SUFFICES ASSUME RunsTypeOK, [RunsNext]_runsVars PROVE RunsTypeOK'
  OBVIOUS
<1> USE RunsAssumption DEF RunsTypeOK
<1>1. ASSUME NEW r \in RunIds, NEW x \in ExternalIds \cup {NoExternal},
             NEW count \in Counts \cup {Undeclared}, NEW q \in RequestIds \cup {NoRequest},
             CreateRun(r, x, count, q)
      PROVE  RunsTypeOK'
  <2>1. /\ reqStatus' \in [RequestIds -> RequestStatus]
        /\ reqRun' \in [RequestIds -> RunIds \cup {NoRun}]
    BY <1>1 DEF CreateRun, RequestStatus
  <2>2. /\ status' \in [RunIds -> RunStatus]
        /\ external' \in [RunIds -> ExternalIds \cup {NoExternal}]
        /\ expected' \in [RunIds -> Counts \cup {Undeclared}]
        /\ request' \in [RunIds -> RequestIds \cup {NoRequest}]
    BY <1>1 DEF CreateRun, BeginRun, RunStatus
  <2> QED
    BY <1>1, <2>1, <2>2 DEF CreateRun, ciVars
<1>2. ASSUME NEW r \in RunIds, NEW batch, AppendResults(r, batch) PROVE RunsTypeOK'
  BY <1>2 DEF AppendResults, reqVars, ciVars
<1>3. ASSUME NEW r \in RunIds, NEW row \in PushedRows, AppendVerdicts(r, {row}) PROVE RunsTypeOK'
  BY <1>3 DEF AppendVerdicts, reqVars, ciVars
<1>4. ASSUME NEW r \in RunIds, NEW count \in Recounts \cup {Undeclared}, NEW interrupted \in BOOLEAN,
             FinishRun(r, count, interrupted)
      PROVE  RunsTypeOK'
  <2>1. /\ status' \in [RunIds -> RunStatus]
        /\ expected' \in [RunIds -> Counts \cup {Undeclared}]
        /\ verdict' \in [RunIds -> Verdicts \cup {NoVerdict}]
    BY <1>4, JudgeType DEF FinishRun, Judged, RunStatus
  <2>2. reqStatus' \in [RequestIds -> RequestStatus]
    BY <1>4 DEF FinishRun, RequestsAfter, RequestStatus
  <2> QED
    BY <1>4, <2>1, <2>2 DEF FinishRun, ciVars
<1>5. CASE RequestNext
  <2>1. UNCHANGED runVars
    BY <1>5, RequestsLeaveRuns
  <2> QED
    <3>1. ASSUME NEW q \in RequestIds, RequestAnswered(q) PROVE RunsTypeOK'
      BY <2>1, <3>1 DEF RequestAnswered, runVars, RequestStatus
    <3>2. ASSUME NEW q \in RequestIds, RequestRun(q) PROVE RunsTypeOK'
      BY <2>1, <3>2 DEF RequestRun, runVars, reqVars
    <3>3. ASSUME NEW q \in RequestIds, CiAccepts(q) PROVE RunsTypeOK'
      BY <2>1, <3>3 DEF CiAccepts, runVars, reqVars
    <3>4. ASSUME NEW q \in RequestIds, Dispatched(q) PROVE RunsTypeOK'
      BY <2>1, <3>4 DEF Dispatched, runVars, RequestStatus
    <3>5. ASSUME NEW q \in RequestIds, Rejected(q) PROVE RunsTypeOK'
      BY <2>1, <3>5 DEF Rejected, runVars, RequestStatus
    <3>6. ASSUME NEW q \in RequestIds, Crash(q) PROVE RunsTypeOK'
      BY <2>1, <3>6 DEF Crash, runVars, reqVars
    <3> QED
      BY <1>5, <3>1, <3>2, <3>3, <3>4, <3>5, <3>6 DEF RequestNext
<1>6. CASE UNCHANGED runsVars
  BY <1>6 DEF runsVars, runVars, reqVars, ciVars
<1> HIDE DEF RunsTypeOK
<1>7. CASE ClientNext
  BY <1>1, <1>2, <1>3, <1>4, <1>7, Zenon DEF ClientNext
<1> QED
  BY <1>5, <1>6, <1>7 DEF RunsNext

\* Runs, requests and the dispatch in progress keep their types.
THEOREM RunsTypeCorrect == RunsSpec => []RunsTypeOK
  BY TypedInit, TypedStep, PTL DEF RunsSpec

-----------------------------------------------------------------------------
(* What one step may do to one run. *)

Unchanged(r) ==
  /\ status'[r] = status[r] /\ verdict'[r] = verdict[r] /\ expected'[r] = expected[r]
  /\ results'[r] = results[r] /\ rows'[r] = rows[r]
  /\ request'[r] = request[r] /\ external'[r] = external[r]

Opened(r) ==
  /\ status[r] = "none" /\ status'[r] = "running"
  /\ verdict'[r] = verdict[r] /\ results'[r] = results[r] /\ rows'[r] = rows[r]

AddedTo(r) ==
  /\ status[r] = "running" /\ status'[r] = "running"
  /\ expected'[r] = expected[r] /\ verdict'[r] = verdict[r]
  /\ request'[r] = request[r] /\ external'[r] = external[r]
  /\ DOMAIN results'[r] = Tests \X Attempts \/ results'[r] = results[r]
  /\ \A k \in Tests \X Attempts : results[r][k] # NoResult => results'[r][k] = results[r][k]
  /\ rows[r] \subseteq rows'[r]

ClosedBy(r) ==
  /\ status[r] = "running" /\ Closed(r)'
  /\ verdict'[r] = Judge(FinalResults(results'[r]), rows'[r], expected'[r])
  /\ results'[r] = results[r] /\ rows'[r] = rows[r]
  /\ request'[r] = request[r] /\ external'[r] = external[r]

\* Every step of the clients is about one run, and opens it, adds to it or closes it.
LEMMA StepOfOneRun ==
  ASSUME RunsTypeOK, ClientNext
  PROVE  \E r \in RunIds :
           /\ Opened(r) \/ AddedTo(r) \/ ClosedBy(r)
           /\ \A other \in RunIds \ {r} : Unchanged(other)
<1>1. ASSUME NEW r \in RunIds, NEW x \in ExternalIds \cup {NoExternal},
             NEW count \in Counts \cup {Undeclared}, NEW q \in RequestIds \cup {NoRequest},
             CreateRun(r, x, count, q)
      PROVE  Opened(r) /\ \A other \in RunIds \ {r} : Unchanged(other)
  BY <1>1 DEF RunsTypeOK, CreateRun, BeginRun, Opened, Unchanged
<1>2. ASSUME NEW r \in RunIds, NEW batch \in Batches, AppendResults(r, batch)
      PROVE  AddedTo(r) /\ \A other \in RunIds \ {r} : Unchanged(other)
  BY <1>2 DEF RunsTypeOK, AppendResults, OpenRun, Store, AddedTo, Unchanged
<1>3. ASSUME NEW r \in RunIds, NEW row \in PushedRows, AppendVerdicts(r, {row})
      PROVE  AddedTo(r) /\ \A other \in RunIds \ {r} : Unchanged(other)
  BY <1>3 DEF RunsTypeOK, AppendVerdicts, OpenRun, AddedTo, Unchanged
<1>4. ASSUME NEW r \in RunIds, NEW count \in Recounts \cup {Undeclared}, NEW interrupted \in BOOLEAN,
             FinishRun(r, count, interrupted)
      PROVE  ClosedBy(r) /\ \A other \in RunIds \ {r} : Unchanged(other)
  BY <1>4 DEF RunsTypeOK, FinishRun, OpenRun, Judged, ClosedBy, Closed, Unchanged
<1> QED
  BY <1>1, <1>2, <1>3, <1>4, Zenon DEF ClientNext

\* So a step changes a closed run in nothing.
LEMMA ClosedStep ==
  ASSUME RunsTypeOK, [RunsNext]_runsVars, NEW r \in RunIds, Closed(r)
  PROVE  Unchanged(r)
<1>1. CASE ClientNext
  BY <1>1, StepOfOneRun DEF Opened, AddedTo, ClosedBy, Closed
<1>2. CASE UNCHANGED runVars
  BY <1>2 DEF runVars, Unchanged
<1> QED
  BY <1>1, <1>2, RequestsLeaveRuns DEF RunsNext, runsVars, runVars

-----------------------------------------------------------------------------
\* A run has a verdict only once it is closed.
OpenIsUnjudged == \A r \in RunIds : ~ Closed(r) => verdict[r] = NoVerdict

JudgedInv == RunsTypeOK /\ VerdictIsOfStoredResults /\ OpenIsUnjudged

LEMMA JudgedInit == RunsInit => JudgedInv
  BY TypedInit DEF RunsInit, JudgedInv, VerdictIsOfStoredResults, OpenIsUnjudged, Closed

\* One client step keeps the verdict of each run in agreement with what is stored of it.
LEMMA JudgedRun ==
  ASSUME JudgedInv, NEW r \in RunIds, Opened(r) \/ AddedTo(r) \/ ClosedBy(r) \/ Unchanged(r)
  PROVE  /\ Closed(r)' => verdict'[r] = Judge(FinalResults(results'[r]), rows'[r], expected'[r])
         /\ ~ Closed(r)' => verdict'[r] = NoVerdict
<1>1. CASE Unchanged(r)
  BY <1>1 DEF JudgedInv, VerdictIsOfStoredResults, OpenIsUnjudged, Unchanged, Closed
<1>2. CASE Opened(r) \/ AddedTo(r)
  BY <1>2 DEF JudgedInv, OpenIsUnjudged, Opened, AddedTo, Closed
<1>3. CASE ClosedBy(r)
  BY <1>3 DEF ClosedBy
<1> QED
  BY <1>1, <1>2, <1>3

\* Every run is opened, added to, closed or left alone by a step.
LEMMA StepOfEachRun ==
  ASSUME RunsTypeOK, [RunsNext]_runsVars, NEW r \in RunIds
  PROVE  Opened(r) \/ AddedTo(r) \/ ClosedBy(r) \/ Unchanged(r)
<1>1. CASE ClientNext
  BY <1>1, StepOfOneRun
<1>2. CASE UNCHANGED runVars
  BY <1>2 DEF runVars, Unchanged
<1> QED
  BY <1>1, <1>2, RequestsLeaveRuns DEF RunsNext, runsVars, runVars

LEMMA JudgedStep == JudgedInv /\ [RunsNext]_runsVars => JudgedInv'
<1> SUFFICES ASSUME JudgedInv, [RunsNext]_runsVars PROVE JudgedInv'
  OBVIOUS
<1>1. RunsTypeOK'
  BY TypedStep DEF JudgedInv
<1>2. ASSUME NEW r \in RunIds
      PROVE  /\ Closed(r)' => verdict'[r] = Judge(FinalResults(results'[r]), rows'[r], expected'[r])
             /\ ~ Closed(r)' => verdict'[r] = NoVerdict
  BY StepOfEachRun, JudgedRun DEF JudgedInv
<1> QED
  BY <1>1, <1>2 DEF JudgedInv, VerdictIsOfStoredResults, OpenIsUnjudged

\* The verdict of a closed run is the one of what is stored for it now, whatever was appended,
\* sent again or finished again, and with whatever count.
THEOREM VerdictsAreOfStoredResults == RunsSpec => []VerdictIsOfStoredResults
<1>1. JudgedInv => VerdictIsOfStoredResults
  BY DEF JudgedInv
<1> QED
  BY JudgedInit, JudgedStep, <1>1, PTL DEF RunsSpec

-----------------------------------------------------------------------------
\* A step that opens, adds to or closes one run is a step of its record.
LEMMA StepOfTheRecord ==
  ASSUME JudgedInv, NEW r \in RunIds, Opened(r) \/ AddedTo(r) \/ ClosedBy(r),
         \A other \in RunIds \ {r} : Unchanged(other)
  PROVE  Record!Next
<1>1. \A other \in RunIds \ {r} : Record!Untouched(other)
  BY DEF Unchanged, Record!Untouched
<1>2. CASE Opened(r)
  BY <1>1, <1>2 DEF Opened, JudgedInv, OpenIsUnjudged, Closed, Record!Next, Record!Open
<1>3. CASE AddedTo(r)
  BY <1>1, <1>3 DEF AddedTo, Record!Next, Record!Add, Record!Keys
<1>4. CASE ClosedBy(r)
  BY <1>1, <1>4 DEF ClosedBy, Closed, VerdictOf, Record!Next, Record!Close
<1> QED
  BY <1>2, <1>3, <1>4

LEMMA RecordStart == RunsInit => Record!Init
  BY DEF RunsInit, Record!Init, Record!Keys

LEMMA StepIsRecorded == JudgedInv /\ [RunsNext]_runsVars => [Record!Next]_Record!vars
<1> SUFFICES ASSUME JudgedInv, [RunsNext]_runsVars PROVE [Record!Next]_Record!vars
  OBVIOUS
<1>1. CASE UNCHANGED runVars
  BY <1>1 DEF runVars, Record!vars
<1>2. CASE ClientNext
  BY <1>2, StepOfOneRun, StepOfTheRecord DEF JudgedInv
<1> QED
  BY <1>1, <1>2, RequestsLeaveRuns DEF RunsNext, runsVars, runVars

\* Runs keeps the promise of RunRecord.
THEOREM RunsAreRecords == RunsSpec => IsRunRecord
  BY RecordStart, StepIsRecorded, JudgedInit, JudgedStep, PTL DEF RunsSpec, IsRunRecord, Record!Spec

-----------------------------------------------------------------------------
\* However often a client sends create_run, and whoever else does: an external_id is one run's.
THEOREM ExternalIdsAreUnique == RunsSpec => []OneRunPerExternalId
<1>1. RunsInit => OneRunPerExternalId
  BY DEF RunsInit, OneRunPerExternalId
<1>2. RunsTypeOK /\ OneRunPerExternalId /\ [RunsNext]_runsVars => OneRunPerExternalId'
  <2> SUFFICES ASSUME RunsTypeOK, OneRunPerExternalId, [RunsNext]_runsVars,
                      NEW r \in RunIds, NEW s \in RunIds,
                      status'[r] # "none", status'[s] # "none", external'[r] = external'[s],
                      r # s, external'[r] # NoExternal
               PROVE  FALSE
    BY DEF OneRunPerExternalId
  <2>1. ASSUME NEW o \in RunIds, AddedTo(o) \/ ClosedBy(o) \/ Unchanged(o), status'[o] # "none"
        PROVE  status[o] # "none" /\ external'[o] = external[o]
    BY <2>1 DEF AddedTo, ClosedBy, Unchanged
  <2>2. CASE ~ Opened(r) /\ ~ Opened(s)
    BY <2>1, <2>2, StepOfEachRun DEF OneRunPerExternalId
  <2>3. CASE Opened(r) \/ Opened(s)
    <3>1. PICK o \in RunIds, x \in ExternalIds \cup {NoExternal}, count \in Counts \cup {Undeclared},
               q \in RequestIds \cup {NoRequest} : CreateRun(o, x, count, q)
      BY <2>3, RequestsLeaveRuns DEF RunsNext, ClientNext, AppendResults, AppendVerdicts, FinishRun,
         OpenRun, Judged, Opened, runsVars, runVars, RunsTypeOK
    <3>2. /\ status' = [status EXCEPT ![o] = "running"] /\ external' = [external EXCEPT ![o] = x]
          /\ status[o] = "none" /\ ~ Known(x)
      BY <3>1 DEF CreateRun, BeginRun
    <3> QED
      BY <2>3, <3>2 DEF Opened, Known, RunsTypeOK
  <2> QED
    BY <2>2, <2>3
<1> QED
  BY <1>1, <1>2, RunsTypeCorrect, PTL DEF RunsSpec

-----------------------------------------------------------------------------
\* A request that a run has named is past its dispatch, because a run may only name a request
\* that is stored, and the dispatch is over before the row is.
NotYetStored ==
  /\ dispatching \in issued \cup {NoRequest}
  /\ \A q \in RequestIds : q \notin issued \/ dispatching = q => reqStatus[q] = "none"

RequestInv ==
  /\ RunsTypeOK /\ RequestFollowsItsRuns /\ NotYetStored
  /\ \A q \in RequestIds :
       reqStatus[q] = "running" \/ (\E r \in RunIds : request[r] = q) => reqRun[q] \in RunIds
  /\ \A r \in RunIds : status[r] = "none" => request[r] = NoRequest

LEMMA RequestStep == RequestInv /\ [RunsNext]_runsVars => RequestInv'
<1> SUFFICES ASSUME RequestInv, [RunsNext]_runsVars PROVE RequestInv'
  OBVIOUS
<1>0. RunsTypeOK /\ RunsTypeOK'
  BY TypedStep DEF RequestInv
<1>1. ASSUME NEW r \in RunIds, NEW x, NEW count, NEW q \in RequestIds \cup {NoRequest},
             CreateRun(r, x, count, q)
      PROVE  RequestInv'
  <2>1. /\ status[r] = "none" /\ status' = [status EXCEPT ![r] = "running"]
        /\ request' = [request EXCEPT ![r] = q]
        /\ q # NoRequest => reqStatus[q] # "none"
        /\ reqStatus' = [p \in RequestIds |-> IF p = q THEN "running" ELSE reqStatus[p]]
        /\ reqRun' = [p \in RequestIds |-> IF p = q THEN r ELSE reqRun[p]]
        /\ UNCHANGED << issued, dispatching >>
    BY <1>1 DEF CreateRun, BeginRun, ciVars
  <2>2. NotYetStored'
    BY <1>0, <2>1, RunsAssumption DEF NotYetStored, RequestInv
  <2>3. /\ \A p \in RequestIds :
             reqStatus'[p] = "running" \/ (\E s \in RunIds : request'[s] = p) => reqRun'[p] \in RunIds
        /\ \A s \in RunIds : status'[s] = "none" => request'[s] = NoRequest
    BY <1>0, <2>1 DEF RequestInv, RunsTypeOK
  <2>4. RequestFollowsItsRuns'
    <3> SUFFICES ASSUME NEW p \in RequestIds
                 PROVE  /\ (\E s \in RunIds : request'[s] = p) =>
                             reqStatus'[p] \in {"running", "finished", "failed"} /\ request'[reqRun'[p]] = p
                        /\ reqStatus'[p] = "running" => status'[reqRun'[p]] = "running" /\ request'[reqRun'[p]] = p
                        /\ reqStatus'[p] = "finished" => \E s \in RunIds : request'[s] = p /\ status'[s] = "finished"
                        /\ reqStatus'[p] = "failed" => \E s \in RunIds : request'[s] = p /\ status'[s] = "interrupted"
      BY DEF RequestFollowsItsRuns
    <3>1. CASE p = q
      BY <1>0, <2>1, <3>1 DEF RunsTypeOK
    <3>2. CASE p # q
      BY <1>0, <2>1, <3>2, RunsAssumption DEF RequestInv, RequestFollowsItsRuns, RunsTypeOK
    <3> QED
      BY <3>1, <3>2
  <2> QED
    BY <1>0, <2>2, <2>3, <2>4 DEF RequestInv
<1>2. ASSUME NEW r \in RunIds, NEW count, NEW interrupted \in BOOLEAN, FinishRun(r, count, interrupted)
      PROVE  RequestInv'
  <2>1. /\ status[r] = "running"
        /\ status' = [status EXCEPT ![r] = IF interrupted THEN "interrupted" ELSE "finished"]
        /\ UNCHANGED << request, reqRun, issued, dispatching >>
        /\ \A p \in RequestIds :
             reqStatus'[p] = IF p # request[r] THEN reqStatus[p]
                             ELSE IF interrupted THEN "failed" ELSE "finished"
    BY <1>2 DEF FinishRun, OpenRun, Judged, RequestsAfter, ciVars
  <2>2. NotYetStored'
    BY <1>0, <2>1 DEF NotYetStored, RequestInv, RequestFollowsItsRuns
  <2>3. /\ \A p \in RequestIds :
             reqStatus'[p] = "running" \/ (\E s \in RunIds : request'[s] = p) => reqRun'[p] \in RunIds
        /\ \A s \in RunIds : status'[s] = "none" => request'[s] = NoRequest
    BY <1>0, <2>1 DEF RequestInv, RunsTypeOK
  <2>4. RequestFollowsItsRuns'
    <3> SUFFICES ASSUME NEW p \in RequestIds
                 PROVE  /\ (\E s \in RunIds : request'[s] = p) =>
                             reqStatus'[p] \in {"running", "finished", "failed"} /\ request'[reqRun'[p]] = p
                        /\ reqStatus'[p] = "running" => status'[reqRun'[p]] = "running" /\ request'[reqRun'[p]] = p
                        /\ reqStatus'[p] = "finished" => \E s \in RunIds : request'[s] = p /\ status'[s] = "finished"
                        /\ reqStatus'[p] = "failed" => \E s \in RunIds : request'[s] = p /\ status'[s] = "interrupted"
      BY DEF RequestFollowsItsRuns
    <3>1. CASE p = request[r]
      <4>1. reqStatus'[p] \in {"finished", "failed"} /\ request'[reqRun'[p]] = p
        BY <1>0, <2>1, <3>1 DEF RequestInv, RequestFollowsItsRuns
      <4>2. /\ request'[r] = p
            /\ status'[r] = IF reqStatus'[p] = "failed" THEN "interrupted" ELSE "finished"
        BY <1>0, <2>1, <3>1 DEF RunsTypeOK
      <4> QED
        BY <4>1, <4>2
    <3>2. CASE p # request[r]
      BY <1>0, <2>1, <3>2 DEF RequestInv, RequestFollowsItsRuns, RunsTypeOK
    <3> QED
      BY <3>1, <3>2
  <2> QED
    BY <1>0, <2>2, <2>3, <2>4 DEF RequestInv
<1>3. ASSUME NEW q \in RequestIds, RequestAnswered(q) \/ Dispatched(q) \/ Rejected(q)
      PROVE  RequestInv'
  <2>1. /\ UNCHANGED runVars /\ reqRun' = reqRun /\ q \in issued' /\ issued \subseteq issued'
        /\ reqStatus[q] = "none" /\ dispatching' = NoRequest
    <3>1. CASE RequestAnswered(q)
      BY <3>1 DEF RequestAnswered, Writable, RequestInv, NotYetStored
    <3>2. CASE Dispatched(q) \/ Rejected(q)
      BY <3>2, RunsAssumption DEF Dispatched, Rejected, RequestInv, NotYetStored
    <3> QED
      BY <1>3, <3>1, <3>2
  <2>2. /\ \A p \in RequestIds \ {q} : reqStatus'[p] = reqStatus[p]
        /\ reqStatus'[q] \in {"queued", "dispatched", "rejected"}
    BY <1>0, <1>3 DEF RequestAnswered, Dispatched, Rejected, RunsTypeOK
  <2>3. \A r \in RunIds : request[r] # q
    BY <2>1 DEF RequestInv, RequestFollowsItsRuns
  <2>4. RequestFollowsItsRuns'
    BY <2>1, <2>2, <2>3 DEF RequestInv, RequestFollowsItsRuns, runVars
  <2> QED
    BY <1>0, <2>1, <2>2, <2>4, RunsAssumption DEF RequestInv, NotYetStored, runVars
<1>4. ASSUME NEW q \in RequestIds, RequestRun(q) \/ CiAccepts(q) \/ Crash(q) PROVE RequestInv'
  <2>1. UNCHANGED << runVars, reqVars >>
    BY <1>4 DEF RequestRun, CiAccepts, Crash
  <2>2. /\ issued \subseteq issued' /\ dispatching' \in issued' \cup {NoRequest}
        /\ dispatching' \in {dispatching, NoRequest} \/ dispatching' \notin issued
    BY <1>4 DEF RequestRun, CiAccepts, Crash, RequestInv, NotYetStored
  <2> QED
    BY <1>0, <2>1, <2>2, RunsAssumption DEF RequestInv, RequestFollowsItsRuns, NotYetStored, runVars, reqVars
<1>5. ASSUME UNCHANGED << status, request, reqVars, issued, dispatching >> PROVE RequestInv'
  BY <1>0, <1>5 DEF RequestInv, RequestFollowsItsRuns, NotYetStored, reqVars
<1>6. CASE ClientNext
  BY <1>1, <1>2, <1>5, <1>6 DEF ClientNext, AppendResults, AppendVerdicts, ciVars
<1>7. CASE RequestNext
  BY <1>3, <1>4, <1>7 DEF RequestNext
<1> QED
  BY <1>5, <1>6, <1>7 DEF RunsNext, runsVars, runVars, ciVars

\* A run request is never put back by the answer of its dispatch, and always tells of a run
\* that named it, however many do.
THEOREM RequestsFollowTheirRuns == RunsSpec => []RequestFollowsItsRuns
<1>1. RunsInit => RequestInv
  BY TypedInit, RunsAssumption DEF RunsInit, RequestInv, RequestFollowsItsRuns, NotYetStored
<1>2. RequestInv => RequestFollowsItsRuns
  BY DEF RequestInv
<1> QED
  BY <1>1, <1>2, RequestStep, PTL DEF RunsSpec

-----------------------------------------------------------------------------
\* The two sides of build_tally that count what is or is not executed.
ExecutedOf(finals) == { t \in DOMAIN finals : finals[t].outcome \in Executed }
DecidedIn(added) == { v \in added : v.kind = "expected_red" /\ v.verdict \in Reached }

\* Whatever the thresholds, a PASS takes a test that ran or a tracked defect that was decided:
\* a rule that applies and holds finds one of them.
LEMMA PassNeedsWork ==
  ASSUME NEW finals, IsFiniteSet(DOMAIN finals), NEW added, NEW count,
         Judge(finals, added, count) = "PASS"
  PROVE  ExecutedOf(finals) # {} \/ DecidedIn(added) # {}
<1> SUFFICES ASSUME ExecutedOf(finals) = {}, DecidedIn(added) = {} PROVE FALSE
  OBVIOUS
<1> DEFINE tally == Tally(finals, added)
           n == Cardinality(DOMAIN finals)
<1>1. n \in Nat
  BY FS_CardinalityType
<1>2. Cardinality({}) = 0
  BY FS_EmptySet
<1>3. tally.selected = n /\ tally.executed = 0 /\ tally.passed_on_acquired = 0
  BY <1>2 DEF Tally, ExecutedOf
<1>4. tally.skipped = n
  <2>1. { t \in DOMAIN finals : finals[t].outcome \notin Executed } = DOMAIN finals
    BY DEF ExecutedOf
  <2> QED
    BY <2>1 DEF Tally
<1>5. tally.verdicts_reached = 0
  <2>1. { v \in { w \in added : w.kind = "expected_red" } : v.verdict \in Reached } = {}
    BY DEF DecidedIn
  <2>2. { u \in { t \in DOMAIN finals : "known_defect" \in finals[t].tags } :
            finals[u].outcome = "xfailed" } = {}
    BY DEF ExecutedOf, Executed
  <2>3. { Key(v.test, v.ticket) : v \in {} } \cup { Key(t, finals[t].ticket) : t \in {} } = {}
    OBVIOUS
  <2> QED
    BY <1>2, <2>1, <2>2, <2>3 DEF Tally
<1>6. Evaluate(tally) = "PASS"
  BY DEF Judge
<1>7. PICK rule \in Rules(tally) : rule.applies /\ ~ rule.breached
  BY <1>6 DEF Evaluate
<1> HIDE DEF tally, n
<1>8. {MinExecuted, MaxSkipPercent, MinVerdicts, MinAcquired} \subseteq Nat
  BY ThresholdAssumption
<1>9. CASE rule = [applies  |-> MinExecuted > 0 /\ tally.selected >= MinExecuted,
                   breached |-> tally.executed < MinExecuted]
  BY <1>3, <1>7, <1>8, <1>9
<1>10. CASE rule = [applies  |-> MaxSkipPercent < 100 /\ tally.selected > 0,
                    breached |-> 100 * tally.skipped > MaxSkipPercent * tally.selected]
  <2>1. MaxSkipPercent < 100 /\ n > 0 /\ ~ (100 * n > MaxSkipPercent * n)
    BY <1>3, <1>4, <1>7, <1>10
  <2> QED
    BY <1>1, <1>8, <2>1
<1>11. CASE rule = [applies  |-> MinVerdicts > 0 /\ tally.detectors_selected > 0,
                    breached |-> tally.verdicts_reached < MinVerdicts]
  BY <1>5, <1>7, <1>8, <1>11
<1>12. CASE rule = [applies  |-> MinAcquired > 0 /\ tally.seeded_selected > 0,
                    breached |-> tally.passed_on_acquired < MinAcquired]
  BY <1>3, <1>7, <1>8, <1>12
<1> QED
  BY <1>7, <1>9, <1>10, <1>11, <1>12 DEF Rules

\* What is stored for a run is about its tests.
StoredOfTests == \A r \in RunIds : DOMAIN results[r] = Tests \X Attempts

LEMMA FinalsAreFinite ==
  ASSUME StoredOfTests, NEW r \in RunIds
  PROVE  IsFiniteSet(DOMAIN FinalResults(results[r]))
<1>1. DOMAIN FinalResults(results[r]) \subseteq Tests
  BY DEF FinalResults, StoredOfTests
<1> QED
  BY <1>1, RunsAssumption, FS_Subset

\* A verdict that agrees with what is stored is a PASS only if that was earned.
LEMMA AgreedPassIsEarned ==
  ASSUME JudgedInv, StoredOfTests, NEW r \in RunIds, verdict[r] = "PASS"
  PROVE  LET finals == FinalResults(results[r]) IN
           /\ expected[r] # Undeclared => Cardinality(DOMAIN finals) >= expected[r]
           /\ \/ \E t \in DOMAIN finals : finals[t].outcome \in Executed
              \/ \E v \in rows[r] : v.kind = "expected_red" /\ v.verdict \in Reached
<1> DEFINE finals == FinalResults(results[r])
<1>1. Judge(finals, rows[r], expected[r]) = "PASS"
  BY RunsAssumption DEF JudgedInv, OpenIsUnjudged, VerdictIsOfStoredResults, Verdicts
<1>2. IsFiniteSet(DOMAIN finals)
  BY FinalsAreFinite
<1> HIDE DEF finals
<1>3. expected[r] # Undeclared => Cardinality(DOMAIN finals) >= expected[r]
  <2>1. Cardinality(DOMAIN finals) \in Nat /\ (expected[r] # Undeclared => expected[r] \in Nat)
    BY <1>2, FS_CardinalityType, RunsAssumption DEF JudgedInv, RunsTypeOK
  <2>2. ~ (expected[r] # Undeclared /\ Cardinality(DOMAIN finals) < expected[r])
    BY <1>1 DEF Judge
  <2> QED
    BY <2>1, <2>2
<1>4. ExecutedOf(finals) # {} \/ DecidedIn(rows[r]) # {}
  BY <1>1, <1>2, PassNeedsWork
<1> QED
  BY <1>3, <1>4 DEF ExecutedOf, DecidedIn, finals

LEMMA EarnedPasses == JudgedInv /\ StoredOfTests => PassIsEarned
  BY AgreedPassIsEarned DEF PassIsEarned

LEMMA StoredStart == RunsInit => StoredOfTests
  BY DEF RunsInit, StoredOfTests

LEMMA StoredStep ==
  ASSUME StoredOfTests,
         \A r \in RunIds : Opened(r) \/ AddedTo(r) \/ ClosedBy(r) \/ Unchanged(r)
  PROVE  StoredOfTests'
  BY DEF StoredOfTests, Opened, AddedTo, ClosedBy, Unchanged

\* Whatever is appended, in whatever order, and whatever the thresholds of the gate: a run
\* that is PASS reported as much as was declared, and something in it was really decided.
THEOREM PassesAreEarned == RunsSpec => []PassIsEarned
<1>1. JudgedInv /\ StoredOfTests /\ [RunsNext]_runsVars => (JudgedInv /\ StoredOfTests)'
  BY JudgedStep, StoredStep, StepOfEachRun DEF JudgedInv
<1> QED
  BY <1>1, JudgedInit, StoredStart, EarnedPasses, PTL DEF RunsSpec

-----------------------------------------------------------------------------
(* Exploratory sessions. *)

\* Besides the two promises: a session has a run of its own that no request asked for, and a
\* capture that is closing has something to post.
SessionsInv ==
  /\ SessionsTypeOK /\ RequestInv /\ RecordedWhenEnded /\ OverIsClosed
  /\ \A r \in RunIds : session[r] # "none" => status[r] # "none" /\ request[r] = NoRequest
  /\ \A r \in RunIds : capture[r] = "closing" => unposted[r] > 0

LEMMA SessionsStart == SessionsInit => SessionsInv
<1> SUFFICES ASSUME SessionsInit PROVE SessionsInv
  OBVIOUS
<1>1. SessionsTypeOK
  BY TypedInit DEF SessionsInit, SessionsTypeOK, SessionStatus, CaptureStatus
<1>2. RequestInv
  BY TypedInit, RunsAssumption DEF SessionsInit, RunsInit, RequestInv, RequestFollowsItsRuns, NotYetStored
<1>3. RecordedWhenEnded
  BY DEF SessionsInit, RunsInit, RecordedWhenEnded
<1>4. OverIsClosed
  BY DEF SessionsInit, OverIsClosed, Over
<1> QED
  BY <1>1, <1>2, <1>3, <1>4 DEF SessionsInv, SessionsInit

-----------------------------------------------------------------------------
\* No step of Runs adds a row that clients do not push, or takes it away.
LEMMA PushedRowsOnly ==
  ASSUME RunsTypeOK, [RunsNext]_runsVars, NEW r \in RunIds, NEW own, own \notin PushedRows
  PROVE  own \in rows'[r] <=> own \in rows[r]
<1>1. CASE UNCHANGED rows
  BY <1>1
<1>2. ASSUME NEW s \in RunIds, NEW row \in PushedRows, AppendVerdicts(s, {row})
      PROVE  own \in rows'[r] <=> own \in rows[r]
  BY <1>2 DEF AppendVerdicts, RunsTypeOK
<1>3. CASE RequestNext
  BY <1>1, <1>3, RequestsLeaveRuns DEF runVars
<1>4. CASE ClientNext
  BY <1>1, <1>2, <1>4 DEF ClientNext, CreateRun, AppendResults, FinishRun
<1> QED
  BY <1>1, <1>3, <1>4 DEF RunsNext, runsVars, runVars

\* A step of Runs that leaves the sessions alone.
LEMMA RunsKeepSessions ==
  ASSUME SessionsInv, [RunsNext]_runsVars, UNCHANGED << sessionVars, captureVars >>
  PROVE  SessionsInv'
<1>1. RunsTypeOK /\ RunsTypeOK' /\ RequestInv'
  BY TypedStep, RequestStep DEF SessionsInv, SessionsTypeOK
<1>2. SessionsTypeOK'
  BY <1>1 DEF SessionsInv, SessionsTypeOK, sessionVars, captureVars
<1>3. RecordedWhenEnded'
  BY <1>1, PushedRowsOnly, SessionRowsAssumption DEF SessionsInv, RecordedWhenEnded, sessionVars
<1>4. OverIsClosed'
  <2> SUFFICES ASSUME NEW r \in RunIds, Over(r)
               PROVE  Closed(r)' /\ verdict'[r] = Judge(FinalResults(results'[r]), rows'[r], expected'[r])
    BY DEF OverIsClosed, Over, sessionVars
  <2> QED
    BY <1>1, ClosedStep DEF SessionsInv, OverIsClosed, Unchanged, Closed
<1>5. \A r \in RunIds : session'[r] # "none" => status'[r] # "none" /\ request'[r] = NoRequest
  <2> SUFFICES ASSUME NEW r \in RunIds, session[r] # "none"
               PROVE  status'[r] # "none" /\ request'[r] = NoRequest
    BY DEF sessionVars
  <2>1. status[r] # "none" /\ request[r] = NoRequest
    BY DEF SessionsInv
  <2> QED
    BY <1>1, <2>1, StepOfEachRun DEF Opened, AddedTo, ClosedBy, Closed, Unchanged
<1> QED
  BY <1>1, <1>2, <1>3, <1>4, <1>5 DEF SessionsInv, captureVars

\* A step that changes notes and captures only.
LEMMA NotesKeepSessions ==
  ASSUME SessionsInv, UNCHANGED << runsVars, session, requirement >>,
         notes' \in [RunIds -> Nat], capture' \in [RunIds -> CaptureStatus],
         unposted' \in [RunIds -> Nat],
         \A r \in RunIds : capture'[r] = "closing" => unposted'[r] > 0
  PROVE  SessionsInv'
<1>1. RunsTypeOK' /\ RequestInv'
  BY TypedStep, RequestStep DEF SessionsInv, SessionsTypeOK
<1>2. UNCHANGED << status, request, verdict, results, rows, expected >>
  BY DEF runsVars, runVars
<1>3. SessionsTypeOK'
  BY <1>1 DEF SessionsInv, SessionsTypeOK
<1>4. RecordedWhenEnded' /\ OverIsClosed'
  BY <1>2 DEF SessionsInv, RecordedWhenEnded, OverIsClosed, Over, Closed
<1> QED
  BY <1>1, <1>2, <1>3, <1>4 DEF SessionsInv

-----------------------------------------------------------------------------
LEMMA StartedSession ==
  ASSUME SessionsInv, NEW r \in RunIds, NEW linked \in BOOLEAN, StartSession(r, linked)
  PROVE  SessionsInv'
<1>1. CreateRun(r, NoExternal, Undeclared, NoRequest)
  BY DEF StartSession
<1>2. RunsNext
  BY <1>1 DEF RunsNext, ClientNext
<1>3. RunsTypeOK /\ RunsTypeOK' /\ RequestInv'
  BY <1>2, TypedStep, RequestStep DEF SessionsInv, SessionsTypeOK
<1>4. /\ status[r] = "none" /\ session[r] = "none" /\ rows' = rows
      /\ status' = [status EXCEPT ![r] = "running"] /\ request' = [request EXCEPT ![r] = NoRequest]
      /\ session' = [session EXCEPT ![r] = "active"]
      /\ requirement' = [requirement EXCEPT ![r] = linked]
      /\ UNCHANGED << notes, capture, unposted >>
  BY <1>1 DEF StartSession, CreateRun, BeginRun, captureVars, SessionsInv
<1>5. SessionsTypeOK'
  BY <1>3, <1>4 DEF SessionsInv, SessionsTypeOK, SessionStatus
<1>6. RecordedWhenEnded'
  BY <1>4 DEF SessionsInv, SessionsTypeOK, RecordedWhenEnded
<1>7. OverIsClosed'
  <2> SUFFICES ASSUME NEW s \in RunIds, Over(s)'
               PROVE  Closed(s)' /\ verdict'[s] = Judge(FinalResults(results'[s]), rows'[s], expected'[s])
    BY DEF OverIsClosed
  <2>1. Over(s)
    BY <1>4 DEF Over, SessionsInv, SessionsTypeOK
  <2> QED
    BY <1>2, <1>3, <2>1, ClosedStep DEF SessionsInv, OverIsClosed, Unchanged, Closed
<1> QED
  BY <1>3, <1>4, <1>5, <1>6, <1>7 DEF SessionsInv, SessionsTypeOK, RunsTypeOK

LEMMA EndedSession ==
  ASSUME SessionsInv, NEW r \in RunIds, NEW abandoned \in BOOLEAN, EndSession(r, abandoned)
  PROVE  SessionsInv'
<1> DEFINE there == IF abandoned THEN "interrupted" ELSE "finished"
           over == IF abandoned THEN "abandoned" ELSE "ended"
<1>1. /\ session[r] = "active" /\ session' = [session EXCEPT ![r] = over]
      /\ rows' = [rows EXCEPT ![r] = rows[r] \cup Recorded(r, abandoned)]
      /\ status' = [status EXCEPT ![r] = there]
      /\ verdict' = [verdict EXCEPT ![r] = Judge(FinalResults(results[r]), rows'[r], expected[r])]
      /\ UNCHANGED << external, request, expected, results, reqStatus, reqRun >>
      /\ UNCHANGED << issued, dispatching, posted, jobs, requirement, notes, capture, unposted >>
  BY DEF EndSession, Judged, reqVars, ciVars, captureVars
<1>2. /\ RunsTypeOK /\ session \in [RunIds -> SessionStatus] /\ requirement \in [RunIds -> BOOLEAN]
      /\ status[r] # "none" /\ request[r] = NoRequest
      /\ SessionRow(r) \notin rows[r]
  BY <1>1 DEF SessionsInv, SessionsTypeOK, RecordedWhenEnded
<1>3. there \in {"finished", "interrupted"} /\ over \in {"ended", "abandoned"}
      /\ (over = "ended" <=> ~ abandoned)
  OBVIOUS
<1> HIDE DEF there, over
<1>4. RunsTypeOK'
  <2>1. rows' \in [RunIds -> SUBSET VerdictRows]
    BY <1>1, <1>2, SessionRowsAssumption DEF RunsTypeOK, Recorded
  <2>2. status' \in [RunIds -> RunStatus]
    BY <1>1, <1>2, <1>3 DEF RunsTypeOK, RunStatus
  <2>3. verdict' \in [RunIds -> Verdicts \cup {NoVerdict}]
    BY <1>1, <1>2, JudgeType DEF RunsTypeOK
  <2> QED
    BY <1>1, <1>2, <2>1, <2>2, <2>3 DEF RunsTypeOK
<1>5. SessionsTypeOK'
  BY <1>1, <1>2, <1>3, <1>4 DEF SessionsInv, SessionsTypeOK, SessionStatus
<1>6. RecordedWhenEnded'
  <2> SUFFICES ASSUME NEW s \in RunIds
               PROVE  SessionRow(s) \in rows'[s] <=> session'[s] = "ended" /\ requirement'[s]
    BY DEF RecordedWhenEnded
  <2>1. CASE s = r
    BY <1>1, <1>2, <1>3, <2>1 DEF Recorded, RunsTypeOK
  <2>2. CASE s # r
    BY <1>1, <1>2, <2>2 DEF SessionsInv, RecordedWhenEnded, RunsTypeOK
  <2> QED
    BY <2>1, <2>2
<1>7. OverIsClosed'
  <2> SUFFICES ASSUME NEW s \in RunIds, Over(s)'
               PROVE  Closed(s)' /\ verdict'[s] = Judge(FinalResults(results'[s]), rows'[s], expected'[s])
    BY DEF OverIsClosed
  <2>1. CASE s = r
    BY <1>1, <1>2, <1>3, <2>1 DEF Closed, RunsTypeOK
  <2>2. CASE s # r
    BY <1>1, <1>2, <2>2 DEF SessionsInv, OverIsClosed, Over, Closed, RunsTypeOK
  <2> QED
    BY <2>1, <2>2
<1>8. RequestInv'
  <2>1. /\ \A s \in RunIds \ {r} : status'[s] = status[s]
        /\ status'[r] # "none" /\ request' = request /\ request[r] = NoRequest
    BY <1>1, <1>2, <1>3 DEF RunsTypeOK
  <2>2. \A q \in RequestIds, s \in RunIds : request[s] = q => s # r
    BY <1>2, RunsAssumption
  <2>3. RequestFollowsItsRuns'
    BY <1>1, <2>1, <2>2 DEF SessionsInv, RequestInv, RequestFollowsItsRuns
  <2> QED
    BY <1>1, <1>4, <2>1, <2>3 DEF SessionsInv, RequestInv, NotYetStored
<1> QED
  BY <1>1, <1>2, <1>3, <1>5, <1>6, <1>7, <1>8 DEF SessionsInv, RunsTypeOK

LEMMA SessionsStep == SessionsInv /\ [SessionsNext]_sessionsVars => SessionsInv'
<1> SUFFICES ASSUME SessionsInv, [SessionsNext]_sessionsVars PROVE SessionsInv'
  OBVIOUS
<1>t. /\ notes \in [RunIds -> Nat] /\ capture \in [RunIds -> CaptureStatus]
      /\ unposted \in [RunIds -> Nat]
      /\ \A r \in RunIds : capture[r] = "closing" => unposted[r] > 0
  BY DEF SessionsInv, SessionsTypeOK
<1>1. ASSUME NEW r \in RunIds, AddNote(r) PROVE SessionsInv'
  BY <1>t, <1>1, NotesKeepSessions DEF AddNote, Noted, captureVars
<1>2. ASSUME NEW r \in RunIds, OpenCapture(r) \/ Captured(r) \/ CloseCapture(r) \/ Refused(r)
      PROVE  SessionsInv'
  <2>1. UNCHANGED << runsVars, session, requirement, notes >>
    BY <1>2 DEF OpenCapture, Captured, CloseCapture, Refused, sessionVars
  <2>2. /\ capture' \in [RunIds -> CaptureStatus] /\ unposted' \in [RunIds -> Nat]
        /\ \A s \in RunIds : capture'[s] = "closing" => unposted'[s] > 0
    BY <1>t, <1>2 DEF OpenCapture, Captured, CloseCapture, Refused, CaptureStatus
  <2> QED
    BY <1>t, <2>1, <2>2, NotesKeepSessions
<1>3. ASSUME NEW r \in RunIds, Post(r) PROVE SessionsInv'
  <2>1. /\ UNCHANGED << runsVars, session, requirement >> /\ notes' \in [RunIds -> Nat]
    BY <1>t, <1>3 DEF Post, Noted
  <2>2. /\ capture' \in [RunIds -> CaptureStatus] /\ unposted' \in [RunIds -> Nat]
        /\ \A s \in RunIds : capture'[s] = "closing" => unposted'[s] > 0
    BY <1>t, <1>3 DEF Post, CaptureStatus
  <2> QED
    BY <2>1, <2>2, NotesKeepSessions
<1>4. CASE SessionOrCaptureNext
  BY <1>1, <1>2, <1>3, <1>4, StartedSession, EndedSession DEF SessionOrCaptureNext
<1>5. CASE RunsNext /\ UNCHANGED << sessionVars, captureVars >>
  BY <1>5, RunsKeepSessions
<1>6. CASE UNCHANGED sessionsVars
  BY <1>6, RunsKeepSessions DEF sessionsVars
<1> QED
  BY <1>4, <1>5, <1>6 DEF SessionsNext

LEMMA SessionsInvariant == SessionsSpec => []SessionsInv
  BY SessionsStart, SessionsStep, PTL DEF SessionsSpec

\* Sessions, captures and the runs below them keep their types.
THEOREM SessionsTypeCorrect == SessionsSpec => []SessionsTypeOK
<1>1. SessionsInv => SessionsTypeOK
  BY DEF SessionsInv
<1> QED
  BY <1>1, SessionsInvariant, PTL

\* Coverage is there if and only if a session with a requirement was ended and not abandoned,
\* whatever clients did to its run.
THEOREM CoverageComesFromTheEnd == SessionsSpec => []RecordedWhenEnded
<1>1. SessionsInv => RecordedWhenEnded
  BY DEF SessionsInv
<1> QED
  BY <1>1, SessionsInvariant, PTL

\* The run of a session that is over is closed with the verdict of what is stored for it.
THEOREM SessionsLeaveClosedRuns == SessionsSpec => []OverIsClosed
<1>1. SessionsInv => OverIsClosed
  BY DEF SessionsInv
<1> QED
  BY <1>1, SessionsInvariant, PTL

\* Ending a session, which looks at no status and at no request, disturbs no run request.
THEOREM RequestsSurviveSessions == SessionsSpec => []RequestFollowsItsRuns
<1>1. SessionsInv => RequestFollowsItsRuns
  BY DEF SessionsInv, RequestInv
<1> QED
  BY <1>1, SessionsInvariant, PTL
-----------------------------------------------------------------------------
(* Manual runs. *)

\* What is kept of one case of one run.  Besides the promises: an execution belongs to a run,
\* and a case nobody else pushes under has its one result from its own end, if it has any.
KeptOf(r, c) ==
  LET outcome == OutcomeOf(recorded[r][c]) IN
    /\ execution[r][c] # "none" => status[r] # "none"
    /\ Finished(r, c) =>
         /\ results[r][<< c, 1 >>] # NoResult
         /\ AllRecorded(recorded[r][c])
         /\ execution[r][c] = outcome.status
    /\ Coverage(c, "proved") \in rows[r] \ PushedRows => Finished(r, c) /\ outcome.coverage = "proved"
    /\ c \notin PushedTests =>
         \A n \in Attempts : results[r][<< c, n >>] =
           IF n = 1 /\ Finished(r, c) THEN ResultOf(outcome.outcome) ELSE NoResult

ManualInv ==
  /\ ManualTypeOK /\ JudgedInv /\ RequestInv /\ StoredOfTests
  /\ \A r \in RunIds, c \in Cases : KeptOf(r, c)

LEMMA ManualStart == ManualInit => ManualInv
<1> SUFFICES ASSUME ManualInit PROVE ManualInv
  OBVIOUS
<1>1. ManualTypeOK
  BY TypedInit DEF ManualInit, ManualTypeOK, ExecutionStatus
<1>2. JudgedInv /\ StoredOfTests
  BY JudgedInit, StoredStart DEF ManualInit
<1>3. RequestInv
  BY TypedInit, RunsAssumption DEF ManualInit, RunsInit, RequestInv, RequestFollowsItsRuns, NotYetStored
<1>4. ASSUME NEW r \in RunIds, NEW c \in Cases PROVE KeptOf(r, c)
  <2>1. execution[r][c] = "none" /\ ~ Finished(r, c) /\ rows[r] = {}
    BY DEF ManualInit, RunsInit, Finished
  <2>2. \A n \in Attempts : results[r][<< c, n >>] = NoResult
    BY ManualAssumption DEF ManualInit, RunsInit
  <2> QED
    BY <2>1, <2>2 DEF KeptOf
<1> QED
  BY <1>1, <1>2, <1>3, <1>4 DEF ManualInv

\* The kinds of outcomes there are.
LEMMA OutcomeKinds ==
  ASSUME NEW steps
  PROVE  /\ OutcomeOf(steps).status \in ExecutionStatus \ {"none", "in_progress"}
         /\ OutcomeOf(steps).outcome \in Outcomes
         /\ OutcomeOf(steps).coverage \in {"none", "proved", "recorded"}
  BY DEF OutcomeOf, ExecutionStatus, Outcomes

\* A pass rests on steps that passed or did not apply, and a proved one on evidence.
LEMMA PassedOnSteps ==
  ASSUME NEW steps \in [1 .. Steps -> StepResults \cup {NotRecorded}], AllRecorded(steps),
         OutcomeOf(steps).outcome = "passed" \/ OutcomeOf(steps).coverage = "proved"
  PROVE  /\ OutcomeOf(steps).status = "passed"
         /\ With("pass", steps) # {}
         /\ With("pass", steps) \cup With("na", steps) = 1 .. Steps
         /\ OutcomeOf(steps).coverage = "proved" =>
              \A n \in With("pass", steps) : steps[n].evidence
<1>1. /\ With("fail", steps) = {} /\ With("blocked", steps) = {} /\ With("na", steps) # 1 .. Steps
      /\ OutcomeOf(steps).status = "passed"
      /\ OutcomeOf(steps).coverage = "proved" =>
              \A n \in With("pass", steps) : steps[n].evidence
  BY DEF OutcomeOf
<1>2. \A n \in 1 .. Steps : steps[n].status \in {"pass", "na"}
  BY <1>1 DEF AllRecorded, StepResults, With
<1> QED
  BY <1>1, <1>2 DEF With

-----------------------------------------------------------------------------
\* A tester's call is a step of Runs, or adds a result and a row to one open run.
LEMMA StartIsCreate ==
  ASSUME NEW r \in RunIds, NEW x \in ExternalIds \cup {NoExternal}, NEW cases \in SUBSET Cases,
         StartManualRun(r, x, cases)
  PROVE  RunsNext
<1>1. IsFiniteSet(Cases)
  BY ManualAssumption, RunsAssumption, FS_Subset
<1>2. Cardinality(cases) \in 1 .. Cardinality(Cases)
  <2>1. /\ Cardinality(cases) \in Nat /\ Cardinality(Cases) \in Nat
        /\ Cardinality(cases) =< Cardinality(Cases) /\ Cardinality(cases) # 0
    BY <1>1, FS_Subset, FS_CardinalityType, FS_EmptySet DEF StartManualRun
  <2> QED
    BY <2>1
<1>3. CreateRun(r, x, Cardinality(cases), NoRequest)
  BY DEF StartManualRun
<1> QED
  BY <1>2, <1>3, ManualAssumption DEF RunsNext, ClientNext

LEMMA FinishAdds ==
  ASSUME RunsTypeOK, NEW r \in RunIds, NEW c \in Cases, FinishExecution(r, c)
  PROVE  /\ AddedTo(r) /\ \A other \in RunIds \ {r} : Unchanged(other)
         /\ RunsTypeOK'
<1> DEFINE result == OutcomeOf(recorded[r][c])
           stored == Store(results[r], [k \in {<< c, 1 >>} |-> ResultOf(result.outcome)])
           after == IF result.coverage = "none" THEN rows[r] ELSE rows[r] \cup {Coverage(c, result.coverage)}
<1>1. /\ results' = [results EXCEPT ![r] = stored] /\ rows' = [rows EXCEPT ![r] = after]
      /\ status[r] = "running"
      /\ UNCHANGED << status, external, request, expected, verdict, reqStatus, reqRun >>
      /\ UNCHANGED << issued, dispatching, posted, jobs >>
  BY DEF FinishExecution, OpenRun, reqVars, ciVars
<1>2. /\ DOMAIN stored = Tests \X Attempts
      /\ \A k \in Tests \X Attempts : results[r][k] # NoResult => stored[k] = results[r][k]
  BY DEF Store
<1>3. rows[r] \subseteq after /\ after \in SUBSET VerdictRows
  BY OutcomeKinds, StoredAssumption DEF RunsTypeOK
<1> HIDE DEF stored, after, result
<1> QED
  BY <1>1, <1>2, <1>3 DEF RunsTypeOK, AddedTo, Unchanged

\* So every step does to a run what a step of Runs does, and no request is touched that Runs
\* would leave alone.
LEMMA ManualKeepsRuns ==
  ASSUME ManualInv, [ManualNext]_manualVars
  PROVE  /\ [Record!Next]_Record!vars
         /\ \A r \in RunIds : Opened(r) \/ AddedTo(r) \/ ClosedBy(r) \/ Unchanged(r)
         /\ RunsTypeOK' /\ JudgedInv' /\ RequestInv' /\ StoredOfTests'
<1> USE DEF ManualInv
<1>0. RunsTypeOK
  BY DEF ManualTypeOK
<1>1. CASE [RunsNext]_runsVars
  BY <1>0, <1>1, StepIsRecorded, StepOfEachRun, TypedStep, JudgedStep, RequestStep, StoredStep
<1>2. ASSUME NEW r \in RunIds, NEW c \in Cases, FinishExecution(r, c)
      PROVE  /\ [Record!Next]_Record!vars
             /\ \A s \in RunIds : Opened(s) \/ AddedTo(s) \/ ClosedBy(s) \/ Unchanged(s)
             /\ RunsTypeOK' /\ JudgedInv' /\ RequestInv' /\ StoredOfTests'
  <2>1. RunsTypeOK' /\ AddedTo(r) /\ \A other \in RunIds \ {r} : Unchanged(other)
    BY <1>0, <1>2, FinishAdds
  <2>2. Record!Next
    BY <2>1, StepOfTheRecord
  <2>3. \A s \in RunIds : Opened(s) \/ AddedTo(s) \/ ClosedBy(s) \/ Unchanged(s)
    BY <2>1
  <2>4. JudgedInv'
    BY <2>1, <2>3, JudgedRun DEF JudgedInv, VerdictIsOfStoredResults, OpenIsUnjudged
  <2>5. RequestInv'
    BY <1>2, <2>1 DEF FinishExecution, reqVars, ciVars, RequestInv, RequestFollowsItsRuns, NotYetStored
  <2> QED
    BY <2>1, <2>2, <2>3, <2>4, <2>5, StoredStep
<1>3. CASE TesterNext
  BY <1>1, <1>2, <1>3, StartIsCreate DEF TesterNext, RecordStep
<1> QED
  BY <1>1, <1>3 DEF ManualNext, manualVars

-----------------------------------------------------------------------------
\* No step of Runs stores a result under a test that no batch has.
LEMMA PushedTestsOnly ==
  ASSUME ManualTypeOK, StoredOfTests, [RunsNext]_runsVars,
         NEW r \in RunIds, NEW c \in Cases, c \notin PushedTests, NEW n \in Attempts
  PROVE  results'[r][<< c, n >>] = results[r][<< c, n >>]
<1>1. CASE UNCHANGED results
  BY <1>1
<1>2. ASSUME NEW s \in RunIds, NEW batch \in Batches, AppendResults(s, batch)
      PROVE  results'[r][<< c, n >>] = results[r][<< c, n >>]
  <2>1. << c, n >> \notin DOMAIN batch
    <3>1. << c, n >> \in DOMAIN batch => c \in PushedTests
      <4> SUFFICES ASSUME << c, n >> \in DOMAIN batch PROVE c \in PushedTests
        OBVIOUS
      <4>1. << c, n >> \in UNION { DOMAIN b : b \in Batches } /\ << c, n >>[1] = c
        OBVIOUS
      <4> QED
        BY <4>1, Zenon DEF PushedTests
    <3> QED
      BY <3>1
  <2>2. << c, n >> \in Tests \X Attempts
    BY ManualAssumption
  <2>3. results' = [results EXCEPT ![s] = Store(results[s], batch)]
    BY <1>2 DEF AppendResults
  <2>4. Store(results[s], batch)[<< c, n >>] = results[s][<< c, n >>]
    BY <2>1, <2>2 DEF Store
  <2> QED
    BY <2>3, <2>4 DEF ManualTypeOK, RunsTypeOK
<1>3. CASE RequestNext
  BY <1>1, <1>3, RequestsLeaveRuns DEF runVars
<1>4. CASE ClientNext
  BY <1>1, <1>2, <1>4 DEF ClientNext, CreateRun, AppendVerdicts, FinishRun
<1> QED
  BY <1>1, <1>3, <1>4 DEF RunsNext, runsVars, runVars

\* What a step must leave alone for a case to stay as it was kept.
LEMMA LeftAlone ==
  ASSUME NEW r \in RunIds, NEW c \in Cases, KeptOf(r, c),
         status[r] # "none" => status'[r] # "none",
         execution'[r][c] = execution[r][c], recorded'[r][c] = recorded[r][c],
         results[r][<< c, 1 >>] # NoResult => results'[r][<< c, 1 >>] = results[r][<< c, 1 >>],
         Coverage(c, "proved") \in rows'[r] \ PushedRows => Coverage(c, "proved") \in rows[r],
         c \notin PushedTests => \A n \in Attempts : results'[r][<< c, n >>] = results[r][<< c, n >>]
  PROVE  KeptOf(r, c)'
  BY DEF KeptOf, Finished

LEMMA RunsKeepManual ==
  ASSUME ManualInv, [RunsNext]_runsVars, UNCHANGED executionVars,
         NEW r \in RunIds, NEW c \in Cases
  PROVE  KeptOf(r, c)'
<1>1. ManualTypeOK /\ RunsTypeOK /\ StoredOfTests /\ KeptOf(r, c) /\ UNCHANGED << execution, recorded >>
  BY DEF ManualInv, ManualTypeOK, executionVars
<1>2. Opened(r) \/ AddedTo(r) \/ ClosedBy(r) \/ Unchanged(r)
  BY <1>1, StepOfEachRun
<1>3. << c, 1 >> \in Tests \X Attempts
  BY ManualAssumption
<1>4. /\ status[r] # "none" => status'[r] # "none"
      /\ results[r][<< c, 1 >>] # NoResult => results'[r][<< c, 1 >>] = results[r][<< c, 1 >>]
  BY <1>2, <1>3 DEF Opened, AddedTo, ClosedBy, Closed, Unchanged
<1>5. Coverage(c, "proved") \in rows'[r] \ PushedRows => Coverage(c, "proved") \in rows[r]
  BY <1>1, PushedRowsOnly
<1>6. c \notin PushedTests => \A n \in Attempts : results'[r][<< c, n >>] = results[r][<< c, n >>]
  BY <1>1, PushedTestsOnly
<1> QED
  BY <1>1, <1>4, <1>5, <1>6, LeftAlone

LEMMA StartKeeps ==
  ASSUME ManualInv, NEW r \in RunIds, NEW x \in ExternalIds \cup {NoExternal}, NEW cases \in SUBSET Cases, StartManualRun(r, x, cases)
  PROVE  ManualTypeOK' /\ \A s \in RunIds, c \in Cases : KeptOf(s, c)'
<1>1. /\ ManualTypeOK /\ \A s \in RunIds, c \in Cases : KeptOf(s, c)
      /\ status[r] = "none" /\ status' = [status EXCEPT ![r] = "running"]
      /\ execution' = [execution EXCEPT ![r] = [c \in Cases |-> IF c \in cases THEN "in_progress" ELSE "none"]]
      /\ UNCHANGED << recorded, results, rows >>
  BY DEF ManualInv, StartManualRun, CreateRun, BeginRun
<1>2. execution' \in [RunIds -> [Cases -> ExecutionStatus]] /\ RunsTypeOK'
  <2>1. [c \in Cases |-> IF c \in cases THEN "in_progress" ELSE "none"] \in [Cases -> ExecutionStatus]
    BY DEF ExecutionStatus
  <2>2. execution' \in [RunIds -> [Cases -> ExecutionStatus]]
    BY <1>1, <2>1 DEF ManualTypeOK
  <2> QED
    BY <2>2, ManualKeepsRuns DEF ManualNext, TesterNext
<1>3. ManualTypeOK'
  BY <1>1, <1>2 DEF ManualTypeOK
<1>4. ASSUME NEW s \in RunIds, NEW c \in Cases PROVE KeptOf(s, c)'
  <2>1. /\ status' \in [RunIds -> RunStatus] /\ status \in [RunIds -> RunStatus]
        /\ execution \in [RunIds -> [Cases -> ExecutionStatus]]
    BY <1>1, <1>3 DEF ManualTypeOK, RunsTypeOK
  <2>2. CASE s # r
    BY <1>1, <2>1, <2>2, LeftAlone
  <2>3. CASE s = r
    <3>1. status'[s] = "running" /\ execution'[s][c] \in {"none", "in_progress"}
      BY <1>1, <2>1, <2>3
    <3>2. execution[s][c] = "none"
      BY <1>1, <2>3 DEF KeptOf
    <3>3. ~ Finished(s, c) /\ ~ Finished(s, c)'
      BY <3>1, <3>2 DEF Finished
    <3> QED
      BY <1>1, <3>1, <3>3 DEF KeptOf
  <2> QED
    BY <2>2, <2>3
<1> QED
  BY <1>3, <1>4

LEMMA RecordKeeps ==
  ASSUME ManualInv, NEW r \in RunIds, NEW c \in Cases, NEW n \in 1 .. Steps, NEW step \in StepResults,
         RecordStep(r, c, n, step)
  PROVE  ManualTypeOK' /\ \A s \in RunIds, d \in Cases : KeptOf(s, d)'
<1> DEFINE corrected == [recorded[r][c] EXCEPT ![n] = step]
<1>1. /\ ManualTypeOK /\ \A s \in RunIds, d \in Cases : KeptOf(s, d)
      /\ execution[r][c] = "in_progress" /\ UNCHANGED << runsVars, execution >>
  BY DEF ManualInv, RecordStep, InProgress
<1>r. recorded' = [recorded EXCEPT ![r][c][n] = step]
  BY DEF RecordStep
<1>2. corrected \in [1 .. Steps -> StepResults \cup {NotRecorded}]
  BY <1>1 DEF ManualTypeOK
<1> HIDE DEF corrected
<1>3. /\ recorded' \in [RunIds -> [Cases -> [1 .. Steps -> StepResults \cup {NotRecorded}]]]
      /\ \A s \in RunIds, d \in Cases : s # r \/ d # c => recorded'[s][d] = recorded[s][d]
  BY <1>1, <1>r, <1>2 DEF ManualTypeOK
<1>4. UNCHANGED << status, results, rows >> /\ RunsTypeOK'
  BY <1>1, TypedStep DEF runsVars, runVars, ManualTypeOK
<1>5. ManualTypeOK'
  BY <1>1, <1>3, <1>4 DEF ManualTypeOK
<1>6. ASSUME NEW s \in RunIds, NEW d \in Cases PROVE KeptOf(s, d)'
  <2>1. CASE s # r \/ d # c
    BY <1>1, <1>3, <1>4, <2>1, LeftAlone
  <2>2. CASE s = r /\ d = c
    <3>1. ~ Finished(s, d) /\ ~ Finished(s, d)'
      BY <1>1, <2>2 DEF Finished
    <3> QED
      BY <1>1, <1>4, <3>1 DEF KeptOf
  <2> QED
    BY <2>1, <2>2
<1> QED
  BY <1>5, <1>6

\* The end of an execution puts in place what is kept of a finished case.
LEMMA FinishKeeps ==
  ASSUME ManualInv, NEW r \in RunIds, NEW c \in Cases, FinishExecution(r, c)
  PROVE  ManualTypeOK' /\ \A s \in RunIds, d \in Cases : KeptOf(s, d)'
<1> DEFINE result == OutcomeOf(recorded[r][c])
           batch == [k \in {<< c, 1 >>} |-> ResultOf(result.outcome)]
<1>1. /\ ManualTypeOK /\ \A s \in RunIds, d \in Cases : KeptOf(s, d)
      /\ execution[r][c] = "in_progress" /\ AllRecorded(recorded[r][c])
      /\ results' = [results EXCEPT ![r] = Store(results[r], batch)]
      /\ rows' = [rows EXCEPT ![r] =
                    IF result.coverage = "none" THEN rows[r] ELSE rows[r] \cup {Coverage(c, result.coverage)}]
      /\ execution' = [execution EXCEPT ![r] = [execution[r] EXCEPT ![c] = result.status]]
      /\ UNCHANGED << status, recorded >>
  BY DEF ManualInv, FinishExecution, InProgress
<1>2. RunsTypeOK /\ RunsTypeOK' /\ StoredOfTests
  BY <1>1, FinishAdds DEF ManualTypeOK, ManualInv
<1>3. /\ result.status \in ExecutionStatus \ {"none", "in_progress"} /\ result.outcome \in Outcomes
      /\ result.coverage \in {"none", "proved", "recorded"}
  BY OutcomeKinds
<1> HIDE DEF result
<1>4. execution' \in [RunIds -> [Cases -> ExecutionStatus]]
  BY <1>1, <1>3 DEF ManualTypeOK
<1>5. ManualTypeOK'
  BY <1>1, <1>2, <1>4 DEF ManualTypeOK
<1>6. /\ \A k \in Tests \X Attempts : k # << c, 1 >> => results'[r][k] = results[r][k]
      /\ results'[r][<< c, 1 >>] # NoResult
      /\ results[r][<< c, 1 >>] # NoResult => results'[r][<< c, 1 >>] = results[r][<< c, 1 >>]
      /\ results[r][<< c, 1 >>] = NoResult => results'[r][<< c, 1 >>] = ResultOf(result.outcome)
  <2>1. << c, 1 >> \in Tests \X Attempts
    BY ManualAssumption
  <2>2. results'[r] = Store(results[r], batch)
    BY <1>1, <1>2 DEF RunsTypeOK
  <2>3. ResultOf(result.outcome) # NoResult
    BY <1>3, StoredAssumption
  <2> QED
    BY <2>1, <2>2, <2>3 DEF Store
<1>7. ASSUME NEW s \in RunIds, s # r, NEW d \in Cases PROVE KeptOf(s, d)'
  <2>1. results'[s] = results[s] /\ rows'[s] = rows[s] /\ execution'[s] = execution[s]
    BY <1>1, <1>2, <1>7 DEF RunsTypeOK, ManualTypeOK
  <2> QED
    BY <1>1, <2>1, LeftAlone
<1>8. ASSUME NEW d \in Cases, d # c PROVE KeptOf(r, d)'
  <2>1. execution'[r][d] = execution[r][d]
    BY <1>1, <1>8 DEF ManualTypeOK
  <2>2. \A n \in Attempts : results'[r][<< d, n >>] = results[r][<< d, n >>]
    <3> SUFFICES ASSUME NEW n \in Attempts PROVE results'[r][<< d, n >>] = results[r][<< d, n >>]
      OBVIOUS
    <3>1. << d, n >> \in Tests \X Attempts /\ << d, n >> # << c, 1 >>
      BY <1>8, ManualAssumption
    <3> QED
      BY <1>6, <3>1
  <2>3. Coverage(d, "proved") \in rows'[r] => Coverage(d, "proved") \in rows[r]
    BY <1>1, <1>2, <1>8 DEF RunsTypeOK, Coverage
  <2> QED
    BY <1>1, <2>1, <2>2, <2>3, LeftAlone, ManualAssumption
<1>9. KeptOf(r, c)'
  <2>1. execution'[r][c] = result.status /\ Finished(r, c)' /\ ~ Finished(r, c)
    BY <1>1, <1>3 DEF Finished, ManualTypeOK
  <2>2. status[r] # "none"
    BY <1>1 DEF KeptOf
  <2>3. Coverage(c, "proved") \in rows'[r] \ PushedRows => result.coverage = "proved"
    BY <1>1, <1>2, <2>1 DEF RunsTypeOK, KeptOf, Coverage
  <2>4. c \notin PushedTests => results[r][<< c, 1 >>] = NoResult
    BY <1>1, <2>1, ManualAssumption DEF KeptOf
  <2>5. c \notin PushedTests => \A n \in Attempts : results'[r][<< c, n >>] =
           IF n = 1 THEN ResultOf(result.outcome) ELSE NoResult
    <3> SUFFICES ASSUME c \notin PushedTests, NEW n \in Attempts, n # 1
                 PROVE  results'[r][<< c, n >>] = NoResult
      BY <1>6, <2>4
    <3>1. << c, n >> \in Tests \X Attempts /\ << c, n >> # << c, 1 >>
      BY ManualAssumption
    <3> QED
      BY <1>1, <1>6, <2>1, <3>1 DEF KeptOf
  <2>6. OutcomeOf(recorded[r][c])' = result
    BY <1>1 DEF result
  <2>7. results'[r][<< c, 1 >>] # NoResult /\ AllRecorded(recorded'[r][c]) /\ status'[r] # "none"
    BY <1>1, <1>6, <2>2
  <2> QED
    BY <2>1, <2>3, <2>5, <2>6, <2>7 DEF KeptOf
<1> QED
  BY <1>5, <1>7, <1>8, <1>9

LEMMA ManualStep == ManualInv /\ [ManualNext]_manualVars => ManualInv'
<1> SUFFICES ASSUME ManualInv, [ManualNext]_manualVars PROVE ManualInv'
  OBVIOUS
<1>1. RunsTypeOK' /\ JudgedInv' /\ RequestInv' /\ StoredOfTests'
  BY ManualKeepsRuns
<1>2. CASE TesterNext
  BY <1>1, <1>2, StartKeeps, RecordKeeps, FinishKeeps DEF TesterNext, ManualInv
<1>3. CASE [RunsNext]_runsVars /\ UNCHANGED executionVars
  BY <1>1, <1>3, RunsKeepManual DEF ManualInv, ManualTypeOK, executionVars
<1> QED
  BY <1>2, <1>3 DEF ManualNext, manualVars

LEMMA ManualInvariant == ManualSpec => []ManualInv
  BY ManualStart, ManualStep, PTL DEF ManualSpec

\* The last attempt of a case that has one result only.
LEMMA OnlyResult ==
  ASSUME NEW r \in RunIds, StoredOfTests, NEW c \in Cases, NEW only,
         \A n \in Attempts : results[r][<< c, n >>] = IF n = 1 THEN only ELSE NoResult
  PROVE  c \in DOMAIN FinalResults(results[r]) =>
           only # NoResult /\ FinalResults(results[r])[c] = only
<1> DEFINE reported == { k \in DOMAIN results[r] : results[r][k] # NoResult }
           last(t) == CHOOSE k \in reported : k[1] = t /\ \A j \in reported : j[1] = t => j[2] <= k[2]
<1> SUFFICES ASSUME c \in { k[1] : k \in reported }
             PROVE  only # NoResult /\ results[r][last(c)] = only
  BY DEF FinalResults
<1>1. \A k \in reported : k[1] = c => k = << c, 1 >> /\ results[r][k] = only
  BY DEF StoredOfTests
<1>2. << c, 1 >> \in reported /\ results[r][<< c, 1 >>] = only
  BY <1>1
<1>3. last(c) = << c, 1 >>
  BY <1>1, <1>2
<1> QED
  BY <1>2, <1>3

-----------------------------------------------------------------------------
\* Manual executions keep their types.
THEOREM ManualTypeCorrect == ManualSpec => []ManualTypeOK
<1>1. ManualInv => ManualTypeOK
  BY DEF ManualInv
<1> QED
  BY <1>1, ManualInvariant, PTL

\* For any cases and steps, however often they are corrected and whatever clients push or close
\* meanwhile: an execution is finished on the steps that stay recorded, and has its result.
THEOREM ExecutionsStandOnTheirSteps == ManualSpec => []FinishedOnItsSteps
<1>1. ManualInv => FinishedOnItsSteps
  BY Zenon DEF ManualInv, KeptOf, FinishedOnItsSteps
<1> QED
  BY <1>1, ManualInvariant, PTL

\* Proved coverage of a manual case comes from a pass whose every passing step has evidence.
THEOREM ProofRestsOnEvidence == ManualSpec => []ProvedHasEvidence
<1>1. ManualInv => ProvedHasEvidence
  <2> SUFFICES ASSUME ManualInv, NEW r \in RunIds, NEW c \in Cases,
                      Coverage(c, "proved") \in rows[r] \ PushedRows
               PROVE  /\ execution[r][c] = "passed"
                      /\ \E n \in 1 .. Steps : recorded[r][c][n].status = "pass"
                      /\ \A n \in 1 .. Steps :
                           recorded[r][c][n].status = "pass" => recorded[r][c][n].evidence
    BY DEF ProvedHasEvidence
  <2>1. /\ AllRecorded(recorded[r][c]) /\ OutcomeOf(recorded[r][c]).coverage = "proved"
        /\ execution[r][c] = OutcomeOf(recorded[r][c]).status
    BY DEF ManualInv, KeptOf
  <2>2. recorded[r][c] \in [1 .. Steps -> StepResults \cup {NotRecorded}]
    BY DEF ManualInv, ManualTypeOK
  <2> HIDE DEF ManualInv
  <2> QED
    BY <2>1, <2>2, PassedOnSteps DEF With
<1> QED
  BY <1>1, ManualInvariant, PTL

\* Whatever happens to its run, a case that is the testers' own passes in it only on steps that
\* passed; blocked, failed and inapplicable ones never do.
THEOREM BlockedNeverPasses == ManualSpec => []BlockedIsNoPass
<1>1. ManualInv => BlockedIsNoPass
  <2> SUFFICES ASSUME ManualInv, NEW r \in RunIds, NEW c \in Cases \ PushedTests,
                      c \in DOMAIN FinalResults(results[r]),
                      FinalResults(results[r])[c].outcome = "passed"
               PROVE  /\ AllRecorded(recorded[r][c])
                      /\ With("pass", recorded[r][c]) # {}
                      /\ With("pass", recorded[r][c]) \cup With("na", recorded[r][c]) = 1 .. Steps
    BY DEF BlockedIsNoPass
  <2> DEFINE outcome == OutcomeOf(recorded[r][c])
             only == IF Finished(r, c) THEN ResultOf(outcome.outcome) ELSE NoResult
  <2>1. KeptOf(r, c) /\ StoredOfTests
    BY DEF ManualInv
  <2>2. recorded[r][c] \in [1 .. Steps -> StepResults \cup {NotRecorded}]
    BY DEF ManualInv, ManualTypeOK
  <2>3. \A n \in Attempts : results[r][<< c, n >>] = IF n = 1 THEN only ELSE NoResult
    BY <2>1 DEF KeptOf
  <2>4. only # NoResult /\ FinalResults(results[r])[c] = only
    BY <2>1, <2>3, OnlyResult
  <2>5. Finished(r, c) /\ outcome.outcome = "passed"
    BY <2>4 DEF ResultOf
  <2>6. AllRecorded(recorded[r][c])
    BY <2>1, <2>5 DEF KeptOf
  <2> QED
    BY <2>2, <2>5, <2>6, PassedOnSteps
<1> QED
  BY <1>1, ManualInvariant, PTL

\* The run of a manual execution is still a run: it is opened, added to, closed with the verdict
\* of what is stored, and then stands.
THEOREM ManualRunsAreRecords == ManualSpec => IsRunRecord
<1>1. ManualInit => Record!Init
  BY RecordStart DEF ManualInit
<1>2. ManualInv /\ [ManualNext]_manualVars => [Record!Next]_Record!vars
  BY ManualKeepsRuns
<1> QED
  BY <1>1, <1>2, ManualInvariant, PTL DEF ManualSpec, IsRunRecord, Record!Spec

\* What testers add to a run while others push to it and finish it leaves its verdict the one
\* of what is stored, a PASS earned, and the run requests telling of their runs.
THEOREM ManualRunsAreJudged ==
  ManualSpec => [](VerdictIsOfStoredResults /\ PassIsEarned /\ RequestFollowsItsRuns)
<1>1. ManualInv => VerdictIsOfStoredResults /\ PassIsEarned /\ RequestFollowsItsRuns
  BY EarnedPasses DEF ManualInv, JudgedInv, RequestInv
<1> QED
  BY <1>1, ManualInvariant, PTL
=============================================================================
