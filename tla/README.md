# Verification of the results platform and the test kit around it

The repository is a test-automation kit. Most of it drives browsers and HTTP clients, reads and
writes files, or holds tests. A few parts keep state that several people and processes change at
the same time, and it matters that this state is right: a wrong verdict, a lost audit row or a
token that outlives its owner is not noticed until somebody relies on it. This directory holds
TLA+ models of those parts, the TLC configurations that check them, and TLAPS proofs.

Contents: [the system](#the-system), [the modules](#the-modules-and-the-code),
[the runs](#the-runs), [the proofs](#the-proofs), [where documents and code
differ](#where-documents-and-code-differ), [what is not modelled](#what-is-not-modelled),
[the plan](#plan), [how to run it](#how-to-run-it).

## The system

### The results platform (`qaplatform/`, on `results/store.py`)

A multi-tenant HTTP service on one SQLite file. CI jobs, testers, plugins and people on the command
line push runs and results to it, and it judges every run with the rules of `gate/integrity.py`.

| Part | State | Operations | Interacts with |
|---|---|---|---|
| Access: `rbac.py`, `auth/tokens.py`, part of `service.py`, `cli.py` | projects (archived or not), users, role bindings, tokens | authenticate, grant and remove a member, issue and revoke a token, create, update and archive a project, bootstrap | every request passes authentication and the one scope check; the command line works on the same file |
| Audited writes: `audit.py`, `service._write`, `results/store.transaction` | the audit log: one hash chain for each project | one write transaction around every change | every operation that changes state |
| Runs: `service.py`, `summary.py`, `results/store.py` | runs, results by (test, attempt), verdict rows, the run's verdict | create, append results, JUnit files and verdict rows, finish | run-trust gate; run requests |
| Run requests: `service.request_run`, `dispatch.py` | requests and their status | request, dispatch to GitHub | a CI system that takes the call, answers late, runs the job and pushes its run |
| Manual execution: `manual.py`, `service.py` | executions of cases, recorded steps | start, record, correct, finish | a run of its own, to which others may push too |
| Exploratory sessions: `exploratory.py`, `capture.py`, `service.py` | sessions, notes; the browser capture in the tester's process | start, note, end, abandon; capture, close | a run of its own |
| Retries: `client.py`, `service.idempotent` | stored responses by key; the client's attempts | send, time out, retry; look up, carry out, store | a network that loses and delays, a server that dies |
| Reading and ingest: `readers.py`, `ingest/`, `schemas/`, `queries/` | none of its own | queries, parsing | |

What is hard here:

* Several server processes and the command line write to one file. Some checks are made before the
  write transaction (authentication, scope, the archived flag), others inside it (last admin, the
  role a token may have, a run being open). Only the second kind holds up against another process.
* A run is filled by clients that retry, repeat and overtake each other, and by two more writers
  (manual executions and sessions) that use the same run in their own way.
* `request_run` calls the CI system inside the transaction, with the write lock held; the job it
  starts may push before, while, or long after the call returns, and the server may die during it.
* A keyed call takes three transactions, and the server may be gone between any two.
* The audit chain is built from what the transaction itself reads.

What makes it correct, in one sentence each:

* *Access.* A project keeps an admin; an active token has an owner who may hold it; a change is
  made by someone who may make it when it commits; a token of one project changes no other.
* *Audited writes.* A change and its audit row exist together or not at all, and each chain verifies.
* *Runs.* The verdict of a closed run is the one of what is stored for it; PASS is earned by tests
  that reported; no call of a client changes a closed run; an external id names one run.
* *Run requests.* A request tells of the runs that named it.
* *Manual execution.* A case counts for what its steps say; evidence, and only evidence, proves.
* *Sessions.* What a session records is recorded when it ends, exactly then, and is judged.
* *Retries.* A call is carried out once, and whoever is told that it was done can rely on it.

### The demo application (`demo_sut/`)

A subscription billing system that the kit's own tests run against. One lock is held around every handler
(`demo_sut/app.py`), so that a request is one step; a background thread is not under it while it sleeps.

| Part | State | Operations | Hard behaviour | Correct when |
|---|---|---|---|---|
| Ledger and scheduler: `billing.py`, `scheduler.py`, `clock.py` | transactions, booking jobs, invoices; the registration mode; a clock that tests move | schedule, register, void, book; run what is due, run the next; set the mode and the clock | jobs outlive what they were for; a chain registers its next link while a catch-up run is under way | a transaction is booked and invoiced once, when its job is due |
| Subscriptions: `subscriptions.py` | the head, one open draft (change, cancel, renew), versions | create, edit, submit, confirm; open, patch, accept, discard and confirm a draft; the renewal run | a draft is checked when it is opened and carried out later, on any effective day, around periods that are booked or not | what is charged is what was agreed, day by day |
| Messaging: `messaging.py` | outbox messages, generating jobs, sleeping threads | on-booked hook, generate, send | a thread sleeps outside the lock, and the store may be reset meanwhile, whose numbers begin again | one message for each origin; every job ends |
| Server, faults, pages: `app.py`, `store.py`, `faults.py`, `ui.py` | switchable faults | reset | | |

### The kit: workers, machines, stores

A test run is a pool of worker processes on one machine, or on several machines that each take a shard.

| Part | State | Operations | Hard behaviour | Correct when |
|---|---|---|---|---|
| Run-trust gate: `gate/integrity.py`, `gate/verdicts.py` | none | results and verdict rows in, a verdict out | thresholds 0 and 100, empty runs | no evidence is never PASS |
| Circuit breaker: `gate/circuit_breaker.py`, asked by `gate/pytest_plugin.py` | a reason in each worker, a trip file they share | record an answer, trip, ask | two trip at once; one dies while it writes the file; the file cannot be made, written or read | once tripped, all stop that can read the file |
| Retries of calls: `gate/http_retry.py`, `core/browser_resilience.py` | the call under way | fetch, retry, resume, abort, hand over | a fetch that failed may have arrived | a write is never sent again blindly |
| Allocation: `test_data/allocator.py` | files created once, under `claims/` and `rejected/` | claim for a test, reject | several workers look at, check and claim the same entity; one dies with a claim | an entity goes to one test; no test is refused while one is left |
| Shards: `gate/shard.py`, `gate/pytest_shard.py`, `gate/merge.py` | manifests of what was selected and what reported | plan, report, merge | every machine plans alone, from durations it was given; one is lost or stops early | each test in exactly one shard; a gap fails the merge |
| Recorder: `results/pytest_plugin.py` | a buffer, the attempts of the session; a store of runs | start a session, open and close an attempt, flush, finish | the process dies with a full buffer; the next session of the run goes on | a finished job tells of every test it selected |
| Bundles: `results/bundle.py` | exported snapshots of one run | export, import | jobs that number their invocations and attempts alone; old after new, and again | an import is a merge that loses nothing |
| Session tokens: `core/auth/` | a token file and a storage state on disk | load, save, log in | | one login for all workers |
| History, search, live documents, traceability, oracles, verification, checks, plugins, tools, `src/aurseal`, suites, generators, integrations | none of their own | pure functions of files, or wrappers of external tools | | |

`PROJECT.json` lists every part with its files and its status.

## The modules and the code

```
AuditLog ......... the chain of audit rows (audit.py)
  AuditedStore ... abstract: a change and its row in one step
  WriteTransaction the transaction of many steps, by several processes; implements AuditedStore
  Access ......... access tables and requests of servers and command lines (one step per transaction)
    AccessHistory  Access with the memory of whose request was overtaken
RunTrust ......... the rules a run is judged by (gate/integrity.py, summary.judge)
  Runs ........... runs and run requests; implements RunRecord
    RunRecord .... abstract: opened, added to, closed with its verdict, never touched again
    ManualRuns ... Runs with manual executions; its runs still implement RunRecord
    Sessions ..... Runs with exploratory sessions and captures
Idempotency ...... clients that retry, the network, the keyed server

Ledger ........... transactions, jobs and invoices as operators on a book (billing.py, scheduler.py)
  Subscriptions .. a subscription with its drafts over a ledger, the scheduler and the clock
Outbox ........... bookings, messages, sleeping threads and resets (messaging.py)

WorkerPool ....... the worker processes
  Allocation ..... entities handed to tests by files that are created once (allocator.py)
  Breaker ........ the circuit breaker and its trip file
  Resend ......... a call through the retrying route handler
    Workers ...... the three together: workers that take tests, and die
Shards ........... machines that plan alone, and the merge
Bundles .......... recorder sessions of several jobs, export and import

MC*               instances for TLC
*_proofs          theorems and proofs: WriteTransaction, Access, Runs (with ManualRuns and Sessions), Idempotency,
                  Demo (Outbox, Ledger, Subscriptions), Gate (Workers, Shards), Bundles
FiniteLemmas      least numbers, maxima, images and sums over finite sets, for the proofs
```

A definition named `Faulty...` stands before the one it is a mistaken version of. No action uses
it; put in the place of the right one it makes a property of the runs fail, which shows what the
property is there to catch.

**Granularity.** `WriteTransaction` takes a transaction apart into its steps and shows that nobody
can see into it. Every other module relies on that: a handler's transaction is one action, and
what the handler reads before or after it is an action of its own.

**AuditLog** (`audit.py`). A row hash is the row without the hash itself, so that two rows have equal hashes
exactly when they have equal contents: SHA-256 is taken to be injective. `NewRow`/`Record` is
`record`, `VerifyChain` is `verify_chain` with its numbering, linking and hash checks.

**WriteTransaction** (`service._write`, `SqliteResultsStore.transaction`). A process enters, takes the
write lock or runs into the busy timeout, changes two tables through nested store calls, reads the
head of the chain, builds and appends the row, and commits. Any exception, or the end of the process, rolls
back. A handler that finds its work done leaves without a row (`Replay`). The committed state
and what an open transaction sees are separate variables.

**Access**. `requests[s]` says how far process `s` is: idle, `authenticated` (the principal as `tokens.verify`
computed it) or `checked` (past `_scope` and the archived check). Then one action per service
method: `GrantMember`, `RemoveMember`, `IssueToken`, `RevokeToken`, `UpdateProject`,
`CreateProject`; `Push` stands for all writes that leave these tables alone. The command line's
commands start requests as the local operator; `token create` is a grant followed by an issue, in
two transactions, decided by a look at the bindings before both. `Abandon` is any refusal or failure.
**AccessHistory** adds `overtaken`, the processes during whose request somebody else changed what they had read (`HasRead`: what of the token
its principal was made from, and whether the project is archived); it restricts no step, so that `HistorySpec` implies `Spec`.

**RunTrust**. Outcomes, the tally, the rules with their thresholds, the verdict and the shortfall
rule of `summary.judge` as operators over the last attempt of each test.

**Runs**. One action per handler: `CreateRun` (with the replay of a known external id and the
request it names), `AppendResults`, `AppendVerdicts`, `FinishRun`, `RequestRun`. While a dispatch
call is out, `dispatching` holds the request and every other write waits (`Writable`), which is
what the open transaction does. `CiAccepts`, `Dispatched`, `Rejected` and `Crash` are the call, its
answer, a refusal or timeout, and the death of the server; a call that timed out may
still be taken later.

**ManualRuns**, **Sessions**. They extend `Runs` and add the tables and handlers of their own; the actions of
`Runs` stay enabled on the same runs, because the service does not tell them apart. The capture of
`capture.py` is a little machine beside it: it collects, closes and posts, note by note.

**Idempotency**. The client of `client.py` (send, time out, back off, give up), copies in flight that get
lost or arrive late, and the server that looks the key up, carries the call out and stores the
response, each in a transaction of its own. There is one server process: `http/app.py` runs `handle`, which is synchronous, inside its
event loop, and `serve` starts one worker, so that requests with a key are handled one after the other. Two processes on one database, which
the other modules allow, could both look a key up before either stores its response and carry the call out twice; no module shows that
case. What handlers recognise without a key (an external id, a test and attempt, a finished run) is in `Runs`.

**Ledger**. The three tables as one record, and each method of `billing.Ledger` and each scheduler call as an operator from a
book to the next: `Scheduled`, `Register` in both modes, `Void` of some transactions, `Book` with its invoice and the next link of the chain,
`AfterDue` (rounds over the due jobs until none is left, `Ran` one after the other) and `AfterNext`. Loops are recursive functions (`AllAttached`, `AfterDue`). Days are numbers, a period is `Period` days and a
price is a price per day, so that every pro-rata share is exact: real calendars, the day count conventions and rounding are
conversions the properties do not speak of, and tax and fees are sums that run beside the net amount.

**Subscriptions**. One action per handler over that book. `ConfirmChange` reprices what lies ahead (`Repriced`), charges the
difference for what is booked or begun (`Settled`, `ChangeNet`), or, when the start moves, voids the schedule and makes a new
one (`MovedBook`). `ConfirmCancel` ends what is not booked and credits the unearned part (`Unearned`). `ConfirmRenew` checks nothing: its check was
made by `OpenDraft`. Customers matter in two ways only: a transfer needs an acceptance, and a credit needs a payee.

**Outbox**. `Book` with the hook, `Generate` (a job and a thread), `Work` (the thread wakes: under the lock, in whatever world it finds),
`Send`, `Reset`. Rows are numbered by position, so a reset makes numbers begin again, as `Store.wipe` does.

**Allocation**, **Breaker**, **Resend**. Each has the granularity of the file system and the network: looking for a rejection and creating the
claim are two steps, and so are creating and writing the trip file, each of which may fail (`CreateFails`, `WriteFails`: the error is logged, and the
trip stays with its worker); a trip file that cannot be read stops nobody (`Unstopped`); a fetch that failed counts as sent. **Workers** puts them together as `conftest.py` and the
plugins do: a test is skipped when the breaker has a reason, otherwise claims its entity, sends its calls and records what was answered; a worker may die at
any step, and what it left in files stays.

**Shards**. `Plan(k, v)` is `plan_shards` on machine `k` that sees `v`: pinned tests as one unit (`Units`), weights (`Weights`, doubled, for the median), the
heaviest unit that is left (`First`) to the least loaded shard (`Place`), until none is left.
Machines may see different tests and durations. `Complete` is `check_complete` with the agreement of the collections.

**Bundles**. Per job a store and a recorder: `SessionStart`, `Begin` and `Close` of an attempt (with or without a flush), `Finish`, `Lose` (death, or
`_degrade`), `StartFails`. `Export` copies the run, `Import` renumbers (`NumberOf`, `AttemptOf`) and merges. What an attempt says is told apart by whose it is: the
n-th attempt in an invocation of a job. It is assumed that each job has its own store, that the sessions of one job follow one another, and that no two
invocations have the same start and arguments, which is what the code takes for the identity of one.

## The runs

All bounds are constants of the MC modules and configurations. `CHECK_DEADLOCK FALSE` is set
throughout, because each instance ends when its identifiers, rows or sendings are used up;
the real system has more of them.

| Run | Instance | Shows |
|---|---|---|
| `audited_write` | 3 processes, 2 projects, 4 rows | one row for each change (`OneRowPerChange`), chains verify, the transaction implements the atomic write (`Atomic`), every write ends |
| `access` | 1 server and 1 command line, 2 users, 2 tokens, 2 projects, one token of a project may expire while nothing is under way | last admin, token owners, tenants apart; authority when the change commits and archived projects read-only, save for a request that was overtaken |
| `runs` | 2 runs, 2 tests with 2 attempts, 1 external id | verdict of what is stored, PASS is earned, runs implement `RunRecord` |
| `manual_runs` | 1 run, 2 cases of 2 steps, pushes of results and of a coverage row under one of the cases, a finish with a smaller count | executions stay as finished, evidence proves, passes rest on passed steps |
| `sessions` | 2 runs, each a session's, a client's or a request's; 1 request with its dispatch call, 1 note, 1 captured error, a capture for one session | coverage exactly when ended, the run closed and judged with it, a request tells of its runs through late answers and crashes |
| `retries` | 3 calls (one without a key, two that share one on different routes), 2 sendings, 1 crash | a call with a key once, or once more for the crash; an answer can be relied on; every call ends |
| `subscriptions` | terms of 2 periods of 2 days, 3 versions, 2 prices, effective days 0, 3 and 5, a clock of 2 days, both modes | jobs match transactions, one invoice each, the sum charged is the sum agreed, the chain goes on, a renewal finds everything booked |
| `outbox` | 2 subscriptions, 3 transactions, 2 threads, 1 reset | one message for each origin and none of an old world; every generating job ends |
| `workers` | 2 workers, 3 tests, 2 entities, 1 retry, deaths at any step, any step on the trip file failing | an entity to one test, no idle entity when a test is refused, one error stops all who can read the trip file, no write twice |
| `shards` | 3 machines, 4 tests, 2 of them pinned, 8 views for each machine | plans of machines that see the same are a partition; complete means whole |
| `bundles` | a job with 2 sessions, 2 tests of which one is rerun, and 2 exports, and one with 1 session, test and export | a finished job tells of every selected test; imports lose nothing, unless two invocations got one number |
| `import_again` | the same as `bundles` | the difference described [below](#where-documents-and-code-differ) |

Why the bounds are enough to be interesting:

* Two processes race for a lock, a binding or a chain; a third lets one wait while two race, and is
  the smallest number with which fairness of the lock could matter. Four rows put two in each chain
  and let a chain be extended after the other one was.
* Two users let each be the other's fellow admin; the second project gives a token somewhere it must
  not reach. Two tokens of one user must both be revoked when the user is removed.
* Two attempts let a rerun replace a first failure; two tests let one of them be missing, skipped
  or an expected-red detector; the thresholds of `runs` are 2 executed, 50 %, 1 and 1, so that
  each rule is met and breached (the fourth only breached: the platform is given no fixture rows, so that a test that
  needs acquired data never passes on any). `manual_runs` and `sessions` set the executed
  threshold above what can be reached, so that the other rules decide.
* Two runs for one request: one may be pushed before the answer of the dispatch call, and it can be run again.
* Two sendings through a crash give a late copy, a repeated one and a lost answer. (The proofs below
  are for all numbers.)

* A term of two periods has one that is booked or begun and one that is not; effective day 3 is in the middle of the second, 5 in the first period of
  the renewed term, and 0 on a border. Three versions are a change or renewal, and another one or a closure on top of it. The price differs by version, so that
  a day charged at the wrong one shows in the sum.
* Two threads sleep through one reset: one belongs to the old world, one to the new, and both may hold the same job number.
* Three tests for two entities: one is refused. Two workers race for each file; a third would only wait.
* Three machines: two may agree against a third. Durations are missing, tied, zero or spread, so that the median and the tie-break decide.
* Two jobs, one of them with two invocations, are the least with which a renumbered one meets one that kept its number.

`MCAccess` leaves the audit log out of the state it compares (`VIEW`, which keeps `overtaken`): no guard reads the log and the
properties look only at the row the step itself appends. `MCBundles` lets job b work first, then job a, then the imports: the jobs share nothing and an import
reads only bundles and the platform's store, so every order has the same stores and imports as one of these; its view forgets a job's store once it is read no more.
Tokens, runs, workers and tests are symmetric where nothing orders them. `MCSubscriptions` starts with a customer who may be paid; a transfer leads to one who may not.

**Fairness.** Three runs have it. `audited_write`: a process that is inside its transaction goes on
(weak fairness of each process's own steps), and one that waits gets the lock or its busy timeout
(`PRAGMA busy_timeout` guarantees the second). Nothing is assumed about who gets the lock. `retries`: the
client's timeout ends a wait and its sleep ends (`requests` timeouts and `time.sleep`); nothing
is assumed about the network or the server. `outbox`: a thread that sleeps wakes up (`time.sleep` in a thread of the running
process), each one for itself; nobody has to book, send or reset.

**Overtaken requests.** A token is verified and the archived flag is read before the transaction begins. With a command line at
work in the same moment a change may therefore be made by somebody who lost the right to it during that very request. The documents promise "at
once" and "every write answers 409", which the window of one request does not contradict. `AccessHistory` marks the processes during whose request somebody
else changed what they had read (`overtaken`), and `AuthorityAtCommit` and `ArchivedIsReadOnly` speak of steps of the others: whatever begins after a revocation,
a demotion or an archiving is refused. That a token expires does not overtake anybody: time is read once, when the request is authenticated.

**What the sum means.** `ChargedAsAgreed` is stated for versions that take effect in the order they are made, and a start that is not moved after a change
(`Orderly`). The agreement itself is ambiguous otherwise: a second change dated before the first one is carried out on prices of which the first is
already a part, and moving the start voids the schedule and keeps the CHANGE transactions made on it.

## The proofs

TLAPS proves these for every value of the constants that meets the named assumptions.

| Module | Theorems |
|---|---|
| `WriteTransaction_proofs` | `TypeCorrect`; `Refinement` (the transaction implements `AuditedStore`); `ChainsAlwaysVerify`; `OneRowForEachChange` |
| `Access_proofs` | `TypeCorrect`; `CreatedProjectKeepsAdmin`; `LastAdminStays`; `ActiveTokenIsOwned`; `TokenKeepsToItsProject`; of `AccessHistory`: `AuthorityHoldsAtCommit`, `ArchivedStaysReadOnly`, `HistoryIsAccess` |
| `Runs_proofs` | `RunsTypeCorrect`; `VerdictsAreOfStoredResults`; `RunsAreRecords` (`Runs` implements `RunRecord`); `ExternalIdsAreUnique`; `RequestsFollowTheirRuns`; `PassesAreEarned`; of `Sessions`: `SessionsTypeCorrect`, `CoverageComesFromTheEnd`, `SessionsLeaveClosedRuns`, `RequestsSurviveSessions`; of `ManualRuns`: `ManualTypeCorrect`, `ExecutionsStandOnTheirSteps`, `ProofRestsOnEvidence`, `BlockedNeverPasses`, `ManualRunsAreRecords` (`ManualRuns` implements `RunRecord`), `ManualRunsAreJudged` |
| `Idempotency_proofs` | `TypeCorrect`; `KeyedCallsOnce`; `AnsweredCallsAreDone` |
| `Demo_proofs` | of `Outbox`: `TypeCorrect`, `OneMessageForEachBooking`; of `Subscriptions` and `Ledger`: `SubTypeCorrect`, `JobsAlwaysMatch`, `InvoicedExactlyOnce`, `ChainAlwaysContinues`, `RenewedOnlyWhenBooked`, `AlwaysChargedAsAgreed` |
| `Gate_proofs` | of `Workers`: `WorkersImplement` (a run of workers is a run of `Allocation`, of `Breaker` and of `Resend`), `TypesCorrect`, `EntitiesAreClaimedOnce`, `NoEntityStaysIdle`, `ErrorStopsAll`, `WritesLeaveOnce`; of `Shards`: `ShardsTypeCorrect`, `MergesAreWhole`, `MachinesAgree` |
| `Bundles_proofs` | `FinishedRunsAreComplete`; `NothingIsLost` |

*Audited writes.* `WorkInv` says of each phase what the transaction has done so far: an open transaction holds the
lock, and its view is the committed state plus the changes its phase tells. So at most one is open, and what
commits is one whole change and its row. From it the step simulation to `AuditedStore` follows: only `Commit` is a step
there, the others stutter. `LogInv` describes a good log (numbers, links, hashes), is kept by
appending a row built from the log's own head, and implies that `verify_chain` finds nothing.

*Access.* `CreatedProjectHasAdmin` and `ActiveTokenHasOwner` are inductive with `TypeOK`. The
reason is worth knowing: both guards, the last-admin check and the check of the owner's role, read the
tables inside the transaction that changes them, so no knowledge about requests in flight is needed.
`TokenStaysInProject` does need it, since the token's project is compared with the call's before the transaction: `RequestsInFlight` says that a
request's token was issued for the project its principal names and that a checked call is in a project the principal can see. It stays true while
others commit because the project of a token never changes once it is issued (`TokenProjectStays`). `LogIsSequence` identifies the row a step appends.
`AuthorityAtCommit` and `ArchivedIsReadOnly` need to know of every request that is not overtaken that what it has read is still so (`Current`), and of every
request that the checks it has passed are passed for good (`Settled`): `HistoryInv`. A step of another process either leaves `HasRead` alone, and `Current` with
it, or makes the request an overtaken one; a request's own step reads.

*Runs.* Each client step opens one run, adds to one, closes one, or changes none; four predicates say what
that means, each action implies one, and the properties of runs follow from the predicates. `VerdictIsOfStoredResults`
needs that an open run has no verdict. `PassIsEarned` is the same invariant and a case analysis of the rules: a
breached rule fails, no rule that applies leaves the run unjudged, and each that applies and is not breached names an executed test or a
decided defect; it holds for all thresholds, those that switch rules off included. `RequestFollowsItsRuns` needs `NotYetStored`:
while the dispatch call is out, the request's row is not committed and no run can have named it. That is why the answer
cannot overwrite what a run has reported.

*Manual runs.* `KeptOf` says what is kept of one case of one run: a finished execution recorded every step and stands as its outcome says, a proved coverage row
has its evidence, and a case nobody else pushes under has its one result from its own end. `ManualInv` is that for every case together with the invariants of
`Runs`, which the steps of `Runs` and the handlers of `ManualRuns` both keep. The pushes of other clients are the reason for the sets in its statements:
`BlockedIsNoPass` is false of a case in whose place a client may push.

*Sessions.* `SessionsInv` adds to the two promises what they rest on: a session's run is its own and no request's, and a closing capture has something to
post. The steps of `Runs` keep it by the four kinds of steps above (`RunsKeepSessions`), since a client adds no row under a session's node
id and changes no closed run. Ending a session closes a run past the checks of `FinishRun`; that a request still tells of its runs
(`RequestsSurviveSessions`) follows because no request ever named that run.

*Idempotency.* A keyed call may be carried out again only if nothing is stored, nothing is about to
be, and it is not at rest, and then the server died once for each time it was carried out (`Keyed`).
`KeyedCallsOnce` needs nothing about who else uses the key. `AnsweredCallsAreDone` assumes that calls which share a key have
different routes; without that it is false ([below](#where-documents-and-code-differ)).

*Outbox.* `OneMessagePerBooking` is inductive with the type invariant. Threads change the status of messages and nothing else (`SameButStatus`), which is why
one that wakes in the wrong world does no harm to it.

*Workers.* Each of the three components has an inductive invariant of its own: what was handed out is claimed and what a search has passed over
has a reason (`Considers`); a worker done with a trip has left a file or met an error, and an empty file has a writer or was left by one (`BreakerInv`); a call was sent at most once more than it was
answered. `WorkersImplement` carries them over to the composition: a step of `Workers` is a step of each component or leaves it alone.

*Shards.* The manifests say what the machines did (`Manifested`). That a complete merge is whole follows without a word about plans: whatever each machine selected, the
merge compares what all collected with what reported. That the plans of machines which see the same are one partition (`PlansAgree`) is an induction over the
units placed: after each, what is left and the bins divide the collected tests, and a placed unit is whole in one bin (`Divided`). The plan is a recursive function
over the number of units, so that this is a least counterexample among those numbers; that a heaviest unit exists and is one (`First`), and so is the least loaded
shard, rests on `Extremes`.

*Ledger.* `Consistent` says that the tables of a book agree: waiting transactions have no job, scheduled ones the pending job of their first day and pending jobs a
scheduled transaction, booked ones exactly one invoice of their amount. Each operation keeps it (`AttachedBook`, `BilledBook`, `VoidBook`, `AddedBook`,
`AdjustedBook`), and each loop by a least counterexample over its rounds (`AllAttachedBook`, `DueBook`). `Onwards` says what registering and booking never do: no
first day changes and nothing booked or voided is anything else again. `Chained` is the chain: every operation that books or registers leaves it whole.

*Subscriptions.* `SubInv` joins that with the head and its draft: there is an open draft only while the subscription is changing, and if it is a renewal, then what
begins before the end of the term is booked (`HeadAgrees`). The last is what `RenewedWhenBooked` needs: `_confirm_renew` checks nothing, but while a draft is open
no other handler writes to the ledger, and the scheduler only goes `Onwards`. It holds for both modes and switches between them; `ChainContinues` is kept
until the mode is switched over transactions.

*What is charged.* `AlwaysChargedAsAgreed` compares two sums, one over the transactions and one over the days, so the invariant says it of every day and not only in all:
what is owed from a day on (`OwedFrom`) is what is agreed from it on (`Balanced`). It is inductive with four facts about the book. Every amount is a rate per day (`Exact`), which is why
the shares of `_unearned` and of a clipped period divide without a rest. The periods of the terms have every day between the first and the end of the last once (`Tiled`). They are booked
in the order of their days (`InOrder`), and what is not booked of the periods after the last change is at the last price (`PricedAhead`); these two are what a change needs, which carries the difference for
the periods that are booked or have begun and gives the others the new price, at whatever price they were. The versions are
`History` as long as they are `Orderly` and none closes: a new one changes the price from its day on and no earlier one. Each handler then adds the same to
both sides: a term its days at its price (`TermAdded`, `AgreedRenewal`), a change the difference from its day on (`ChangedAmounts`, `AgreedChange`), and a closure
takes away all that is owed from its day on (`EndedAmounts`, `AgreedClosure`). After a closure only the total is left of it (`ClosureTotal`). A move of the start
finds no change before it, by `Orderly`, so all that stays from before it comes to nothing (`Zeros`).

*Bundles.* A session's rows are numbered: of each test, from the offset it found when it began, one after the other, whether they are stored or in the
buffer (`Numbered`), and when a session ends nothing is in the buffer. A crash takes the buffer and with it numbers nobody has seen, so that the next
session's offsets are right again. `JobInv` says this of one job and `BundlesInv` of all. For the platform the run of a job must be more, a log (`IsLog`): its
invocations are numbered from 1, the attempts of a test too and in the order of the invocations, and of two states of it one goes on from the other (`Leads`), so that
the bundles of a job are states of one log (`LogInv`). `PlatformInv` is about what was merged from them. Every row is one of an imported bundle and every row of those is
there (`Chronicle`), under its invocation, and of one job in its order. The invocations are numbered without a gap, none lower than in its own job (`Numbering`). This last part
is what makes an import go well when it was not told to give one number twice: either all that is new is renumbered, or the platform holds this job alone (`AllTakenOrAlone`), where numbers
and attempts are the job's own (`OneJobOnly`). Then a row is held under the attempt its position gives, or follows all that are stored (`AttemptsAfter`). `NothingLost` follows because
a bundle tells what the platform does up to its own last row (`Continued`), and two listings of which that is true are a prefix of each other (`ContinuedTold`).

*Finite sets.* `FiniteLemmas` has what the library of the prover lacks: a nonempty set of naturals has a least element (all inductions here are least
counterexamples, because its induction theorems take an operator), a finite nonempty set of integers has a maximum and a minimum, the image of a finite set is
finite. Its second half is about sums over finite sets: of integers, of two sets, of a part, scaled, term by term and over days, each by the least subset for which it would be false.

Only model-checked: the liveness properties `EveryWriteEnds`, `EveryCallEnds` and `GenerateEnds`, since liveness under
fairness is out of reach of the prover. Every other property of a passing run is a theorem.

## Where documents and code differ

One difference has a run in which TLC finds it.

* `import_again`. "Importing a bundle twice changes nothing" (`results/bundle.py:11`), a merge "without losing anything" (`results/bundle.py:325`), "importing
  either bundle again adds nothing" (`docs/features/results-store.md:108-109`). When a bundle has two invocations and the number of the first is taken, the first gets the next number
  after all that are stored, which may be the one the second keeps because it is still free (`results/bundle.py:343`). One of the two is dropped, with attempts, and the
  next import of the same bundle adds what was lost. It takes a job that runs pytest more than once under one run id, which the repository's own workflow does.

Met while modelling and visible in the models, without a run of their own:

*Platform.*

* The link a run makes to its request "moves the request to `running`, and finishing the run moves it to `finished`" (`docs/integration_api.md:166-168`), and
  `wait_for_run_request` polls "until the request is finished, failed or rejected" (`qaplatform/client.py:246`). When a CI job is rerun, the second run takes the request over
  (`run_id`, `qaplatform/service.py:289`); finishing the first one afterwards still moves the request (`:508`), which then says finished and shows a run that is open.
  With one run a request follows it; with several, `RequestFollowsItsRuns` promises that some run of the request ended as it says, not that the one it shows did.
* `wait_for_run_request` takes finished, failed and rejected for final (`qaplatform/client.py:243`). `create_run` sets the request to running whatever it was, so a
  request rejected because the answer came too late runs when its job pushes.
* "A case nobody finished keeps the run UNJUDGED, never PASS" (`docs/features/manual_execution.md:15-16`). `finish_run` takes an `expected_count` from the
  caller that replaces the number of cases.
* Finishing a finished run returns it unchanged, and appending to it is refused. `end_session` does both to the session's run without looking at its status.
* A key reused for a different request is a 409 (`docs/integration_api.md:67`). The route that is
  compared is the template, so the same key for another run's evidence is answered from the store and not carried out.
* `token create` on the command line looks for a binding and grants one in two transactions; a role granted in between is replaced
  (`CliTokenCreate`, `GrantMember`).
* The server may die after the CI system took the call and before the request is committed (`qaplatform/service.py:715`): the job's run then names a request nobody
  knows and is refused (`Crash` of `Runs`).
* A result pushed under the key of a manual case, before the case is finished, is kept in place of the case's own (`Store` leaves
  what is there). `BlockedIsNoPass` therefore speaks of the cases nobody pushes under.
* Results can be pushed to the run of a session, which is then judged on them and no longer UNJUDGED.
* A capture that is refused one note, because its session has ended, drops the rest (`Refused` of `Sessions`).
* `Idempotency-Key` makes a call happen once unless the server dies between carrying it out and storing the response; `KeyedOnce` states the
  exact bound, for one server process. A session note has no key, so its retry may store it twice.

*Demo application.*

* `patch_draft` replaces the new owner and keeps `ownership_accepted` (`demo_sut/subscriptions.py:604`, `:625`): a transfer is confirmed on another owner's acceptance.
* `set_mode` registers nothing (`demo_sut/scheduler.py:32`). Switched from one at a time to all, a chain stops once its one registered transaction is booked, which is what
  `oracles/job_registration.py:13-15` calls silently stalled. `ChainContinues` is stated for a mode that is not switched.
* A thread that wakes after a reset marks the job that has its old number as done, whatever that job is (`demo_sut/messaging.py:210`).

*Kit.*

* "A trip in one worker is written to disk and every other worker sees it before its next test" (`gate/circuit_breaker.py:22-24`), "so every worker abstains"
  (`docs/features/run-gate.md:239-240`). A worker that dies between creating the trip file and writing it, or cannot write it, leaves it empty. Nobody reads an empty file as a
  trip, and every later trip finds a file and counts as shared (`:242`): from then on each worker stops for its own trip only. `TripIsShared` excepts this (`torn` of `Breaker`).
* An `OSError` at the trip file is only logged (`gate/circuit_breaker.py:244`), and a file that cannot be read is no trip (`:281`): a worker that trips on a full or
  read-only disk stops alone. `TripIsShared` says so: it excepts a worker that could make no file, and speaks of what the file says.
* `gate/http_retry.py` tells callers to hand the gateway errors they discard to the breaker; the handler in `conftest.py` only logs them. `Record` takes the answer the page was given.
* A browser call whose fetch fails is resumed when it is a GET and aborted when it is a HEAD or OPTIONS, which the retry policy counts among the reads. `Methods` of `Resend` knows GET only.
* An entity may be rejected between another worker's look for a rejection and its claim (`test_data/allocator.py:105`): it is then rejected and claimed.
* When two machines plan from different durations, a test may run on both, and the merge does not say so (`PlansAgree` speaks of machines that see the same, `CompleteIsWhole` of gaps).
* A worker that finds an expired token deletes the file by its name (`core/auth/session_token_store.py:179`), which may by then hold the token another worker has just saved; `ui_login.py`
  decides by whether that file exists. Not modelled.
* The last import decides a run's status, end and verdict: the bundle of a job that died in its session puts a finished run back to running (`Import` of `Bundles`).

## What is not modelled

* In the platform: evidence links, tickets and the origin of a run, attachments of notes, a session's time box, the shape of request bodies and their
  schemas, and everything that only reads. No rule reads the first four; the rest has no state.
* Time, except as "the token has expired", "the timeout is over" and "24 hours have passed".
* The database and the network beneath: SQLite's lock, commit and rollback are modelled by what they guarantee.
* In the demo application: payments, journal lines, explicit rebooking, note drafts, documents, customers beyond the two facts above, tax, fees, rounding, day counts and calendars, the
  injected faults (wrong on purpose; one of them is a mutant of `AfterNext`), and the pages.
* In the kit: hosts, exemptions and pauses of the breaker and the retry policy (an answer is harmless, an upstream's, or an error); streaming reads, which are passed on untouched as unprotected calls are; the pages of
  the allocator's listing; lanes and the merging of report files; the cases, revisions, evidence and verdict rows of bundles.
* The parts marked *not_modelled* in `PROJECT.json`: those that wrap external tools, render or parse files, compute decimals, dates and text from their arguments alone, or
  consist of tests and data. They have no protocol to check: each reads its input once and answers. They are most of the repository's lines.

## Plan

Built, in this order: `AuditLog`, `AuditedStore`, `WriteTransaction` and its proofs; `Access` and its proofs; `RunTrust`,
`RunRecord`, `Runs` and its proofs; `ManualRuns`; `Sessions`; `Idempotency` and its proofs; `Ledger` and `Subscriptions`; `Outbox` and its proofs;
`Allocation`, `Breaker`, `Resend`, `Workers` and their proofs; `Shards` and its proofs; the proofs of `Sessions`; `Bundles`; `AccessHistory`; the proofs of
`ManualRuns`, of the two promises of `AccessHistory`, of the recorder and the platform of `Bundles`, of the plans of `Shards`, and of `Ledger` and `Subscriptions`.

Left: `SessionTokens` (two workers that log in, a clock); the cleanup ledger of `test_data/`.

## How to run it

In this directory, with the TLA+ tools and the community modules on the path:

```
tlc -workers 2 -config MCRuns_runs.cfg MCRuns      # one run; PROJECT.json lists module and cfg
tlapm Runs_proofs.tla                              # one module of proofs
```
