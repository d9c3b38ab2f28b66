------------------------------- MODULE Outbox -------------------------------
(***************************************************************************)
(* The outbox of the demo application (demo_sut/messaging.py): a booking   *)
(* hands a message over, a background thread generates the files of the    *)
(* new ones, and sending ends them.  Requests hold the lock of the store   *)
(* (demo_sut/app.py), and so does a thread once it has slept; resetting    *)
(* the application empties the tables, whose numbers begin again, and      *)
(* leaves the threads alone.                                               *)
(*                                                                         *)
(* Transactions and jobs are those of Ledger, with what the outbox reads   *)
(* of them; ledger and outbox share the table of jobs.                     *)
(***************************************************************************)
EXTENDS Integers, Sequences, FiniteSets

CONSTANTS
  Subs,       \* the subscriptions
  Origins,    \* what transactions come from: kind and version, or a draft
  NoFilter,   \* a request that names no subscription
  MaxTxs,     \* a bound: the transactions of one world
  MaxJobs,    \* a bound: the jobs of one world
  MaxWorkers, \* a bound: the threads asleep at a time
  MaxResets   \* a bound: the resets

ASSUME OutboxAssumption ==
  /\ NoFilter \notin Subs
  /\ MaxTxs \in Nat /\ MaxJobs \in Nat /\ MaxWorkers \in Nat /\ MaxResets \in Nat

VARIABLES
  world,    \* auxiliary: the number of resets
  txs,      \* the table of transactions
  jobs,     \* the table of jobs
  messages, \* the table of messages
  workers   \* the threads that sleep: the number of their job and their filter

tables == << txs, jobs, messages >>
outboxVars == << world, tables, workers >>

Filters == Subs \cup {NoFilter}
Statuses == {"NEW", "TO_BE_SENT", "SENT", "FAILED"}
Tx == [sub : Subs, origin : Origins, state : {"SCHEDULED", "BOOKED"}, job : Nat \ {0}]
Job == [kind : {"BOOK_TRANSACTION", "GENERATE_MESSAGES"},
        state : {"PENDING", "RUNNING", "DONE"}]
Message == [sub : Subs, origin : Origins, tx : Nat \ {0}, status : Statuses]
Worker == [job : Nat \ {0}, filter : Filters, of : Nat]

OutboxTypeOK ==
  /\ world \in Nat
  /\ txs \in Seq(Tx) /\ jobs \in Seq(Job) /\ messages \in Seq(Message)
  /\ workers \subseteq Worker
  /\ \A t \in DOMAIN txs : txs[t].job \in DOMAIN jobs

OutboxInit ==
  /\ world = 0
  /\ txs = << >> /\ jobs = << >> /\ messages = << >>
  /\ workers = {}

Named(m, filter) == filter = NoFilter \/ messages[m].sub = filter

-----------------------------------------------------------------------------
\* A transaction and its booking job.
Schedule(s, o) ==
  /\ Len(txs) < MaxTxs /\ Len(jobs) < MaxJobs
  /\ txs' = Append(txs, [sub |-> s, origin |-> o, state |-> "SCHEDULED", job |-> Len(jobs) + 1])
  /\ jobs' = Append(jobs, [kind |-> "BOOK_TRANSACTION", state |-> "PENDING"])
  /\ UNCHANGED << world, messages, workers >>

\* on_booked: nothing, if the subscription has a message of that origin.  (FaultyKnown looks
\* among those that are still new.)
FaultyKnown(t) ==
  \E m \in DOMAIN messages : /\ messages[m].sub = txs[t].sub
                             /\ messages[m].origin = txs[t].origin
                             /\ messages[m].status = "NEW"
Known(t) ==
  \E m \in DOMAIN messages : messages[m].sub = txs[t].sub /\ messages[m].origin = txs[t].origin

NewMessage(t) == [sub |-> txs[t].sub, origin |-> txs[t].origin, tx |-> t, status |-> "NEW"]

\* book, with its hook.  run_due books several in one request: as many steps of this, with
\* nothing between them.
BookTx(t) ==
  /\ txs[t].state = "SCHEDULED"
  /\ txs' = [txs EXCEPT ![t].state = "BOOKED"]
  /\ jobs' = [jobs EXCEPT ![txs[t].job].state = "DONE"]
  /\ messages' = IF Known(t) THEN messages ELSE Append(messages, NewMessage(t))
  /\ UNCHANGED << world, workers >>

\* generate: a job and the thread that is to do it.
Generate(filter) ==
  /\ Len(jobs) < MaxJobs /\ Cardinality(workers) < MaxWorkers
  /\ jobs' = Append(jobs, [kind |-> "GENERATE_MESSAGES", state |-> "RUNNING"])
  /\ workers' = workers \cup {[job |-> Len(jobs) + 1, filter |-> filter, of |-> world]}
  /\ UNCHANGED << world, txs, messages >>

\* work: the thread wakes up.  Without its job it ends; otherwise it generates what is new
\* and puts the job to done, whichever job now has the number.  (FaultyWoken ends also when
\* there is nothing new.)
Generated(filter) ==
  [m \in DOMAIN messages |->
     IF messages[m].status = "NEW" /\ Named(m, filter)
     THEN [messages[m] EXCEPT !.status = "TO_BE_SENT"] ELSE messages[m]]

FaultyWoken(w) ==
  /\ w.job \in DOMAIN jobs
  /\ \E m \in DOMAIN messages : messages[m].status = "NEW" /\ Named(m, w.filter)
Woken(w) == w.job \in DOMAIN jobs

Work(w) ==
  /\ workers' = workers \ {w}
  /\ messages' = IF Woken(w) THEN Generated(w.filter) ELSE messages
  /\ jobs' = IF Woken(w) THEN [jobs EXCEPT ![w.job].state = "DONE"] ELSE jobs
  /\ UNCHANGED << world, txs >>

\* send: every message that is due; some cannot be written.
Send(filter) ==
  /\ \E failing \in SUBSET DOMAIN messages :
       messages' = [m \in DOMAIN messages |->
         IF messages[m].status = "TO_BE_SENT" /\ Named(m, filter)
         THEN [messages[m] EXCEPT !.status = IF m \in failing THEN "FAILED" ELSE "SENT"]
         ELSE messages[m]]
  /\ UNCHANGED << world, txs, jobs, workers >>

\* reset.
Emptied == txs' = << >> /\ jobs' = << >> /\ messages' = << >>

Reset ==
  /\ world < MaxResets
  /\ world' = world + 1
  /\ Emptied
  /\ UNCHANGED workers

OutboxNext ==
  \/ \E s \in Subs, o \in Origins : Schedule(s, o)
  \/ \E t \in DOMAIN txs : BookTx(t)
  \/ \E f \in Filters : Generate(f) \/ Send(f)
  \/ \E w \in workers : Work(w)
  \/ Reset

OutboxSpec == OutboxInit /\ [][OutboxNext]_outboxVars

\* The operating system lets a thread that sleeps wake up.
Awake(j, f, n) == LET w == [job |-> j, filter |-> f, of |-> n] IN w \in workers /\ Work(w)
FairSpec ==
  OutboxSpec /\ \A j \in 1 .. MaxJobs, f \in Filters, n \in 0 .. MaxResets : WF_outboxVars(Awake(j, f, n))

-----------------------------------------------------------------------------
\* Every booking has exactly one message of its origin, and every message comes from a booking
\* of this world: none is sent twice for two periods of one schedule, none is lost, and none
\* of before a reset is there after it, whatever threads are still asleep.
OneMessagePerBooking ==
  /\ \A t \in DOMAIN txs : txs[t].state = "BOOKED" => Known(t)
  /\ \A m, n \in DOMAIN messages :
       messages[m].sub = messages[n].sub /\ messages[m].origin = messages[n].origin => m = n
  /\ \A m \in DOMAIN messages :
       LET t == messages[m].tx
       IN  /\ t \in DOMAIN txs /\ txs[t].state = "BOOKED"
           /\ messages[m].sub = txs[t].sub /\ messages[m].origin = txs[t].origin

\* A job that generates ends, or a reset forgets it: whoever polls it (POST
\* /api/messages/generate answers 202 and a job) is not left waiting.
GenerateEnds ==
  \A j \in 1 .. MaxJobs :
    (j \in DOMAIN jobs /\ jobs[j].state = "RUNNING")
      ~> (j \notin DOMAIN jobs \/ jobs[j].state # "RUNNING")

=============================================================================
