---------------------------- MODULE Demo_proofs ----------------------------
(***************************************************************************)
(* Proofs about the demo application: Outbox, for any subscriptions,       *)
(* origins and bounds; Ledger, for any period; and Subscriptions, for any  *)
(* terms, prices, customers, days and changes: first that its tables       *)
(* agree, then that what it charges is what was agreed.                    *)
(***************************************************************************)
EXTENDS Outbox, Subscriptions, FiniteLemmas, SequenceTheorems

-----------------------------------------------------------------------------
(* The outbox. *)

\* What is generated or sent differs from what was there in its status only.
SameButStatus ==
  /\ DOMAIN messages' = DOMAIN messages
  /\ \A m \in DOMAIN messages :
       /\ messages'[m].sub = messages[m].sub
       /\ messages'[m].origin = messages[m].origin
       /\ messages'[m].tx = messages[m].tx

LEMMA SameDomain ==
  ASSUME NEW S, NEW s \in Seq(S), NEW g \in [DOMAIN s -> S] PROVE g \in Seq(S)
<1>1. Len(s) \in Nat /\ DOMAIN s = 1 .. Len(s)
  OBVIOUS
<1> QED
  BY <1>1

LEMMA GeneratedType ==
  ASSUME NEW f, messages \in Seq(Message)
  PROVE  Generated(f) \in Seq(Message)
<1>1. \A m \in DOMAIN messages : messages[m] \in Message
  OBVIOUS
<1>2. Generated(f) \in [DOMAIN messages -> Message]
  BY <1>1 DEF Generated, Message, Statuses
<1> QED
  BY <1>2, SameDomain

LEMMA DoneJob ==
  ASSUME jobs \in Seq(Job), NEW j \in DOMAIN jobs
  PROVE  /\ [jobs EXCEPT ![j].state = "DONE"] \in Seq(Job)
         /\ DOMAIN [jobs EXCEPT ![j].state = "DONE"] = DOMAIN jobs
<1>1. \A i \in DOMAIN jobs : jobs[i] \in Job
  OBVIOUS
<1>2. [jobs EXCEPT ![j].state = "DONE"] \in [DOMAIN jobs -> Job]
  BY <1>1 DEF Job
<1> QED
  BY <1>2, SameDomain

LEMMA AppendedJobs ==
  ASSUME jobs \in Seq(Job), NEW job \in Job
  PROVE  /\ Append(jobs, job) \in Seq(Job)
         /\ DOMAIN Append(jobs, job) = DOMAIN jobs \cup {Len(jobs) + 1}
  OBVIOUS

LEMMA TypedInit == OutboxInit => OutboxTypeOK
  BY DEF OutboxInit, OutboxTypeOK

LEMMA TypedStep == OutboxTypeOK /\ [OutboxNext]_outboxVars => OutboxTypeOK'
<1> SUFFICES ASSUME OutboxTypeOK, [OutboxNext]_outboxVars PROVE OutboxTypeOK'
  OBVIOUS
<1> USE DEF OutboxTypeOK
<1>1. ASSUME NEW s \in Subs, NEW o \in Origins, Schedule(s, o) PROVE OutboxTypeOK'
  <2> DEFINE tx == [sub |-> s, origin |-> o, state |-> "SCHEDULED", job |-> Len(jobs) + 1]
             job == [kind |-> "BOOK_TRANSACTION", state |-> "PENDING"]
  <2>1. tx \in Tx /\ job \in Job
    BY DEF Tx, Job
  <2>2. /\ jobs' \in Seq(Job)
        /\ DOMAIN jobs' = DOMAIN jobs \cup {Len(jobs) + 1}
    BY <1>1, <2>1, AppendedJobs DEF Schedule
  <2>3. txs' = Append(txs, tx)
    BY <1>1 DEF Schedule
  <2>a. /\ txs' \in Seq(Tx)
        /\ DOMAIN txs' = DOMAIN txs \cup {Len(txs) + 1}
        /\ \A t \in DOMAIN txs : txs'[t] = txs[t]
        /\ txs'[Len(txs) + 1] = tx
    <3> HIDE DEF tx
    <3> QED
      BY <2>1, <2>3
  <2>4. /\ txs' \in Seq(Tx)
        /\ \A t \in DOMAIN txs' : txs'[t].job \in DOMAIN jobs'
    BY <2>2, <2>a
  <2> QED
    BY <1>1, <2>2, <2>4 DEF Schedule
<1>2. ASSUME NEW t \in DOMAIN txs, BookTx(t) PROVE OutboxTypeOK'
  <2>1. /\ txs' \in Seq(Tx) /\ DOMAIN txs' = DOMAIN txs
        /\ \A u \in DOMAIN txs : txs'[u].job = txs[u].job
    <3>1. \A u \in DOMAIN txs : txs[u] \in Tx
      OBVIOUS
    <3>2. /\ txs' \in [DOMAIN txs -> Tx]
          /\ \A u \in DOMAIN txs : txs'[u].job = txs[u].job
      BY <1>2, <3>1 DEF BookTx, Tx
    <3> QED
      BY <3>2, SameDomain
  <2>2. jobs' \in Seq(Job) /\ DOMAIN jobs' = DOMAIN jobs
    BY <1>2, DoneJob DEF BookTx
  <2>3. messages' \in Seq(Message)
    <3>1. txs[t] \in Tx /\ t \in Nat \ {0}
      OBVIOUS
    <3>2. NewMessage(t) \in Message
      BY <3>1 DEF NewMessage, Message, Tx, Statuses
    <3> QED
      BY <1>2, <3>2 DEF BookTx
  <2> QED
    BY <1>2, <2>1, <2>2, <2>3 DEF BookTx
<1>3. ASSUME NEW f \in Filters, Generate(f) PROVE OutboxTypeOK'
  <2>1. [kind |-> "GENERATE_MESSAGES", state |-> "RUNNING"] \in Job
    BY DEF Job
  <2>2. jobs' \in Seq(Job) /\ DOMAIN jobs' = DOMAIN jobs \cup {Len(jobs) + 1}
    BY <1>3, <2>1, AppendedJobs DEF Generate
  <2>3. [job |-> Len(jobs) + 1, filter |-> f, of |-> world] \in Worker
    BY DEF Worker
  <2> QED
    BY <1>3, <2>2, <2>3 DEF Generate
<1>4. ASSUME NEW f \in Filters, Send(f) PROVE OutboxTypeOK'
  <2>1. messages' \in Seq(Message)
    <3>1. \A m \in DOMAIN messages : messages[m] \in Message
      OBVIOUS
    <3>2. PICK failing \in SUBSET DOMAIN messages :
            messages' = [m \in DOMAIN messages |->
              IF messages[m].status = "TO_BE_SENT" /\ Named(m, f)
              THEN [messages[m] EXCEPT !.status = IF m \in failing THEN "FAILED" ELSE "SENT"]
              ELSE messages[m]]
      BY <1>4 DEF Send
    <3>3. \A m \in DOMAIN messages :
            [messages[m] EXCEPT !.status = IF m \in failing THEN "FAILED" ELSE "SENT"] \in Message
      <4>1. \A m \in DOMAIN messages, s \in Statuses :
              [messages[m] EXCEPT !.status = s] \in Message
        BY <3>1 DEF Message
      <4>2. \A m \in DOMAIN messages :
              (IF m \in failing THEN "FAILED" ELSE "SENT") \in Statuses
        BY DEF Statuses
      <4> QED
        BY <4>1, <4>2
    <3>4. messages' \in [DOMAIN messages -> Message]
      BY <3>1, <3>2, <3>3
    <3> QED
      BY <3>4, SameDomain
  <2> QED
    BY <1>4, <2>1 DEF Send
<1>5. ASSUME NEW w \in workers, Work(w) PROVE OutboxTypeOK'
  <2>1. messages' \in Seq(Message)
    BY <1>5, GeneratedType DEF Work
  <2>2. jobs' \in Seq(Job) /\ DOMAIN jobs' = DOMAIN jobs
    BY <1>5, DoneJob DEF Work, Woken
  <2> QED
    BY <1>5, <2>1, <2>2 DEF Work
<1>6. CASE Reset
  BY <1>6 DEF Reset, Emptied
<1>7. CASE UNCHANGED outboxVars
  BY <1>7 DEF outboxVars, tables
<1> QED
  BY <1>1, <1>2, <1>3, <1>4, <1>5, <1>6, <1>7 DEF OutboxNext

\* The tables of the outbox and its threads keep their types, through any number of resets.
THEOREM TypeCorrect == OutboxSpec => []OutboxTypeOK
  BY TypedInit, TypedStep, PTL DEF OutboxSpec

-----------------------------------------------------------------------------
LEMMA StatusOnly ==
  ASSUME OneMessagePerBooking, SameButStatus, UNCHANGED txs
  PROVE  OneMessagePerBooking'
  BY DEF OneMessagePerBooking, SameButStatus, Known

LEMMA MessagesInit == OutboxInit => OneMessagePerBooking
  BY DEF OutboxInit, OneMessagePerBooking

LEMMA MessagesStep ==
  OutboxTypeOK /\ OneMessagePerBooking /\ [OutboxNext]_outboxVars => OneMessagePerBooking'
<1> SUFFICES ASSUME OutboxTypeOK, OneMessagePerBooking, [OutboxNext]_outboxVars PROVE OneMessagePerBooking'
  OBVIOUS
<1>1. ASSUME NEW s \in Subs, NEW o \in Origins, Schedule(s, o) PROVE OneMessagePerBooking'
  <2>1. /\ DOMAIN txs' = DOMAIN txs \cup {Len(txs) + 1}
        /\ \A t \in DOMAIN txs : txs'[t] = txs[t]
        /\ txs'[Len(txs) + 1].state = "SCHEDULED"
        /\ messages' = messages
    BY <1>1 DEF Schedule, OutboxTypeOK
  <2> QED
    BY <2>1 DEF OneMessagePerBooking, Known
<1>2. ASSUME NEW t \in DOMAIN txs, BookTx(t) PROVE OneMessagePerBooking'
  <2>1. /\ DOMAIN txs' = DOMAIN txs
        /\ \A u \in DOMAIN txs : /\ txs'[u].sub = txs[u].sub /\ txs'[u].origin = txs[u].origin
                                 /\ txs'[u].state = IF u = t THEN "BOOKED" ELSE txs[u].state
    BY <1>2 DEF BookTx, OutboxTypeOK, Tx
  <2>2. CASE Known(t)
    BY <1>2, <2>1, <2>2 DEF BookTx, OneMessagePerBooking, Known
  <2>3. CASE ~Known(t)
    <3>1. /\ DOMAIN messages' = DOMAIN messages \cup {Len(messages) + 1}
          /\ \A m \in DOMAIN messages : messages'[m] = messages[m]
          /\ messages'[Len(messages) + 1] = NewMessage(t)
      BY <1>2, <2>3 DEF BookTx, OutboxTypeOK
    <3>2. /\ NewMessage(t).sub = txs[t].sub
          /\ NewMessage(t).origin = txs[t].origin
          /\ NewMessage(t).tx = t
      BY DEF NewMessage
    <3> QED
      BY <2>1, <2>3, <3>1, <3>2 DEF OneMessagePerBooking, Known
  <2> QED
    BY <2>2, <2>3
<1>3. ASSUME NEW f \in Filters, Generate(f) PROVE OneMessagePerBooking'
  BY <1>3 DEF Generate, OneMessagePerBooking, Known
<1>4. ASSUME NEW f \in Filters, Send(f) PROVE OneMessagePerBooking'
  <2>1. SameButStatus
    BY <1>4 DEF Send, SameButStatus, OutboxTypeOK, Message
  <2> QED
    BY <1>4, <2>1, StatusOnly DEF Send
<1>5. ASSUME NEW w \in workers, Work(w) PROVE OneMessagePerBooking'
  <2>1. SameButStatus
    BY <1>5 DEF Work, Generated, SameButStatus, OutboxTypeOK, Message
  <2> QED
    BY <1>5, <2>1, StatusOnly DEF Work
<1>6. CASE Reset
  BY <1>6 DEF Reset, Emptied, OneMessagePerBooking
<1>7. CASE UNCHANGED outboxVars
  BY <1>7 DEF outboxVars, tables, OneMessagePerBooking, Known
<1> QED
  BY <1>1, <1>2, <1>3, <1>4, <1>5, <1>6, <1>7 DEF OutboxNext

\* Every booking has exactly one message of its origin and every message a booking of this
\* world, however many threads sleep through however many resets.
THEOREM OneMessageForEachBooking == OutboxSpec => []OneMessagePerBooking
<1>1. OutboxSpec => []OutboxTypeOK
  BY TypeCorrect
<1> QED
  BY <1>1, MessagesInit, MessagesStep, PTL DEF OutboxSpec

-----------------------------------------------------------------------------
(* The ledger: what each of its operations keeps of a book whose tables agree. *)

\* A book whose tables agree: a waiting transaction has no job, a scheduled one the pending job of
\* its first day, and a pending job is a scheduled transaction's.
JobsAgree(b) ==
  /\ \A t \in DOMAIN b.txs :
       LET tx == b.txs[t]
       IN  /\ tx.state = "INITIAL" => tx.job = NoJob
           /\ tx.job # NoJob => tx.job \in DOMAIN b.jobs /\ b.jobs[tx.job].tx = t
           /\ tx.state = "SCHEDULED" =>
                /\ tx.job \in DOMAIN b.jobs /\ b.jobs[tx.job].tx = t
                /\ b.jobs[tx.job].state = "PENDING" /\ b.jobs[tx.job].due = tx.from
  /\ \A j \in DOMAIN b.jobs :
       /\ b.jobs[j].tx \in DOMAIN b.txs
       /\ b.jobs[j].state = "PENDING" =>
            b.txs[b.jobs[j].tx].state = "SCHEDULED" /\ b.txs[b.jobs[j].tx].job = j

\* Every invoice is of a transaction, and a booked one has exactly one.
InvoicesAgree(b) ==
  /\ \A i \in DOMAIN b.invoices :
       LET t == b.invoices[i].tx
       IN  t \in DOMAIN b.txs /\ b.txs[t].state = "BOOKED" /\ b.invoices[i].net = b.txs[t].net
  /\ \A i, k \in DOMAIN b.invoices : b.invoices[i].tx = b.invoices[k].tx => i = k
  /\ \A t \in DOMAIN b.txs : b.txs[t].state = "BOOKED" => \E i \in DOMAIN b.invoices : b.invoices[i].tx = t

Consistent(b) == b \in Books /\ JobsAgree(b) /\ InvoicesAgree(b)

\* Two transactions for the same days and of the same amount.
Same(x, y) == x.kind = y.kind /\ x.from = y.from /\ x.to = y.to /\ x.net = y.net

\* From one book to another nothing is taken back and nothing new is charged.
Onwards(b, c) ==
  /\ DOMAIN c.txs = DOMAIN b.txs /\ DOMAIN b.jobs \subseteq DOMAIN c.jobs
  /\ \A t \in DOMAIN b.txs :
       /\ Same(c.txs[t], b.txs[t])
       /\ b.txs[t].state \in {"BOOKED", "VOID"} => c.txs[t].state = b.txs[t].state
       /\ c.txs[t].state = "VOID" => b.txs[t].state = "VOID"

\* From one book to another nothing happens but that the first of those that wait get a job.
Registered(b, c) ==
  /\ \A t \in DOMAIN b.txs :
       \/ c.txs[t].state = b.txs[t].state
       \/ b.txs[t].state = "INITIAL" /\ c.txs[t].state = "SCHEDULED"
  /\ \A t, u \in DOMAIN b.txs :
       b.txs[t].state = "INITIAL" /\ c.txs[t].state # "INITIAL" /\ c.txs[u].state = "INITIAL"
         => b.txs[t].from <= b.txs[u].from
  /\ \A j \in DOMAIN b.jobs : c.jobs[j] = b.jobs[j]

\* The transactions of the terms are registered and booked in the order of their days.
Terms(b) == {t \in Live(b) : b.txs[t].kind \in {"NEW", "RENEW"}}
InOrder(b) ==
  \A t, u \in Terms(b) :
    b.txs[t].from < b.txs[u].from =>
      /\ b.txs[u].state = "BOOKED" => b.txs[t].state = "BOOKED"
      /\ b.txs[t].state = "INITIAL" => b.txs[u].state = "INITIAL"

\* A round of run_due has, with the job of a term's transaction, those of all that come before it.
Round(left, b) ==
  /\ \A j \in left : j \in DOMAIN b.jobs /\ b.jobs[j].state = "PENDING"
  /\ \A j \in left : \A u \in Terms(b) :
       b.jobs[j].tx \in Terms(b) /\ b.txs[u].state = "SCHEDULED" /\ b.txs[u].from < b.jobs[j].due
         => b.txs[u].job \in left

\* What waits without a job waits for what has one.
Chained(b, way) ==
  IF way = "all" THEN With(b, "INITIAL") = {}
  ELSE With(b, "INITIAL") # {} => With(b, "SCHEDULED") # {}

\* The tables of a book.
LEMMA Tables ==
  ASSUME NEW b \in Books
  PROVE  /\ b.txs \in Seq(Transaction) /\ b.jobs \in Seq(BookingJob) /\ b.invoices \in Seq(Invoice)
         /\ Len(b.txs) \in Nat /\ DOMAIN b.txs = 1 .. Len(b.txs)
         /\ Len(b.jobs) \in Nat /\ DOMAIN b.jobs = 1 .. Len(b.jobs)
         /\ Len(b.invoices) \in Nat /\ DOMAIN b.invoices = 1 .. Len(b.invoices)
         /\ \A t \in DOMAIN b.txs : b.txs[t] \in Transaction
         /\ \A j \in DOMAIN b.jobs : b.jobs[j] \in BookingJob
         /\ \A i \in DOMAIN b.invoices : b.invoices[i] \in Invoice
<1>1. b.txs \in Seq(Transaction) /\ b.jobs \in Seq(BookingJob) /\ b.invoices \in Seq(Invoice)
  BY DEF Books
<1> QED
  BY <1>1, LenProperties, ElementOfSeq

\* One transaction is chosen of any that are left.
LEMMA EarliestIsOne ==
  ASSUME NEW S \in SUBSET Nat, IsFiniteSet(S), S # {}, NEW day \in [S -> Int]
  PROVE  Earliest(day) \in S /\ \A q \in S : day[Earliest(day)] <= day[q]
<1> DEFINE days == {day[r] : r \in S}
<1>1. PICK d \in days : \A e \in days : d <= e
  <2>1. days \in SUBSET Int /\ days # {}
    OBVIOUS
  <2>2. IsFiniteSet(days)
    BY Values
  <2> HIDE DEF days
  <2> QED
    BY <2>1, <2>2, Extremes
<1> DEFINE T == {r \in S : day[r] = d}
<1>2. PICK r \in T : \A q \in T : r <= q
  <2>1. T \in SUBSET Nat /\ T # {}
    BY <1>1
  <2> HIDE DEF T
  <2> QED
    BY <2>1, LeastNumber
<1>3. \A q \in S \ {r} : day[r] < day[q] \/ (day[r] = day[q] /\ r < q)
  <2> SUFFICES ASSUME NEW q \in S \ {r} PROVE day[r] < day[q] \/ (day[r] = day[q] /\ r < q)
    OBVIOUS
  <2>1. day[q] \in days /\ day[q] \in Int /\ d \in Int /\ day[r] = d /\ d <= day[q]
    BY <1>1, <1>2
  <2>2. CASE day[q] = d
    <3>1. r <= q /\ r \in Nat /\ q \in Nat
      BY <2>2, <1>2
    <3> QED
      BY <2>1, <2>2, <3>1
  <2> QED
    BY <2>1, <2>2
<1>4. DOMAIN day = S /\ r \in S
  BY <1>2
<1> DEFINE e == Earliest(day)
<1>5. e \in S /\ \A q \in S \ {e} : day[e] < day[q] \/ (day[e] = day[q] /\ e < q)
  BY <1>3, <1>4 DEF Earliest
<1> HIDE DEF e
<1>6. \A q \in S : day[e] <= day[q]
  <2> SUFFICES ASSUME NEW q \in S PROVE day[e] <= day[q]
    OBVIOUS
  <2>1. day[e] \in Int /\ day[q] \in Int
    BY <1>5
  <2> QED
    BY <1>5, <2>1
<1> QED
  BY <1>5, <1>6 DEF e

LEMMA FirstIsOne ==
  ASSUME NEW b \in Books, NEW S \in SUBSET DOMAIN b.txs, S # {}
  PROVE  First(b, S) \in S /\ \A t \in S : b.txs[First(b, S)].from <= b.txs[t].from
<1> DEFINE day == [t \in S |-> b.txs[t].from]
<1>1. S \in SUBSET Nat /\ IsFiniteSet(S)
  <2>1. IsFiniteSet(1 .. Len(b.txs))
    BY Tables, FS_Interval
  <2> QED
    BY <2>1, Tables, FS_Subset
<1>2. day \in [S -> Int] /\ First(b, S) = Earliest(day)
  BY Tables DEF Transaction, First
<1>3. \A t \in S : day[t] = b.txs[t].from
  OBVIOUS
<1> HIDE DEF day
<1>4. Earliest(day) \in S /\ \A t \in S : day[Earliest(day)] <= day[t]
  BY <1>1, <1>2, EarliestIsOne
<1> QED
  BY <1>2, <1>3, <1>4

\* _attach_job.
LEMMA AttachedBook ==
  ASSUME NEW b, Consistent(b), NEW t \in With(b, "INITIAL")
  PROVE  /\ Consistent(AttachJob(b, t)) /\ Onwards(b, AttachJob(b, t))
         /\ With(AttachJob(b, t), "INITIAL") = With(b, "INITIAL") \ {t}
         /\ t \in With(AttachJob(b, t), "SCHEDULED")
         /\ (\A u \in With(b, "INITIAL") : b.txs[t].from <= b.txs[u].from)
              => Registered(b, AttachJob(b, t))
<1> DEFINE c == AttachJob(b, t)
           n == Len(b.jobs) + 1
           job == [tx |-> t, state |-> "PENDING", due |-> b.txs[t].from]
           tx == [b.txs[t] EXCEPT !.state = "SCHEDULED", !.job = n]
<1>1. b \in Books /\ t \in DOMAIN b.txs /\ b.txs[t] \in Transaction /\ b.txs[t].state = "INITIAL"
  BY Tables DEF Consistent, With
<1>2. /\ c.txs = [b.txs EXCEPT ![t] = tx] /\ c.jobs = Append(b.jobs, job)
      /\ c.invoices = b.invoices /\ DOMAIN c = DOMAIN b
  BY <1>1 DEF AttachJob, Books
<1>3. n \in Nat \ {0} /\ job \in BookingJob /\ tx \in Transaction
  <2>1. n \in Nat \ {0} /\ t \in Nat
    BY <1>1, Tables
  <2>2. b.txs[t].from \in Int
    BY <1>1 DEF Transaction
  <2>3. job \in BookingJob
    BY <2>1, <2>2 DEF BookingJob
  <2> HIDE DEF n
  <2>4. tx \in Transaction
    BY <1>1, <2>1 DEF Transaction
  <2> QED
    BY <2>1, <2>3, <2>4
<1>4. /\ tx.state = "SCHEDULED" /\ tx.job = n /\ tx.from = b.txs[t].from /\ tx.net = b.txs[t].net
      /\ Same(tx, b.txs[t])
      /\ job.tx = t /\ job.state = "PENDING" /\ job.due = b.txs[t].from
  BY <1>1 DEF Transaction, Same
<1>d. c = [b EXCEPT !.jobs = Append(b.jobs, job), !.txs = [b.txs EXCEPT ![t] = tx]]
  BY DEF AttachJob
<1> HIDE DEF c, job, tx
<1>5. /\ DOMAIN c.txs = DOMAIN b.txs /\ c.txs[t] = tx
      /\ \A u \in DOMAIN b.txs \ {t} : c.txs[u] = b.txs[u]
  BY <1>1, <1>2
<1>6. /\ DOMAIN c.jobs = 1 .. n /\ c.jobs[n] = job
      /\ \A j \in DOMAIN b.jobs : j # n /\ j \in 1 .. n /\ c.jobs[j] = b.jobs[j]
      /\ c.jobs \in Seq(BookingJob)
  <2>1. b.jobs \in Seq(BookingJob) /\ DOMAIN b.jobs = 1 .. Len(b.jobs) /\ Len(b.jobs) \in Nat
    BY <1>1, Tables
  <2> QED
    BY <2>1, <1>2, <1>3, AppendProperties
<1>7. c.txs \in Seq(Transaction)
  <2>1. b.txs \in Seq(Transaction) /\ t \in 1 .. Len(b.txs)
    BY <1>1, Tables
  <2> QED
    BY <2>1, <1>2, <1>3, ExceptSeq
<1>8. c \in Books
  <2>1. Append(b.jobs, job) \in Seq(BookingJob) /\ [b.txs EXCEPT ![t] = tx] \in Seq(Transaction)
    BY <1>2, <1>6, <1>7
  <2> QED
    BY <2>1, <1>1, <1>d DEF Books
<1>9. DOMAIN b.jobs = 1 .. n - 1 /\ n - 1 \in Nat
  BY <1>1, Tables
<1> HIDE DEF n
<1>10. JobsAgree(c)
  <2>1. ASSUME NEW u \in DOMAIN c.txs
        PROVE  /\ c.txs[u].state = "INITIAL" => c.txs[u].job = NoJob
               /\ c.txs[u].job # NoJob =>
                    c.txs[u].job \in DOMAIN c.jobs /\ c.jobs[c.txs[u].job].tx = u
               /\ c.txs[u].state = "SCHEDULED" =>
                    /\ c.txs[u].job \in DOMAIN c.jobs /\ c.jobs[c.txs[u].job].tx = u
                    /\ c.jobs[c.txs[u].job].state = "PENDING" /\ c.jobs[c.txs[u].job].due = c.txs[u].from
    <3>1. CASE u = t
      BY <3>1, <1>3, <1>4, <1>5, <1>6
    <3>2. CASE u # t
      <4>1. u \in DOMAIN b.txs /\ c.txs[u] = b.txs[u]
        BY <3>2, <1>5
      <4> QED
        BY <4>1, <1>6 DEF Consistent, JobsAgree
    <3> QED
      BY <3>1, <3>2
  <2>2. ASSUME NEW j \in DOMAIN c.jobs
        PROVE  /\ c.jobs[j].tx \in DOMAIN c.txs
               /\ c.jobs[j].state = "PENDING" =>
                    c.txs[c.jobs[j].tx].state = "SCHEDULED" /\ c.txs[c.jobs[j].tx].job = j
    <3>1. CASE j = n
      BY <3>1, <1>1, <1>4, <1>5, <1>6
    <3>2. CASE j # n
      <4>1. j \in DOMAIN b.jobs /\ c.jobs[j] = b.jobs[j]
        BY <3>2, <1>3, <1>6, <1>9
      <4>2. /\ b.jobs[j].tx \in DOMAIN b.txs
            /\ b.jobs[j].state = "PENDING" =>
                 b.txs[b.jobs[j].tx].state = "SCHEDULED" /\ b.txs[b.jobs[j].tx].job = j
        BY <4>1 DEF Consistent, JobsAgree
      <4>3. b.jobs[j].state = "PENDING" => b.jobs[j].tx # t
        BY <4>2, <1>1
      <4> QED
        BY <4>1, <4>2, <4>3, <1>5
    <3> QED
      BY <3>1, <3>2
  <2> QED
    BY <2>1, <2>2 DEF JobsAgree
<1>11. InvoicesAgree(c)
  <2>1. \A u \in DOMAIN b.txs : (c.txs[u].state = "BOOKED") = (b.txs[u].state = "BOOKED") /\ c.txs[u].net = b.txs[u].net
    BY <1>1, <1>4, <1>5
  <2> QED
    BY <2>1, <1>2, <1>5 DEF Consistent, InvoicesAgree
<1>12. Onwards(b, c)
  <2>1. ASSUME NEW u \in DOMAIN b.txs
        PROVE  /\ Same(c.txs[u], b.txs[u])
               /\ b.txs[u].state \in {"BOOKED", "VOID"} => c.txs[u].state = b.txs[u].state
               /\ c.txs[u].state = "VOID" => b.txs[u].state = "VOID"
    <3>1. CASE u = t
      BY <3>1, <1>1, <1>4, <1>5
    <3>2. CASE u # t
      BY <3>2, <1>5 DEF Same
    <3> QED
      BY <3>1, <3>2
  <2>2. DOMAIN b.jobs \subseteq DOMAIN c.jobs
    BY <1>6
  <2> QED
    BY <2>1, <2>2, <1>5 DEF Onwards
<1>13. With(c, "INITIAL") = With(b, "INITIAL") \ {t} /\ t \in With(c, "SCHEDULED")
  BY <1>1, <1>4, <1>5 DEF With
<1>14. ASSUME \A u \in With(b, "INITIAL") : b.txs[t].from <= b.txs[u].from
       PROVE  Registered(b, c)
  <2>1. \A j \in DOMAIN b.jobs : c.jobs[j] = b.jobs[j]
    BY <1>6
  <2>2. \A u \in DOMAIN b.txs : u # t => c.txs[u].state = b.txs[u].state
    BY <1>5
  <2>3. c.txs[t].state = "SCHEDULED"
    BY <1>4, <1>5
  <2> QED
    BY <1>1, <1>14, <2>1, <2>2, <2>3 DEF Registered, With
<1> QED
  BY <1>8, <1>10, <1>11, <1>12, <1>13, <1>14 DEF Consistent, c

\* Billing one transaction that was not: with its job done and one invoice more.
LEMMA BilledBook ==
  ASSUME NEW b, Consistent(b), NEW t \in Pending(b)
  PROVE  /\ Consistent(Billed(b, t)) /\ Onwards(b, Billed(b, t))
         /\ With(Billed(b, t), "INITIAL") \subseteq With(b, "INITIAL")
         /\ Billed(b, t).txs[t].state = "BOOKED"
         /\ \A u \in DOMAIN b.txs : u # t => Billed(b, t).txs[u] = b.txs[u]
         /\ \A i \in DOMAIN b.jobs : i # b.txs[t].job => Billed(b, t).jobs[i] = b.jobs[i]
<1> DEFINE c == Billed(b, t)
           j == b.txs[t].job
           tx == [b.txs[t] EXCEPT !.state = "BOOKED"]
           job == [b.jobs[j] EXCEPT !.state = "DONE"]
           later == IF j = NoJob THEN b.jobs ELSE [b.jobs EXCEPT ![j] = job]
           invoice == [tx |-> t, net |-> b.txs[t].net]
           n == Len(b.invoices) + 1
<1>1. /\ b \in Books /\ JobsAgree(b) /\ InvoicesAgree(b) /\ t \in DOMAIN b.txs
      /\ b.txs[t] \in Transaction /\ b.txs[t].state \in {"INITIAL", "SCHEDULED"}
  BY Tables DEF Consistent, Pending, With
<1>2. c = [b EXCEPT !.txs = [b.txs EXCEPT ![t] = tx], !.jobs = later, !.invoices = Append(b.invoices, invoice)]
  BY DEF Billed
<1>3. /\ tx \in Transaction /\ tx.state = "BOOKED" /\ tx.job = j /\ tx.from = b.txs[t].from
      /\ tx.net = b.txs[t].net /\ Same(tx, b.txs[t])
  BY <1>1 DEF Transaction, Same
<1>4. /\ j # NoJob => /\ j \in DOMAIN b.jobs /\ b.jobs[j] \in BookingJob
                      /\ b.txs[t].state = "SCHEDULED" /\ b.jobs[j].tx = t
                      /\ job \in BookingJob /\ job.tx = t /\ job.state = "DONE"
      /\ b.txs[t].state = "SCHEDULED" => j # NoJob
  <2>1. j # NoJob => j \in DOMAIN b.jobs /\ b.txs[t].state = "SCHEDULED"
    BY <1>1 DEF JobsAgree
  <2>2. b.txs[t].state = "SCHEDULED" => j \in DOMAIN b.jobs /\ b.jobs[j].tx = t
    BY <1>1 DEF JobsAgree
  <2>3. NoJob \notin DOMAIN b.jobs
    BY <1>1, Tables DEF NoJob
  <2>4. j \in DOMAIN b.jobs => b.jobs[j] \in BookingJob
    BY <1>1, Tables
  <2> HIDE DEF j
  <2>5. b.jobs[j] \in BookingJob => job \in BookingJob /\ job.tx = b.jobs[j].tx /\ job.state = "DONE"
    BY DEF BookingJob
  <2> QED
    BY <2>1, <2>2, <2>3, <2>4, <2>5
<1>5. invoice \in Invoice /\ invoice.tx = t /\ invoice.net = b.txs[t].net
  <2>1. t \in Nat
    BY <1>1, Tables
  <2>2. b.txs[t].net \in Int
    BY <1>1 DEF Transaction
  <2> QED
    BY <2>1, <2>2 DEF Invoice
<1> HIDE DEF c, tx, job, invoice
<1>6. /\ [b.txs EXCEPT ![t] = tx] \in Seq(Transaction)
      /\ later \in Seq(BookingJob) /\ DOMAIN later = DOMAIN b.jobs
      /\ \A i \in DOMAIN b.jobs : later[i] = IF i = j THEN job ELSE b.jobs[i]
  <2>1. [b.txs EXCEPT ![t] = tx] \in Seq(Transaction)
    <3>1. b.txs \in Seq(Transaction) /\ t \in 1 .. Len(b.txs)
      BY <1>1, Tables
    <3> QED
      BY <3>1, <1>3, ExceptSeq
  <2>2. b.jobs \in Seq(BookingJob) /\ DOMAIN b.jobs = 1 .. Len(b.jobs) /\ NoJob \notin DOMAIN b.jobs
    BY <1>1, Tables DEF NoJob
  <2> HIDE DEF j
  <2>3. CASE j = NoJob
    BY <2>1, <2>2, <2>3
  <2>4. CASE j # NoJob
    <3>1. [b.jobs EXCEPT ![j] = job] \in Seq(BookingJob)
      BY <2>2, <2>4, <1>4, ExceptSeq
    <3> QED
      BY <2>1, <2>2, <2>4, <3>1, <1>4
  <2> QED
    BY <2>3, <2>4
<1>7. /\ Append(b.invoices, invoice) \in Seq(Invoice)
      /\ DOMAIN Append(b.invoices, invoice) = 1 .. n /\ Append(b.invoices, invoice)[n] = invoice
      /\ \A i \in DOMAIN b.invoices : i # n /\ i \in 1 .. n /\ Append(b.invoices, invoice)[i] = b.invoices[i]
      /\ DOMAIN b.invoices = 1 .. n - 1 /\ n - 1 \in Nat /\ n \in Nat
  <2>1. b.invoices \in Seq(Invoice) /\ Len(b.invoices) \in Nat /\ DOMAIN b.invoices = 1 .. Len(b.invoices)
    BY <1>1, Tables
  <2> QED
    BY <2>1, <1>5, AppendProperties
<1> HIDE DEF later, n
<1>8. /\ c \in Books /\ c.txs = [b.txs EXCEPT ![t] = tx] /\ c.jobs = later
      /\ c.invoices = Append(b.invoices, invoice)
  BY <1>1, <1>2, <1>6, <1>7 DEF Books
<1>9. /\ DOMAIN c.txs = DOMAIN b.txs /\ c.txs[t] = tx
      /\ \A u \in DOMAIN b.txs \ {t} : c.txs[u] = b.txs[u]
  BY <1>1, <1>8
<1>10. JobsAgree(c)
  <2>1. ASSUME NEW u \in DOMAIN c.txs
        PROVE  /\ c.txs[u].state = "INITIAL" => c.txs[u].job = NoJob
               /\ c.txs[u].job # NoJob =>
                    c.txs[u].job \in DOMAIN c.jobs /\ c.jobs[c.txs[u].job].tx = u
               /\ c.txs[u].state = "SCHEDULED" =>
                    /\ c.txs[u].job \in DOMAIN c.jobs /\ c.jobs[c.txs[u].job].tx = u
                    /\ c.jobs[c.txs[u].job].state = "PENDING" /\ c.jobs[c.txs[u].job].due = c.txs[u].from
    <3>1. CASE u = t
      BY <3>1, <1>3, <1>4, <1>6, <1>8, <1>9
    <3>2. CASE u # t
      <4>1. u \in DOMAIN b.txs /\ c.txs[u] = b.txs[u]
        BY <3>2, <1>9
      <4>2. c.txs[u].job # NoJob => c.txs[u].job # j
        BY <3>2, <4>1, <1>1 DEF JobsAgree
      <4>3. c.txs[u].state = "SCHEDULED" => c.txs[u].job # NoJob
        BY <4>1, <1>1, Tables DEF JobsAgree, NoJob
      <4> QED
        BY <4>1, <4>2, <4>3, <1>1, <1>6, <1>8 DEF JobsAgree
    <3> QED
      BY <3>1, <3>2
  <2>2. ASSUME NEW i \in DOMAIN c.jobs
        PROVE  /\ c.jobs[i].tx \in DOMAIN c.txs
               /\ c.jobs[i].state = "PENDING" =>
                    c.txs[c.jobs[i].tx].state = "SCHEDULED" /\ c.txs[c.jobs[i].tx].job = i
    <3>1. CASE i = j
      <4>1. j # NoJob
        BY <3>1, <1>1, <1>6, <1>8, Tables DEF NoJob
      <4>2. c.jobs[i] = job
        BY <3>1, <1>6, <1>8
      <4> QED
        BY <4>1, <4>2, <1>1, <1>4, <1>9
    <3>2. CASE i # j
      <4>1. i \in DOMAIN b.jobs /\ c.jobs[i] = b.jobs[i]
        BY <3>2, <1>6, <1>8
      <4>2. b.jobs[i].state = "PENDING" => b.jobs[i].tx # t
        BY <4>1, <3>2, <1>1 DEF JobsAgree
      <4> QED
        BY <4>1, <4>2, <1>1, <1>9 DEF JobsAgree
    <3> QED
      BY <3>1, <3>2
  <2> QED
    BY <2>1, <2>2 DEF JobsAgree
<1>11. InvoicesAgree(c)
  <2>1. \A u \in DOMAIN b.txs \ {t} : c.txs[u].state = b.txs[u].state /\ c.txs[u].net = b.txs[u].net
    BY <1>9
  <2>2. c.txs[t].state = "BOOKED" /\ c.txs[t].net = b.txs[t].net /\ b.txs[t].state # "BOOKED"
    BY <1>1, <1>3, <1>9
  <2>3. /\ DOMAIN c.invoices = 1 .. n /\ c.invoices[n].tx = t /\ c.invoices[n].net = b.txs[t].net /\ n \in 1 .. n
        /\ \A i \in DOMAIN c.invoices \ {n} : i \in DOMAIN b.invoices /\ c.invoices[i] = b.invoices[i]
        /\ \A i \in DOMAIN b.invoices : i \in DOMAIN c.invoices /\ c.invoices[i] = b.invoices[i]
    <3>1. /\ DOMAIN c.invoices = 1 .. n /\ c.invoices[n] = invoice /\ n \in 1 .. n
          /\ \A i \in DOMAIN b.invoices : i \in DOMAIN c.invoices /\ c.invoices[i] = b.invoices[i]
      BY <1>7, <1>8
    <3>2. \A i \in 1 .. n : i # n => i \in 1 .. n - 1
      BY <1>7
    <3> QED
      BY <1>5, <1>7, <3>1, <3>2
  <2>4. \A i \in DOMAIN b.invoices : b.invoices[i].tx # t
    BY <1>1, <2>2 DEF InvoicesAgree
  <2> QED
    BY <1>1, <1>9, <2>1, <2>2, <2>3, <2>4 DEF InvoicesAgree
<1>12. Onwards(b, c)
  <2>1. ASSUME NEW u \in DOMAIN b.txs
        PROVE  /\ Same(c.txs[u], b.txs[u])
               /\ b.txs[u].state \in {"BOOKED", "VOID"} => c.txs[u].state = b.txs[u].state
               /\ c.txs[u].state = "VOID" => b.txs[u].state = "VOID"
    <3>1. CASE u = t
      BY <3>1, <1>1, <1>3, <1>9
    <3>2. CASE u # t
      BY <3>2, <1>9 DEF Same
    <3> QED
      BY <3>1, <3>2
  <2> QED
    BY <2>1, <1>6, <1>8, <1>9 DEF Onwards
<1>13. With(c, "INITIAL") \subseteq With(b, "INITIAL")
  BY <1>1, <1>3, <1>9 DEF With
<1>14. \A i \in DOMAIN b.jobs : i # j => c.jobs[i] = b.jobs[i]
  BY <1>6, <1>8
<1>15. c.txs[t].state = "BOOKED" /\ \A u \in DOMAIN b.txs : u # t => c.txs[u] = b.txs[u]
  BY <1>3, <1>9
<1> QED
  BY <1>8, <1>10, <1>11, <1>12, <1>13, <1>14, <1>15 DEF Consistent, c

\* void, of transactions that are not booked.
LEMMA VoidBook ==
  ASSUME NEW b, Consistent(b), NEW S \in SUBSET DOMAIN b.txs, \A t \in S : b.txs[t].state # "BOOKED"
  PROVE  /\ Consistent(Void(b, S)) /\ DOMAIN Void(b, S).txs = DOMAIN b.txs
<1> DEFINE c == Void(b, S)
           cancelled == {j \in {b.txs[t].job : t \in S} \ {NoJob} : b.jobs[j].state = "PENDING"}
           TxOf(t) == [b.txs[t] EXCEPT !.state = "VOID"]
           JobOf(j) == [b.jobs[j] EXCEPT !.state = "CANCELLED"]
           rows == VoidTxs(b, S)
           later == [j \in DOMAIN b.jobs |-> IF j \in cancelled THEN JobOf(j) ELSE b.jobs[j]]
<1>1. b \in Books /\ JobsAgree(b) /\ InvoicesAgree(b)
  BY DEF Consistent
<1>2. c = [b EXCEPT !.txs = rows, !.jobs = later]
  BY DEF Void
<1>3. /\ DOMAIN rows = DOMAIN b.txs
      /\ \A t \in S : rows[t] = TxOf(t)
      /\ \A t \in DOMAIN b.txs \ S : rows[t] = b.txs[t]
  BY DEF VoidTxs
<1>4. ASSUME NEW t \in DOMAIN b.txs
      PROVE  /\ TxOf(t) \in Transaction /\ TxOf(t).state = "VOID" /\ TxOf(t).job = b.txs[t].job
             /\ b.txs[t] \in Transaction
  <2>1. b.txs[t] \in Transaction
    BY <1>1, Tables
  <2> QED
    BY <2>1 DEF Transaction
<1>5. ASSUME NEW j \in DOMAIN b.jobs
      PROVE  /\ JobOf(j) \in BookingJob /\ JobOf(j).state = "CANCELLED" /\ JobOf(j).tx = b.jobs[j].tx
             /\ b.jobs[j] \in BookingJob
  <2>1. b.jobs[j] \in BookingJob
    BY <1>1, Tables
  <2> QED
    BY <2>1 DEF BookingJob
<1> HIDE DEF TxOf, JobOf, rows, c
<1>6. rows \in Seq(Transaction) /\ later \in Seq(BookingJob)
  <2>1. /\ \A t \in DOMAIN b.txs : rows[t] \in Transaction
        /\ \A j \in DOMAIN b.jobs : later[j] \in BookingJob
    BY <1>3, <1>4, <1>5
  <2>2. rows = [t \in DOMAIN b.txs |-> rows[t]] /\ later = [j \in DOMAIN b.jobs |-> later[j]]
    BY DEF VoidTxs, rows
  <2>3. rows \in [1 .. Len(b.txs) -> Transaction] /\ later \in [1 .. Len(b.jobs) -> BookingJob]
    <3> HIDE DEF later
    <3> QED
      BY <2>1, <2>2, <1>1, Tables
  <2> HIDE DEF later
  <2>4. Len(b.txs) \in Nat /\ Len(b.jobs) \in Nat
    BY <1>1, Tables
  <2> QED
    BY <2>3, <2>4 
<1>7. c \in Books /\ c.txs = rows /\ c.jobs = later /\ c.invoices = b.invoices
  <2> HIDE DEF later
  <2> QED
    BY <1>1, <1>2, <1>6 DEF Books
<1>8. JobsAgree(c)
  <2>1. ASSUME NEW u \in DOMAIN c.txs
        PROVE  /\ c.txs[u].state = "INITIAL" => c.txs[u].job = NoJob
               /\ c.txs[u].job # NoJob =>
                    c.txs[u].job \in DOMAIN c.jobs /\ c.jobs[c.txs[u].job].tx = u
               /\ c.txs[u].state = "SCHEDULED" =>
                    /\ c.txs[u].job \in DOMAIN c.jobs /\ c.jobs[c.txs[u].job].tx = u
                    /\ c.jobs[c.txs[u].job].state = "PENDING" /\ c.jobs[c.txs[u].job].due = c.txs[u].from
    <3>0. u \in DOMAIN b.txs
      BY <1>3, <1>7
    <3>3. /\ DOMAIN c.jobs = DOMAIN b.jobs
          /\ \A i \in DOMAIN b.jobs : /\ c.jobs[i].tx = b.jobs[i].tx
                                      /\ i \notin cancelled => c.jobs[i] = b.jobs[i]
      BY <1>5, <1>7
    <3> HIDE DEF later
    <3>1. CASE u \in S
      <4>1. c.txs[u].state = "VOID" /\ c.txs[u].job = b.txs[u].job
        BY <3>0, <3>1, <1>3, <1>4, <1>7
      <4>2. b.txs[u].job # NoJob => b.txs[u].job \in DOMAIN b.jobs /\ b.jobs[b.txs[u].job].tx = u
        BY <3>0, <1>1 DEF JobsAgree
      <4> QED
        BY <4>1, <4>2, <3>3
    <3>2. CASE u \notin S
      <4>1. c.txs[u] = b.txs[u]
        BY <3>0, <3>2, <1>3, <1>7
      <4>2. ASSUME c.txs[u].state = "SCHEDULED" PROVE c.txs[u].job \notin cancelled
        <5>1. SUFFICES ASSUME NEW t \in S, b.txs[t].job = b.txs[u].job, b.txs[t].job # NoJob
                       PROVE  FALSE
          BY <4>1
        <5>2. b.jobs[b.txs[u].job].tx = u
          BY <3>0, <4>1, <4>2, <1>1 DEF JobsAgree
        <5>3. b.jobs[b.txs[t].job].tx = t
          BY <5>1, <1>1 DEF JobsAgree
        <5> QED
          BY <5>1, <5>2, <5>3, <3>2
      <4>3. /\ b.txs[u].state = "INITIAL" => b.txs[u].job = NoJob
            /\ b.txs[u].job # NoJob => b.txs[u].job \in DOMAIN b.jobs /\ b.jobs[b.txs[u].job].tx = u
            /\ b.txs[u].state = "SCHEDULED" =>
                 /\ b.txs[u].job \in DOMAIN b.jobs /\ b.jobs[b.txs[u].job].tx = u
                 /\ b.jobs[b.txs[u].job].state = "PENDING" /\ b.jobs[b.txs[u].job].due = b.txs[u].from
        BY <3>0, <1>1 DEF JobsAgree
      <4> HIDE DEF cancelled
      <4> QED
        BY <4>1, <4>2, <4>3, <3>3
    <3> QED
      BY <3>1, <3>2
  <2>2. ASSUME NEW i \in DOMAIN c.jobs
        PROVE  /\ c.jobs[i].tx \in DOMAIN c.txs
               /\ c.jobs[i].state = "PENDING" =>
                    c.txs[c.jobs[i].tx].state = "SCHEDULED" /\ c.txs[c.jobs[i].tx].job = i
    <3>0. i \in DOMAIN b.jobs /\ b.jobs[i].tx \in DOMAIN b.txs
      BY <1>1, <1>7 DEF JobsAgree
    <3>1. CASE i \in cancelled
      <4>1. c.jobs[i] = JobOf(i)
        BY <3>0, <3>1, <1>7
      <4> QED
        BY <3>0, <4>1, <1>3, <1>5, <1>7
    <3>2. CASE i \notin cancelled
      <4>1. c.jobs[i] = b.jobs[i]
        BY <3>0, <3>2, <1>7
      <4>2. ASSUME b.jobs[i].state = "PENDING" PROVE b.jobs[i].tx \notin S
        <5>1. b.txs[b.jobs[i].tx].job = i /\ i # NoJob
          BY <4>2, <3>0, <1>1, Tables DEF JobsAgree, NoJob
        <5> QED
          BY <5>1, <4>2, <3>2
      <4>3. c.jobs[i].tx \in DOMAIN c.txs
        BY <3>0, <4>1, <1>3, <1>7
      <4>4. ASSUME b.jobs[i].state = "PENDING"
            PROVE  c.txs[b.jobs[i].tx].state = "SCHEDULED" /\ c.txs[b.jobs[i].tx].job = i
        <5>1. b.txs[b.jobs[i].tx].state = "SCHEDULED" /\ b.txs[b.jobs[i].tx].job = i
          BY <4>4, <3>0, <1>1 DEF JobsAgree
        <5>2. c.txs[b.jobs[i].tx] = b.txs[b.jobs[i].tx]
          BY <4>2, <4>4, <3>0, <1>3, <1>7
        <5> QED
          BY <5>1, <5>2
      <4> QED
        BY <4>1, <4>3, <4>4
    <3> QED
      BY <3>1, <3>2
  <2> QED
    BY <2>1, <2>2 DEF JobsAgree
<1>9. InvoicesAgree(c)
  <2>1. \A u \in DOMAIN b.txs : /\ (c.txs[u].state = "BOOKED") = (b.txs[u].state = "BOOKED")
                                /\ b.txs[u].state = "BOOKED" => c.txs[u].net = b.txs[u].net
    BY <1>3, <1>4, <1>7
  <2> QED
    BY <2>1, <1>1, <1>3, <1>7 DEF InvoicesAgree
<1> QED
  BY <1>3, <1>7, <1>8, <1>9 DEF Consistent, c

\* add, of some transactions that wait.
LEMMA AddedBook ==
  ASSUME NEW b, Consistent(b), NEW more \in Seq(Transaction),
         \A i \in DOMAIN more : more[i].state = "INITIAL" /\ more[i].job = NoJob
  PROVE  /\ Consistent(Added(b, more)) /\ Added(b, more).txs = b.txs \o more
         /\ Added(b, more).jobs = b.jobs /\ Added(b, more).invoices = b.invoices
<1> DEFINE c == Added(b, more)
           rows == b.txs \o more
           n == Len(b.txs)
<1>1. b \in Books /\ JobsAgree(b) /\ InvoicesAgree(b)
  BY DEF Consistent
<1>2. /\ rows \in Seq(Transaction) /\ DOMAIN rows = 1 .. n + Len(more)
      /\ n \in Nat /\ Len(more) \in Nat /\ DOMAIN more = 1 .. Len(more) /\ DOMAIN b.txs = 1 .. n
      /\ \A t \in 1 .. n + Len(more) : rows[t] = IF t <= n THEN b.txs[t] ELSE more[t - n]
  BY <1>1, Tables, ConcatProperties, LenProperties
<1>3. c = [b EXCEPT !.txs = rows]
  BY DEF Added
<1> HIDE DEF rows, n, c
<1>4. c \in Books /\ c.txs = rows /\ c.jobs = b.jobs /\ c.invoices = b.invoices
  BY <1>1, <1>2, <1>3 DEF Books
<1>5. /\ \A t \in DOMAIN b.txs : t \in DOMAIN c.txs /\ c.txs[t] = b.txs[t]
      /\ \A t \in DOMAIN c.txs \ DOMAIN b.txs : c.txs[t].state = "INITIAL" /\ c.txs[t].job = NoJob
  <2>1. ASSUME NEW t \in DOMAIN b.txs PROVE t \in DOMAIN c.txs /\ c.txs[t] = b.txs[t]
    BY <1>2, <1>4
  <2>2. ASSUME NEW t \in DOMAIN c.txs \ DOMAIN b.txs
        PROVE  c.txs[t].state = "INITIAL" /\ c.txs[t].job = NoJob
    <3>1. t \in 1 .. n + Len(more) /\ ~ (t <= n) /\ t - n \in DOMAIN more
      BY <1>2, <1>4
    <3> QED
      BY <3>1, <1>2, <1>4
  <2> QED
    BY <2>1, <2>2
<1>6. JobsAgree(c)
  BY <1>1, <1>4, <1>5 DEF JobsAgree
<1>7. InvoicesAgree(c)
  BY <1>1, <1>4, <1>5 DEF InvoicesAgree
<1> QED
  BY <1>4, <1>6, <1>7 DEF Consistent, c, rows

\* Transactions whose amounts or ends change keep their jobs; what is booked keeps its amount.
LEMMA AdjustedBook ==
  ASSUME NEW b, Consistent(b), NEW rows, rows = [t \in DOMAIN b.txs |-> rows[t]],
         \A t \in DOMAIN b.txs :
           /\ rows[t] \in Transaction /\ rows[t].state = b.txs[t].state
           /\ rows[t].from = b.txs[t].from /\ rows[t].job = b.txs[t].job
           /\ b.txs[t].state = "BOOKED" => rows[t].net = b.txs[t].net
  PROVE  /\ Consistent([b EXCEPT !.txs = rows]) /\ [b EXCEPT !.txs = rows].txs = rows
         /\ DOMAIN rows = DOMAIN b.txs
<1> DEFINE c == [b EXCEPT !.txs = rows]
<1>1. b \in Books /\ JobsAgree(b) /\ InvoicesAgree(b)
  BY DEF Consistent
<1>2. rows \in Seq(Transaction)
  <2>1. DOMAIN b.txs = 1 .. Len(b.txs) /\ Len(b.txs) \in Nat
    BY <1>1, Tables
  <2>2. rows \in [1 .. Len(b.txs) -> Transaction]
    BY <2>1
  <2> QED
    BY <2>1, <2>2
<1>3. c \in Books /\ c.txs = rows /\ c.jobs = b.jobs /\ c.invoices = b.invoices
  BY <1>1, <1>2 DEF Books
<1>6. DOMAIN rows = DOMAIN b.txs
  OBVIOUS
<1> HIDE DEF c
<1>7. /\ DOMAIN c.txs = DOMAIN b.txs
      /\ \A t \in DOMAIN b.txs :
           /\ c.txs[t].state = b.txs[t].state /\ c.txs[t].from = b.txs[t].from
           /\ c.txs[t].job = b.txs[t].job
           /\ b.txs[t].state = "BOOKED" => c.txs[t].net = b.txs[t].net
  BY <1>3, <1>6
<1>4. JobsAgree(c)
  <2>1. ASSUME NEW t \in DOMAIN c.txs
        PROVE  /\ c.txs[t].state = "INITIAL" => c.txs[t].job = NoJob
               /\ c.txs[t].job # NoJob =>
                    c.txs[t].job \in DOMAIN c.jobs /\ c.jobs[c.txs[t].job].tx = t
               /\ c.txs[t].state = "SCHEDULED" =>
                    /\ c.txs[t].job \in DOMAIN c.jobs /\ c.jobs[c.txs[t].job].tx = t
                    /\ c.jobs[c.txs[t].job].state = "PENDING" /\ c.jobs[c.txs[t].job].due = c.txs[t].from
    <3>1. c.jobs = b.jobs /\ t \in DOMAIN b.txs
      BY <1>3, <1>7
    <3> QED
      BY ONLY <3>1, <1>1, <1>7 DEF JobsAgree
  <2>2. ASSUME NEW j \in DOMAIN c.jobs
        PROVE  /\ c.jobs[j].tx \in DOMAIN c.txs
               /\ c.jobs[j].state = "PENDING" =>
                    c.txs[c.jobs[j].tx].state = "SCHEDULED" /\ c.txs[c.jobs[j].tx].job = j
    <3>1. c.jobs = b.jobs /\ j \in DOMAIN b.jobs
      BY <1>3
    <3> QED
      BY ONLY <3>1, <1>1, <1>7 DEF JobsAgree
  <2> QED
    BY <2>1, <2>2 DEF JobsAgree
<1>5. InvoicesAgree(c)
  <2>1. c.invoices = b.invoices
    BY <1>3
  <2> QED
    BY ONLY <2>1, <1>1, <1>7 DEF InvoicesAgree
<1> QED
  BY <1>3, <1>4, <1>5, <1>6 DEF Consistent, c

LEMMA OnwardsTwice ==
  ASSUME NEW b, NEW c, NEW d, Onwards(b, c), Onwards(c, d)
  PROVE  /\ Onwards(b, d)
         /\ Registered(b, c) /\ Registered(c, d) => Registered(b, d)
<1>1. Onwards(b, d)
  BY DEF Onwards, Same
<1>2. ASSUME Registered(b, c), Registered(c, d) PROVE Registered(b, d)
  BY <1>2 DEF Onwards, Registered, Same
<1> QED
  BY <1>1, <1>2

LEMMA OnwardsNothing ==
  ASSUME NEW b \in Books
  PROVE  Onwards(b, b) /\ Registered(b, b)
  BY DEF Onwards, Registered, Same

LEMMA WaitingIsFinite ==
  ASSUME NEW b \in Books, NEW state
  PROVE  /\ IsFiniteSet(With(b, state)) /\ With(b, state) \in SUBSET DOMAIN b.txs
         /\ Cardinality(With(b, state)) \in Nat
         /\ Cardinality(With(b, state)) = 0 <=> With(b, state) = {}
<1>1. IsFiniteSet(DOMAIN b.txs)
  BY Tables, FS_Interval
<1>2. With(b, state) \in SUBSET DOMAIN b.txs
  BY DEF With
<1> QED
  BY <1>1, <1>2, FS_Subset, FS_CardinalityType, FS_EmptySet

\* register, of all that wait.
LEMMA AllAttachedBook ==
  ASSUME NEW b, Consistent(b)
  PROVE  /\ Consistent(AllAttached(b)) /\ Onwards(b, AllAttached(b))
         /\ With(AllAttached(b), "INITIAL") = {} /\ Registered(b, AllAttached(b))
<1> DEFINE n == Cardinality(With(b, "INITIAL"))
           Next1(c) == AttachJob(c, First(c, With(c, "INITIAL")))
           Fits(g, m) == g = [i \in 0 .. m |-> IF i = 0 THEN b ELSE Next1(g[i - 1])]
           attached == CHOOSE g : Fits(g, n)
           Without == {m \in Nat : ~ \E g : Fits(g, m)}
<1>1. AllAttached(b) = attached[n]
  BY DEF AllAttached
<1>2. n \in Nat /\ b \in Books
  BY WaitingIsFinite DEF Consistent
<1> HIDE DEF n, Next1
<1>4. Without = {}
  <2>1. SUFFICES ASSUME Without # {} PROVE FALSE
    OBVIOUS
  <2>2. Without \in SUBSET Nat
    OBVIOUS
  <2>3. PICK m \in Without : \A l \in Without : m <= l
    <3> HIDE DEF Without
    <3> QED
      BY <2>1, <2>2, LeastNumber
  <2>4. CASE m = 0
    <3>1. Fits([i \in 0 .. 0 |-> b], 0)
      OBVIOUS
    <3> QED
      BY <2>3, <2>4, <3>1
  <2>5. CASE m # 0
    <3>1. m \in Nat /\ m - 1 \in Nat
      BY <2>3, <2>5
    <3>2. m - 1 \notin Without
      <4> HIDE DEF Without
      <4> QED
        BY <2>3, <3>1
    <3>3. PICK g : Fits(g, m - 1)
      BY <3>1, <3>2
    <3> DEFINE h == [i \in 0 .. m |-> IF i = m THEN Next1(g[m - 1]) ELSE g[i]]
    <3>4. \A i \in 0 .. m - 1 : g[i] = IF i = 0 THEN b ELSE Next1(g[i - 1])
      BY <3>3
    <3>5. ASSUME NEW i \in 0 .. m PROVE h[i] = IF i = 0 THEN b ELSE Next1(h[i - 1])
      <4>1. CASE i = m
        BY <4>1, <3>1, <2>5
      <4>2. CASE i # m
        <5>1. i \in 0 .. m - 1 /\ h[i] = g[i]
          BY <4>2, <3>1
        <5>2. i # 0 => h[i - 1] = g[i - 1]
          BY <4>2, <3>1
        <5> QED
          BY <5>1, <5>2, <3>4
      <4> QED
        BY <4>1, <4>2
    <3>6. h = [i \in 0 .. m |-> IF i = 0 THEN b ELSE Next1(h[i - 1])]
      <4> HIDE DEF h
      <4>1. h = [i \in 0 .. m |-> h[i]]
        BY DEF h
      <4> QED
        BY <4>1, <3>5
    <3>7. Fits(h, m)
      BY <3>6
    <3> QED
      BY <2>3, <3>7
  <2> QED
    BY <2>4, <2>5
<1>5. Fits(attached, n)
  BY <1>2, <1>4
<1>6. \A i \in 0 .. n : attached[i] = IF i = 0 THEN b ELSE Next1(attached[i - 1])
  BY <1>5
<1> HIDE DEF attached
<1> DEFINE Good(i) == /\ Consistent(attached[i]) /\ Onwards(b, attached[i]) /\ Registered(b, attached[i])
                      /\ Cardinality(With(attached[i], "INITIAL")) = n - i
           Bad == {i \in 0 .. n : ~ Good(i)}
<1>7. Bad = {}
  <2>1. SUFFICES ASSUME Bad # {} PROVE FALSE
    OBVIOUS
  <2>2. Bad \in SUBSET Nat
    BY <1>2
  <2>3. PICK i \in Bad : \A l \in Bad : i <= l
    <3> HIDE DEF Bad
    <3> QED
      BY <2>1, <2>2, LeastNumber
  <2>4. i # 0
    <3>1. Good(0)
      <4>1. Onwards(b, b) /\ Registered(b, b)
        BY <1>2, OnwardsNothing
      <4>2. attached[0] = b /\ Cardinality(With(b, "INITIAL")) = n - 0
        BY <1>2, <1>6 DEF n
      <4> QED
        BY <4>1, <4>2
    <3> QED
      BY <2>3, <3>1
  <2>5. i - 1 \in 0 .. n /\ i \in 0 .. n
    BY <2>3, <2>4, <1>2
  <2>6. i - 1 \notin Bad
    <3> HIDE DEF Bad
    <3> QED
      BY <2>3, <2>5, <1>2
  <2>7. Good(i - 1)
    BY <2>5, <2>6
  <2> DEFINE c == attached[i - 1]
             t == First(c, With(c, "INITIAL"))
  <2>8. attached[i] = AttachJob(c, t)
    BY <1>6, <2>4, <2>5 DEF Next1
  <2>9. t \in With(c, "INITIAL") /\ \A u \in With(c, "INITIAL") : c.txs[t].from <= c.txs[u].from
    <3>1. With(c, "INITIAL") # {}
      BY <2>5, <2>7, <1>2, WaitingIsFinite DEF Consistent
    <3> QED
      BY <2>7, <3>1, WaitingIsFinite, FirstIsOne DEF Consistent
  <2> HIDE DEF c, t
  <2>10. /\ Consistent(attached[i]) /\ Onwards(c, attached[i]) /\ Registered(c, attached[i])
         /\ With(attached[i], "INITIAL") = With(c, "INITIAL") \ {t}
    BY <2>7, <2>8, <2>9, AttachedBook DEF c
  <2>11. Cardinality(With(attached[i], "INITIAL")) = n - (i - 1) - 1
    <3>1. IsFiniteSet(With(c, "INITIAL"))
      BY <2>7, WaitingIsFinite DEF Consistent, c
    <3> QED
      BY <2>7, <2>9, <2>10, <3>1, FS_RemoveElement DEF c
  <2>12. Good(i)
    BY <2>5, <2>7, <2>10, <2>11, <1>2, OnwardsTwice DEF c
  <2> QED
    BY <2>3, <2>12
<1>8. Good(n)
  BY <1>2, <1>7
<1>9. With(attached[n], "INITIAL") = {}
  BY <1>2, <1>8, WaitingIsFinite DEF Consistent
<1> QED
  BY <1>1, <1>8, <1>9

\* register, in both modes.
LEMMA RegisteredBook ==
  ASSUME NEW b, Consistent(b), NEW way \in Modes
  PROVE  /\ Consistent(Register(b, way)) /\ Onwards(b, Register(b, way))
         /\ Chained(Register(b, way), way) /\ Registered(b, Register(b, way))
<1>1. CASE way = "all"
  BY <1>1, AllAttachedBook DEF Register, Chained
<1>2. CASE way # "all" /\ (With(b, "SCHEDULED") # {} \/ Pending(b) = {})
  BY <1>2, OnwardsNothing DEF Register, Chained, Pending, Consistent
<1>3. CASE way # "all" /\ With(b, "SCHEDULED") = {} /\ Pending(b) # {}
  <2>1. Register(b, way) = AttachJob(b, First(b, With(b, "INITIAL")))
    BY <1>3 DEF Register, Pending
  <2>2. /\ First(b, With(b, "INITIAL")) \in With(b, "INITIAL")
        /\ \A u \in With(b, "INITIAL") : b.txs[First(b, With(b, "INITIAL"))].from <= b.txs[u].from
    BY <1>3, WaitingIsFinite, FirstIsOne DEF Consistent, Pending
  <2> QED
    BY <1>3, <2>1, <2>2, AttachedBook DEF Chained
<1> QED
  BY <1>1, <1>2, <1>3

\* book, of one that waits; the chain goes on.
LEMMA BookedBook ==
  ASSUME NEW b, Consistent(b), NEW way \in Modes, NEW t \in Pending(b)
  PROVE  /\ Consistent(Book(b, way, t)) /\ Onwards(b, Book(b, way, t))
         /\ Chained(b, way) => Chained(Book(b, way, t), way)
         /\ Onwards(Billed(b, t), Book(b, way, t)) /\ Registered(Billed(b, t), Book(b, way, t))
<1>1. Book(b, way, t) = Invoiced(b, way, t)
  BY DEF Book, Pending, With
<1>2. /\ Consistent(Billed(b, t)) /\ Onwards(b, Billed(b, t))
      /\ With(Billed(b, t), "INITIAL") \subseteq With(b, "INITIAL")
  BY BilledBook
<1>3. CASE way = "one_at_a_time"
  BY <1>1, <1>2, <1>3, RegisteredBook, OnwardsTwice DEF Invoiced
<1>4. CASE way = "all"
  BY <1>1, <1>2, <1>4, OnwardsNothing DEF Invoiced, Chained, Consistent
<1> QED
  BY <1>3, <1>4 DEF Modes

LEMMA TermsOf ==
  ASSUME NEW b \in Books
  PROVE  /\ Terms(b) \in SUBSET Live(b) /\ Live(b) \in SUBSET DOMAIN b.txs
         /\ \A t \in Live(b) : b.txs[t].state \in {"INITIAL", "SCHEDULED", "BOOKED"}
  BY Tables DEF Terms, Live, With, Transaction

\* Going onwards the same transactions are alive, and the same are of the terms.
LEMMA SameTerms ==
  ASSUME NEW b, NEW c, Onwards(b, c)
  PROVE  Live(c) = Live(b) /\ Terms(c) = Terms(b)
<1>1. Live(c) = Live(b)
  BY DEF Onwards, Live, With
<1>2. \A t \in Live(b) : c.txs[t].kind = b.txs[t].kind
  BY DEF Onwards, Live, Same
<1> QED
  BY <1>1, <1>2 DEF Terms

LEMMA OrderKept ==
  ASSUME NEW b \in Books, NEW c, Onwards(b, c), Registered(b, c), InOrder(b)
  PROVE  InOrder(c)
<1> SUFFICES ASSUME NEW t \in Terms(c), NEW u \in Terms(c), c.txs[t].from < c.txs[u].from
             PROVE  /\ c.txs[u].state = "BOOKED" => c.txs[t].state = "BOOKED"
                    /\ c.txs[t].state = "INITIAL" => c.txs[u].state = "INITIAL"
  BY DEF InOrder
<1>1. t \in Terms(b) /\ u \in Terms(b) /\ t \in DOMAIN b.txs /\ u \in DOMAIN b.txs
  BY SameTerms, TermsOf
<1>2. /\ c.txs[t].from = b.txs[t].from /\ c.txs[u].from = b.txs[u].from
      /\ b.txs[t].state = "BOOKED" => c.txs[t].state = "BOOKED"
  BY <1>1 DEF Onwards, Same
<1>3. /\ c.txs[u].state = "BOOKED" => b.txs[u].state = "BOOKED"
      /\ c.txs[t].state = "INITIAL" => b.txs[t].state = "INITIAL"
  BY <1>1 DEF Registered
<1>4. /\ b.txs[u].state = "BOOKED" => b.txs[t].state = "BOOKED"
      /\ b.txs[t].state = "INITIAL" => b.txs[u].state = "INITIAL"
  BY <1>1, <1>2 DEF InOrder
<1>5. ASSUME c.txs[t].state = "INITIAL", c.txs[u].state # "INITIAL" PROVE FALSE
  <2>1. b.txs[u].from <= b.txs[t].from
    BY <1>1, <1>3, <1>4, <1>5 DEF Registered
  <2>2. b.txs[u].from \in Int /\ b.txs[t].from \in Int
    BY <1>1, Tables DEF Transaction
  <2> QED
    BY <1>2, <2>1, <2>2
<1> QED
  BY <1>2, <1>3, <1>4, <1>5

\* One that is booked when all that come before it are.
LEMMA BookedInOrder ==
  ASSUME NEW b, Consistent(b), NEW way \in Modes, NEW t \in Pending(b), InOrder(b),
         t \in Terms(b) => \A u \in Terms(b) : b.txs[u].from < b.txs[t].from => b.txs[u].state = "BOOKED"
  PROVE  InOrder(Book(b, way, t))
<1> DEFINE m == Billed(b, t)
           c == Book(b, way, t)
<1>1. /\ Consistent(m) /\ Onwards(b, m) /\ m.txs[t].state = "BOOKED"
      /\ \A u \in DOMAIN b.txs : u # t => m.txs[u] = b.txs[u]
  BY BilledBook
<1>2. Onwards(m, c) /\ Registered(m, c)
  BY BookedBook
<1>3. b \in Books /\ m \in Books /\ Terms(m) = Terms(b) /\ Terms(b) \in SUBSET DOMAIN b.txs
  BY <1>1, SameTerms, TermsOf DEF Consistent
<1> HIDE DEF m, c
<1>4. InOrder(m)
  <2> SUFFICES ASSUME NEW u \in Terms(b), NEW v \in Terms(b), m.txs[u].from < m.txs[v].from
               PROVE  /\ m.txs[v].state = "BOOKED" => m.txs[u].state = "BOOKED"
                      /\ m.txs[u].state = "INITIAL" => m.txs[v].state = "INITIAL"
    BY <1>3 DEF InOrder
  <2>1. u \in DOMAIN b.txs /\ v \in DOMAIN b.txs
    BY <1>3
  <2>2. /\ m.txs[u].from = b.txs[u].from /\ m.txs[v].from = b.txs[v].from
        /\ b.txs[u].state = "BOOKED" => m.txs[u].state = "BOOKED"
    BY <2>1, <1>1 DEF Onwards, Same
  <2>3. /\ b.txs[v].state = "BOOKED" => b.txs[u].state = "BOOKED"
        /\ b.txs[u].state = "INITIAL" => b.txs[v].state = "INITIAL"
    BY <2>2 DEF InOrder
  <2>4. v = t => b.txs[u].state = "BOOKED"
    BY <2>2
  <2> QED
    BY <2>1, <2>2, <2>3, <2>4, <1>1
<1>5. InOrder(c)
  BY <1>2, <1>3, <1>4, OrderKept
<1> QED
  BY <1>5 DEF c

\* A job of one that was booked or voided is cancelled.
LEMMA CancelledJob ==
  ASSUME NEW b, Consistent(b), NEW j \in DOMAIN b.jobs, b.txs[b.jobs[j].tx].state \in {"BOOKED", "VOID"}
  PROVE  LET c == [b EXCEPT !.jobs[j] = [b.jobs[j] EXCEPT !.state = "CANCELLED"]]
         IN  Consistent(c) /\ c.txs = b.txs /\ DOMAIN c.jobs = DOMAIN b.jobs
<1> DEFINE job == [b.jobs[j] EXCEPT !.state = "CANCELLED"]
           c == [b EXCEPT !.jobs[j] = job]
<1>1. b \in Books /\ JobsAgree(b) /\ InvoicesAgree(b) /\ b.jobs[j] \in BookingJob
  BY Tables DEF Consistent
<1>2. job \in BookingJob /\ job.tx = b.jobs[j].tx /\ job.state = "CANCELLED"
  BY <1>1 DEF BookingJob
<1>3. b.jobs[j].state # "PENDING"
  BY <1>1 DEF JobsAgree
<1>4. c = [b EXCEPT !.jobs = [b.jobs EXCEPT ![j] = job]]
  BY DEF c
<1> HIDE DEF job, c
<1>5. [b.jobs EXCEPT ![j] = job] \in Seq(BookingJob)
  <2>1. b.jobs \in Seq(BookingJob) /\ j \in 1 .. Len(b.jobs)
    BY <1>1, Tables
  <2> QED
    BY <2>1, <1>2, ExceptSeq
<1>6. c \in Books /\ c.txs = b.txs /\ c.jobs = [b.jobs EXCEPT ![j] = job] /\ c.invoices = b.invoices
  BY <1>1, <1>4, <1>5 DEF Books
<1>7. /\ DOMAIN c.jobs = DOMAIN b.jobs /\ c.jobs[j] = job
      /\ \A i \in DOMAIN b.jobs \ {j} : c.jobs[i] = b.jobs[i]
  BY <1>6
<1>8. JobsAgree(c)
  <2>1. ASSUME NEW t \in DOMAIN c.txs
        PROVE  /\ c.txs[t].state = "INITIAL" => c.txs[t].job = NoJob
               /\ c.txs[t].job # NoJob =>
                    c.txs[t].job \in DOMAIN c.jobs /\ c.jobs[c.txs[t].job].tx = t
               /\ c.txs[t].state = "SCHEDULED" =>
                    /\ c.txs[t].job \in DOMAIN c.jobs /\ c.jobs[c.txs[t].job].tx = t
                    /\ c.jobs[c.txs[t].job].state = "PENDING" /\ c.jobs[c.txs[t].job].due = c.txs[t].from
    <3>1. c.txs = b.txs /\ t \in DOMAIN b.txs
      BY <1>6
    <3> QED
      BY ONLY <3>1, <1>1, <1>2, <1>3, <1>7 DEF JobsAgree
  <2>2. ASSUME NEW i \in DOMAIN c.jobs
        PROVE  /\ c.jobs[i].tx \in DOMAIN c.txs
               /\ c.jobs[i].state = "PENDING" =>
                    c.txs[c.jobs[i].tx].state = "SCHEDULED" /\ c.txs[c.jobs[i].tx].job = i
    <3>1. c.txs = b.txs /\ i \in DOMAIN b.jobs
      BY <1>6, <1>7
    <3> QED
      BY ONLY <3>1, <1>1, <1>2, <1>7 DEF JobsAgree
  <2> QED
    BY <2>1, <2>2 DEF JobsAgree
<1>9. InvoicesAgree(c)
  BY <1>1, <1>6 DEF InvoicesAgree
<1> QED
  BY <1>6, <1>7, <1>8, <1>9 DEF Consistent, c, job

\* One job of a round.
LEMMA JobRun ==
  ASSUME NEW b, Consistent(b), NEW way \in Modes, NEW j \in DOMAIN b.jobs
  PROVE  /\ Consistent(RunJob(b, way, j)) /\ Onwards(b, RunJob(b, way, j))
         /\ Chained(b, way) => Chained(RunJob(b, way, j), way)
<1> DEFINE t == b.jobs[j].tx
<1>1. t \in DOMAIN b.txs /\ b.txs[t] \in Transaction
  BY Tables DEF Consistent, JobsAgree
<1>2. CASE b.txs[t].state \in {"BOOKED", "VOID"}
  <2> DEFINE c == [b EXCEPT !.jobs[j] = [b.jobs[j] EXCEPT !.state = "CANCELLED"]]
  <2>1. RunJob(b, way, j) = c
    BY <1>2 DEF RunJob
  <2>2. Consistent(c) /\ c.txs = b.txs /\ DOMAIN c.jobs = DOMAIN b.jobs
    BY <1>2, CancelledJob
  <2> HIDE DEF c
  <2> QED
    BY <2>1, <2>2 DEF Onwards, Same, Chained, With
<1>3. CASE b.txs[t].state \notin {"BOOKED", "VOID"}
  <2>1. RunJob(b, way, j) = Book(b, way, t)
    BY <1>3 DEF RunJob
  <2>2. t \in Pending(b)
    BY <1>1, <1>3 DEF Pending, With, Transaction
  <2> QED
    BY <2>1, <2>2, BookedBook
<1> QED
  BY <1>2, <1>3

\* The earliest job of a round keeps the order, and the round goes on without it.
LEMMA RoundRun ==
  ASSUME NEW b, Consistent(b), NEW way \in Modes, InOrder(b), NEW left, Round(left, b),
         NEW j \in left, \A k \in left : b.jobs[j].due <= b.jobs[k].due
  PROVE  InOrder(RunJob(b, way, j)) /\ Round(left \ {j}, RunJob(b, way, j))
<1> DEFINE t == b.jobs[j].tx
           c == RunJob(b, way, j)
           m == Billed(b, t)
<1>0. b \in Books /\ JobsAgree(b)
  BY DEF Consistent
<1>1. /\ j \in DOMAIN b.jobs /\ t \in DOMAIN b.txs /\ b.txs[t].state = "SCHEDULED" /\ b.txs[t].job = j
      /\ b.jobs[j].due = b.txs[t].from /\ t \in Pending(b)
  <2>1. j \in DOMAIN b.jobs /\ b.jobs[j].state = "PENDING"
    BY DEF Round
  <2>2. t \in DOMAIN b.txs /\ b.txs[t].state = "SCHEDULED" /\ b.txs[t].job = j
    BY <2>1, <1>0 DEF JobsAgree
  <2>3. b.jobs[j].due = b.txs[t].from
    BY <2>2, <1>0 DEF JobsAgree
  <2> QED
    BY <2>1, <2>2, <2>3 DEF Pending, With
<1>2. c = Book(b, way, t)
  BY <1>1 DEF RunJob
<1>3. /\ Consistent(c) /\ Onwards(m, c) /\ Registered(m, c) /\ Onwards(b, c)
  BY <1>1, <1>2, BookedBook
<1>4. /\ Onwards(b, m) /\ m.txs[t].state = "BOOKED"
      /\ \A u \in DOMAIN b.txs : u # t => m.txs[u] = b.txs[u]
      /\ \A i \in DOMAIN b.jobs : i # j => m.jobs[i] = b.jobs[i]
  BY <1>1, BilledBook
<1> HIDE DEF c, m, t
<1>5. \A u \in Terms(b) : /\ u \in DOMAIN b.txs /\ b.txs[u].from \in Int
                           /\ b.txs[u].state \in {"INITIAL", "SCHEDULED", "BOOKED"}
  BY <1>0, TermsOf, Tables DEF Transaction
<1>6. ASSUME NEW u \in Terms(b), t \in Terms(b), b.txs[u].from < b.txs[t].from
      PROVE  b.txs[u].state = "BOOKED"
  <2>1. b.txs[u].state # "INITIAL"
    BY <1>1, <1>6 DEF InOrder
  <2>2. ASSUME b.txs[u].state = "SCHEDULED" PROVE FALSE
    <3>1. b.txs[u].job \in left
      BY <1>1, <1>6, <2>2 DEF Round, t
    <3>2. b.jobs[b.txs[u].job].due = b.txs[u].from
      BY <1>0, <1>5, <2>2 DEF JobsAgree
    <3>3. b.txs[t].from <= b.txs[u].from
      BY <1>1, <3>1, <3>2
    <3> QED
      BY <1>5, <1>6, <3>3
  <2> QED
    BY <1>5, <2>1, <2>2
<1>7. InOrder(c)
  BY <1>1, <1>2, <1>6, BookedInOrder
<1>8. ASSUME NEW k \in left \ {j} PROVE k \in DOMAIN b.jobs /\ k \in DOMAIN c.jobs /\ c.jobs[k] = b.jobs[k]
  <2>1. k \in DOMAIN b.jobs /\ k # j
    BY DEF Round
  <2>2. m.jobs[k] = b.jobs[k] /\ k \in DOMAIN m.jobs
    BY <2>1, <1>4 DEF Onwards
  <2> QED
    BY <2>1, <2>2, <1>3 DEF Onwards, Registered
<1>9. ASSUME NEW k \in left \ {j}, NEW u \in Terms(c), c.jobs[k].tx \in Terms(c),
             c.txs[u].state = "SCHEDULED", c.txs[u].from < c.jobs[k].due
      PROVE  c.txs[u].job \in left \ {j}
  <2> DEFINE v == b.jobs[k].tx
  <2>1. /\ u \in Terms(b) /\ v \in Terms(b) /\ c.jobs[k] = b.jobs[k] /\ k \in DOMAIN b.jobs
        /\ b.jobs[k].state = "PENDING" /\ u \in DOMAIN b.txs /\ v \in DOMAIN b.txs
    BY <1>3, <1>5, <1>8, <1>9, SameTerms DEF Round
  <2>2. b.txs[v].state = "SCHEDULED" /\ b.txs[v].job = k /\ b.jobs[k].due = b.txs[v].from
    BY <2>1, <1>0 DEF JobsAgree
  <2>3. c.txs[u].from = b.txs[u].from /\ b.txs[u].from < b.txs[v].from
    BY <1>3, <1>9, <2>1, <2>2 DEF Onwards, Same
  <2>4. m.txs[u].state \in {"INITIAL", "SCHEDULED"} /\ u \in DOMAIN m.txs
    BY <1>3, <1>4, <1>9, <2>1 DEF Onwards, Registered
  <2>5. u # t /\ m.txs[u] = b.txs[u]
    BY <1>4, <2>1, <2>4
  <2>6. b.txs[u].state = "SCHEDULED"
    BY <2>1, <2>2, <2>3, <2>4, <2>5 DEF InOrder
  <2> DEFINE i == b.txs[u].job
  <2>7. i \in left /\ i \in DOMAIN b.jobs /\ b.jobs[i].tx = u /\ b.jobs[i].state = "PENDING"
    <3>1. i \in left
      BY <2>1, <2>2, <2>3, <2>6 DEF Round
    <3> QED
      BY <3>1, <2>1, <2>6, <1>0 DEF JobsAgree
  <2>8. i # j
    BY <2>5, <2>7 DEF t
  <2>9. c.jobs[i] = b.jobs[i] /\ i \in DOMAIN c.jobs
    BY <2>7, <2>8, <1>8
  <2> HIDE DEF i
  <2>10. c.txs[u].job = i
    <3>1. JobsAgree(c) /\ i \in DOMAIN c.jobs /\ c.jobs[i].state = "PENDING" /\ c.jobs[i].tx = u
      BY <2>7, <2>9, <1>3 DEF Consistent
    <3> QED
      BY <3>1 DEF JobsAgree
  <2> QED
    BY <2>7, <2>8, <2>10
<1>10. Round(left \ {j}, c)
  BY <1>8, <1>9 DEF Round
<1> QED
  BY <1>7, <1>10 DEF c

\* What is due until a day makes a round.
LEMMA DueRound ==
  ASSUME NEW b, Consistent(b), NEW until \in Int
  PROVE  Round(Due(b, until), b)
<1>1. b \in Books /\ JobsAgree(b)
  BY DEF Consistent
<1>2. ASSUME NEW j \in Due(b, until), NEW u \in Terms(b), b.txs[u].state = "SCHEDULED",
             b.txs[u].from < b.jobs[j].due
      PROVE  b.txs[u].job \in Due(b, until)
  <2> DEFINE i == b.txs[u].job
  <2>1. u \in DOMAIN b.txs
    BY <1>1, TermsOf
  <2>2. i \in DOMAIN b.jobs /\ b.jobs[i].state = "PENDING" /\ b.jobs[i].due = b.txs[u].from
    BY <1>1, <1>2, <2>1 DEF JobsAgree
  <2>3. j \in DOMAIN b.jobs /\ b.jobs[j].due <= until
    BY DEF Due
  <2>4. b.jobs[j].due \in Int /\ b.jobs[i].due \in Int
    BY <1>1, <2>2, <2>3, Tables DEF BookingJob
  <2>5. b.jobs[i].due <= until
    BY <1>2, <2>2, <2>3, <2>4
  <2> HIDE DEF i
  <2>6. i \in Due(b, until)
    BY <2>2, <2>5 DEF Due
  <2> QED
    BY <2>6 DEF i
<1> QED
  BY <1>2 DEF Round, Due

\* run_due.
LEMMA DueBook ==
  ASSUME NEW b, Consistent(b), NEW way \in Modes, NEW until \in Int
  PROVE  /\ Consistent(AfterDue(b, way, until)) /\ Onwards(b, AfterDue(b, way, until))
         /\ Chained(b, way) => Chained(AfterDue(b, way, until), way)
         /\ InOrder(b) => InOrder(AfterDue(b, way, until))
<1> DEFINE n == 2 * Len(b.txs)
           start == [left |-> {}, book |-> b]
           Fits(g, m) == g = [i \in 0 .. m |-> IF i = 0 THEN start ELSE Ran(g[i - 1], way, until)]
           ran == CHOOSE g : Fits(g, n)
           Without == {m \in Nat : ~ \E g : Fits(g, m)}
<1>1. AfterDue(b, way, until) = ran[n].book
  BY DEF AfterDue
<1>2. n \in Nat /\ b \in Books
  BY Tables DEF Consistent
<1>3. start.left = {} /\ start.book = b
  OBVIOUS
<1> HIDE DEF n, start
<1>4. Without = {}
  <2>1. SUFFICES ASSUME Without # {} PROVE FALSE
    OBVIOUS
  <2>2. Without \in SUBSET Nat
    OBVIOUS
  <2>3. PICK m \in Without : \A l \in Without : m <= l
    <3> HIDE DEF Without
    <3> QED
      BY <2>1, <2>2, LeastNumber
  <2>4. CASE m = 0
    <3>1. Fits([i \in 0 .. 0 |-> start], 0)
      OBVIOUS
    <3> QED
      BY <2>3, <2>4, <3>1
  <2>5. CASE m # 0
    <3>1. m \in Nat /\ m - 1 \in Nat
      BY <2>3, <2>5
    <3>2. m - 1 \notin Without
      <4> HIDE DEF Without
      <4> QED
        BY <2>3, <3>1
    <3>3. PICK g : Fits(g, m - 1)
      BY <3>1, <3>2
    <3> DEFINE h == [i \in 0 .. m |-> IF i = m THEN Ran(g[m - 1], way, until) ELSE g[i]]
    <3>4. \A i \in 0 .. m - 1 : g[i] = IF i = 0 THEN start ELSE Ran(g[i - 1], way, until)
      BY <3>3
    <3>5. ASSUME NEW i \in 0 .. m PROVE h[i] = IF i = 0 THEN start ELSE Ran(h[i - 1], way, until)
      <4>1. CASE i = m
        BY <4>1, <3>1, <2>5
      <4>2. CASE i # m
        <5>1. i \in 0 .. m - 1 /\ h[i] = g[i]
          BY <4>2, <3>1
        <5>2. i # 0 => h[i - 1] = g[i - 1]
          BY <4>2, <3>1
        <5> QED
          BY <5>1, <5>2, <3>4
      <4> QED
        BY <4>1, <4>2
    <3>6. h = [i \in 0 .. m |-> IF i = 0 THEN start ELSE Ran(h[i - 1], way, until)]
      <4> HIDE DEF h
      <4>1. h = [i \in 0 .. m |-> h[i]]
        BY DEF h
      <4> QED
        BY <4>1, <3>5
    <3>7. Fits(h, m)
      BY <3>6
    <3> QED
      BY <2>3, <3>7
  <2> QED
    BY <2>4, <2>5
<1>5. Fits(ran, n)
  BY <1>2, <1>4
<1>6. \A i \in 0 .. n : ran[i] = IF i = 0 THEN start ELSE Ran(ran[i - 1], way, until)
  BY <1>5
<1> HIDE DEF ran
<1> DEFINE Good(i) == /\ Consistent(ran[i].book) /\ Onwards(b, ran[i].book)
                      /\ Chained(b, way) => Chained(ran[i].book, way)
                      /\ ran[i].left \subseteq DOMAIN ran[i].book.jobs
                      /\ InOrder(b) => InOrder(ran[i].book) /\ Round(ran[i].left, ran[i].book)
           Bad == {i \in 0 .. n : ~ Good(i)}
<1>7. Bad = {}
  <2>1. SUFFICES ASSUME Bad # {} PROVE FALSE
    OBVIOUS
  <2>2. Bad \in SUBSET Nat
    BY <1>2
  <2>3. PICK i \in Bad : \A l \in Bad : i <= l
    <3> HIDE DEF Bad
    <3> QED
      BY <2>1, <2>2, LeastNumber
  <2>4. i # 0
    <3>1. ran[0] = start /\ Onwards(b, b)
      BY <1>2, <1>6, OnwardsNothing
    <3>2. Good(0)
      BY <3>1, <1>3 DEF Round
    <3> QED
      BY <2>3, <3>2
  <2>5. i - 1 \in 0 .. n /\ i \in 0 .. n
    BY <2>3, <2>4, <1>2
  <2>6. i - 1 \notin Bad
    <3> HIDE DEF Bad
    <3> QED
      BY <2>3, <2>5, <1>2
  <2>7. Good(i - 1)
    BY <2>5, <2>6
  <2> DEFINE s == ran[i - 1]
             j == Earliest([k \in s.left |-> s.book.jobs[k].due])
  <2>8. ran[i] = Ran(s, way, until)
    BY <1>6, <2>4, <2>5
  <2>9. CASE s.left = {}
    <3>1. ran[i].left = Due(s.book, until) /\ ran[i].book = s.book
      BY <2>8, <2>9 DEF Ran
    <3>2. Good(i)
      <4>1. Due(s.book, until) \subseteq DOMAIN s.book.jobs
        BY DEF Due
      <4> QED
        BY <2>7, <3>1, <4>1, DueRound
    <3> QED
      BY <2>3, <3>2
  <2>10. CASE s.left # {}
    <3>1. ran[i].left = s.left \ {j} /\ ran[i].book = RunJob(s.book, way, j)
      BY <2>8, <2>10 DEF Ran
    <3>2. j \in s.left /\ \A k \in s.left : s.book.jobs[j].due <= s.book.jobs[k].due
      <4>1. DOMAIN s.book.jobs = 1 .. Len(s.book.jobs) /\ Len(s.book.jobs) \in Nat
        BY <2>7, Tables DEF Consistent
      <4>2. \A m \in Nat : IsFiniteSet(1 .. m)
        BY FS_Interval
      <4>3. s.left \in SUBSET Nat /\ IsFiniteSet(s.left)
        <5>1. IsFiniteSet(1 .. Len(s.book.jobs))
          BY <4>1, <4>2
        <5> QED
          BY <2>7, <4>1, <5>1, FS_Subset
      <4> DEFINE due == [k \in s.left |-> s.book.jobs[k].due]
      <4>4. due \in [s.left -> Int]
        BY <2>7, Tables DEF Consistent, BookingJob
      <4>5. j = Earliest(due) /\ \A k \in s.left : due[k] = s.book.jobs[k].due
        OBVIOUS
      <4> HIDE DEF due, j
      <4>6. j \in s.left /\ \A k \in s.left : due[j] <= due[k]
        BY <2>10, <4>3, <4>4, <4>5, EarliestIsOne
      <4> QED
        BY <4>5, <4>6
    <3> HIDE DEF s, j
    <3>3. /\ Consistent(ran[i].book) /\ Onwards(s.book, ran[i].book)
          /\ Chained(s.book, way) => Chained(ran[i].book, way)
      BY <2>7, <3>1, <3>2, JobRun DEF s
    <3>4. Onwards(b, ran[i].book)
      BY <2>7, <3>3, OnwardsTwice DEF s
    <3>5. ran[i].left \subseteq DOMAIN ran[i].book.jobs
      BY <2>7, <3>1, <3>3 DEF Onwards, s
    <3>6. InOrder(b) => InOrder(ran[i].book) /\ Round(ran[i].left, ran[i].book)
      BY <2>7, <3>1, <3>2, RoundRun DEF s
    <3>7. Good(i)
      BY <2>7, <3>3, <3>4, <3>5, <3>6 DEF s
    <3> QED
      BY <2>3, <3>7
  <2> QED
    BY <2>9, <2>10
<1>8. Good(n)
  BY <1>2, <1>7
<1> QED
  BY <1>1, <1>8

\* run_next.
LEMMA NextBook ==
  ASSUME NEW b, Consistent(b), NEW way \in Modes, With(b, "SCHEDULED") # {}
  PROVE  /\ Consistent(AfterNext(b, way)) /\ Onwards(b, AfterNext(b, way))
         /\ Chained(b, way) => Chained(AfterNext(b, way), way)
         /\ InOrder(b) => InOrder(AfterNext(b, way))
<1> DEFINE t == First(b, With(b, "SCHEDULED"))
<1>0. b \in Books
  BY DEF Consistent
<1>1. t \in With(b, "SCHEDULED") /\ \A u \in With(b, "SCHEDULED") : b.txs[t].from <= b.txs[u].from
  BY <1>0, WaitingIsFinite, FirstIsOne
<1>2. AfterNext(b, way) = Book(b, way, t) /\ t \in Pending(b) /\ t \in DOMAIN b.txs
      /\ b.txs[t].state = "SCHEDULED"
  BY <1>1 DEF AfterNext, Pending, With
<1> HIDE DEF t
<1>3. ASSUME InOrder(b), t \in Terms(b), NEW u \in Terms(b), b.txs[u].from < b.txs[t].from
      PROVE  b.txs[u].state = "BOOKED"
  <2>1. /\ u \in DOMAIN b.txs /\ b.txs[u].from \in Int /\ b.txs[t].from \in Int
        /\ b.txs[u].state \in {"INITIAL", "SCHEDULED", "BOOKED"}
    BY <1>0, <1>2, TermsOf, Tables DEF Transaction
  <2>2. b.txs[u].state # "INITIAL"
    BY <1>2, <1>3 DEF InOrder
  <2>3. b.txs[u].state # "SCHEDULED"
    BY <1>1, <1>3, <2>1 DEF With
  <2> QED
    BY <2>1, <2>2, <2>3
<1>4. InOrder(b) => InOrder(Book(b, way, t))
  BY <1>2, <1>3, BookedInOrder
<1> QED
  BY <1>2, <1>4, BookedBook

-----------------------------------------------------------------------------
(* The ledger: what is charged. *)

\* The share of an amount that is a rate per day: what the days come to.
LEMMA ExactShare ==
  ASSUME NEW r \in Int, NEW p \in Int, NEW w \in Int, w > 0
  PROVE  ((r * w) * p) \div w = r * p
<1> DEFINE x == r * p
           m == (r * w) * p
           q == m \div w
<1>1. x \in Int /\ m = w * x
  OBVIOUS
<1>2. m \in Int
  OBVIOUS
<1> HIDE DEF x, m
<1>3. q \in Int /\ w * q <= m /\ m < w * q + w
  BY <1>2
<1> HIDE DEF q
<1>4. w * q <= w * x /\ w * x < w * q + w
  BY <1>1, <1>3
<1>5. CASE q > x
  <2>1. w * q >= w * x + w
    BY <1>1, <1>3, <1>5
  <2> QED
    BY <1>1, <1>3, <1>4, <2>1
<1>6. CASE q < x
  <2>1. w * x >= w * q + w
    BY <1>1, <1>3, <1>6
  <2> QED
    BY <1>1, <1>3, <1>4, <2>1
<1> QED
  BY <1>1, <1>3, <1>5, <1>6 DEF x, m, q

\* The days of a span from a day on, and those of a transaction.
DaysLeft(lo, hi, d) == Upper(0, hi - Upper(lo, d))
Rest(tx, d) == DaysLeft(tx.from, tx.to, d)

\* Multiples of a number that is not negative grow.
LEMMA Multiples ==
  ASSUME NEW i \in Int, NEW j \in Int, i <= j, NEW p \in Nat
  PROVE  i * p <= j * p /\ i * p \in Int /\ j * p \in Int
<1>1. (j - i) * p >= 0
  BY SMT
<1>2. j * p = i * p + (j - i) * p
  OBVIOUS
<1>3. i * p \in Int /\ j * p \in Int /\ (j - i) * p \in Int
  OBVIOUS
<1> QED
  BY <1>1, <1>2, <1>3

\* The periods of a span begin one where the other ends.
PeriodCount(start, end) == (end - start + Period - 1) \div Period
PeriodFrom(start, i) == start + (i - 1) * Period
PeriodTo(start, end, i) == Lower(start + i * Period, end)

\* The periods of a term, one by one.
LEMMA PeriodsAre ==
  ASSUME NEW start \in Int, NEW end \in Int
  PROVE  /\ DOMAIN Periods(start, end) = 1 .. PeriodCount(start, end)
         /\ \A i \in 1 .. PeriodCount(start, end) :
              Periods(start, end)[i] = << PeriodFrom(start, i), PeriodTo(start, end, i) >>
  BY DEF Periods, PeriodCount, PeriodFrom, PeriodTo

\* The periods of a term follow each other without a gap, from its start to its end.
LEMMA PeriodsFollow ==
  ASSUME NEW start \in Int, NEW end \in Int, start <= end
  PROVE  /\ PeriodCount(start, end) \in Nat
         /\ \A i \in 1 .. PeriodCount(start, end) :
              /\ PeriodFrom(start, i) \in Int /\ PeriodTo(start, end, i) \in Int
              /\ start <= PeriodFrom(start, i) /\ PeriodFrom(start, i) < PeriodTo(start, end, i)
              /\ PeriodTo(start, end, i) <= end
              /\ \A j \in 1 .. PeriodCount(start, end) : i < j => PeriodTo(start, end, i) <= PeriodFrom(start, j)
         /\ \A k \in 0 .. PeriodCount(start, end) - 1 :
              PeriodTo(start, end, k) = PeriodFrom(start, k + 1) /\ PeriodTo(start, end, k) \in Int
         /\ PeriodTo(start, end, PeriodCount(start, end)) = end
         /\ PeriodTo(start, end, 0) = start
<1> DEFINE n == PeriodCount(start, end)
           days == end - start
<1>0. days \in Nat /\ Period \in Nat /\ Period > 0 /\ end = start + days
  BY PeriodAssumption
<1>1. n = (days + Period - 1) \div Period
  BY DEF PeriodCount
<1> HIDE DEF n, days
<1>4. n \in Nat /\ Period * n <= days + Period - 1 /\ days + Period - 1 < Period * n + Period
  <2> DEFINE m == days + Period - 1
  <2>1. m \in Nat /\ n = m \div Period
    BY <1>0, <1>1
  <2> HIDE DEF m
  <2>2. n \in Int /\ Period * n <= m /\ m < Period * n + Period
    BY <1>0, <2>1
  <2>3. n >= 0
    BY <1>0, <2>1
  <2> QED
    BY <2>1, <2>2, <2>3 DEF m
<1>5. ASSUME NEW i \in Int, i <= n - 1 PROVE i * Period \in Int /\ i * Period < days
  <2>1. i * Period <= (n - 1) * Period /\ (n - 1) * Period \in Int /\ i * Period \in Int
    BY <1>0, <1>4, <1>5, Multiples
  <2>2. (n - 1) * Period = Period * n - Period /\ Period * n \in Int
    BY <1>0, <1>4
  <2> QED
    BY <2>1, <2>2, <1>0, <1>4
<1>6. ASSUME NEW i \in Int
      PROVE  /\ i * Period \in Int /\ (i - 1) * Period \in Int /\ i * Period = (i - 1) * Period + Period
             /\ i >= 0 => i * Period >= 0
  <2>1. i >= 0 => 0 * Period <= i * Period
    BY <1>0, Multiples
  <2> QED
    BY <2>1, <1>0
<1>7. ASSUME NEW i \in 1 .. n
      PROVE  /\ PeriodFrom(start, i) \in Int /\ PeriodTo(start, end, i) \in Int
             /\ start <= PeriodFrom(start, i) /\ PeriodFrom(start, i) < PeriodTo(start, end, i)
             /\ PeriodTo(start, end, i) <= end
  <2> DEFINE x == (i - 1) * Period
             y == i * Period
  <2>1. x \in Int /\ y \in Int /\ y = x + Period
    BY <1>6
  <2>2. x < days
    BY <1>4, <1>5
  <2>3. x >= 0
    BY <1>4, <1>6
  <2>4. PeriodFrom(start, i) = start + x /\ PeriodTo(start, end, i) = Lower(start + y, end)
    BY DEF PeriodFrom, PeriodTo
  <2> HIDE DEF x, y
  <2> QED
    BY <1>0, <2>1, <2>2, <2>3, <2>4 DEF Lower
<1>8. ASSUME NEW i \in 1 .. n, NEW j \in 1 .. n, i < j
      PROVE  PeriodTo(start, end, i) <= PeriodFrom(start, j)
  <2> DEFINE x == (j - 1) * Period
             y == i * Period
  <2>1. x \in Int /\ y \in Int /\ y <= x
    BY <1>0, <1>4, <1>8, Multiples
  <2>2. PeriodFrom(start, j) = start + x /\ PeriodTo(start, end, i) = Lower(start + y, end)
    BY DEF PeriodFrom, PeriodTo
  <2> HIDE DEF x, y
  <2> QED
    BY <1>0, <2>1, <2>2 DEF Lower
<1>9. ASSUME NEW k \in 0 .. n - 1
      PROVE  PeriodTo(start, end, k) = PeriodFrom(start, k + 1) /\ PeriodTo(start, end, k) \in Int
  <2> DEFINE y == k * Period
  <2>1. y \in Int /\ y < days
    BY <1>4, <1>5
  <2>2. PeriodFrom(start, k + 1) = start + y /\ PeriodTo(start, end, k) = Lower(start + y, end)
    BY <1>4 DEF PeriodFrom, PeriodTo
  <2> HIDE DEF y
  <2> QED
    BY <1>0, <2>1, <2>2 DEF Lower
<1>10. PeriodTo(start, end, n) = end
  <2> DEFINE y == n * Period
  <2>1. y \in Int /\ y >= days
    BY <1>0, <1>4
  <2>2. PeriodTo(start, end, n) = Lower(start + y, end)
    BY DEF PeriodTo
  <2> HIDE DEF y
  <2> QED
    BY <1>0, <2>1, <2>2 DEF Lower
<1>11. PeriodTo(start, end, 0) = start
  <2>1. 0 * Period = 0
    BY <1>0
  <2> QED
    BY <1>0, <2>1 DEF PeriodTo, Lower
<1> QED
  BY <1>4, <1>7, <1>8, <1>9, <1>10, <1>11 DEF n

\* The periods of a span have its days between them.
DaysOfPeriods(w, l, start, end, d) ==
  \A i \in 1 .. PeriodCount(start, end) :
    w[l + i] = DaysLeft(PeriodFrom(start, i), PeriodTo(start, end, i), d)

\* Together they have the days of the term, from any day on.
LEMMA PeriodsCover ==
  ASSUME NEW start \in Int, NEW end \in Int, start <= end, NEW l \in Nat, NEW d \in Int, NEW w,
         DaysOfPeriods(w, l, start, end, d)
  PROVE  SumFunctionOnSet(w, l + 1 .. l + PeriodCount(start, end)) = DaysLeft(start, end, d)
<1> DEFINE n == PeriodCount(start, end)
           To(k) == PeriodTo(start, end, k)
           T(k) == l + 1 .. l + k
           G == {k \in Nat : k <= n => SumFunctionOnSet(w, T(k)) = DaysLeft(start, To(k), d)}
<1>1. /\ n \in Nat
      /\ \A i \in 1 .. n : /\ PeriodFrom(start, i) \in Int /\ To(i) \in Int
                           /\ start <= PeriodFrom(start, i) /\ PeriodFrom(start, i) < To(i)
      /\ \A k \in 0 .. n - 1 : To(k) = PeriodFrom(start, k + 1)
      /\ To(n) = end /\ To(0) = start
  <2>1. n \in Nat /\ \A i \in 1 .. n : PeriodFrom(start, i) \in Int /\ To(i) \in Int
    BY PeriodsFollow
  <2>2. \A i \in 1 .. n : start <= PeriodFrom(start, i) /\ PeriodFrom(start, i) < To(i)
    BY PeriodsFollow
  <2>3. \A k \in 0 .. n - 1 : To(k) = PeriodFrom(start, k + 1)
    BY PeriodsFollow
  <2>4. To(n) = end /\ To(0) = start
    BY PeriodsFollow
  <2> HIDE DEF n, To
  <2> QED
    BY <2>1, <2>2, <2>3, <2>4
<1> HIDE DEF n, To
<1>2. ASSUME NEW i \in 1 .. n
      PROVE  w[l + i] = DaysLeft(PeriodFrom(start, i), To(i), d) /\ w[l + i] \in Int
  <2>1. w[l + i] = DaysLeft(PeriodFrom(start, i), To(i), d)
    BY DEF n, To, DaysOfPeriods
  <2> QED
    BY <1>1, <2>1 DEF DaysLeft, Upper
<1>3. 0 \in G
  <2>1. T(0) = {}
    OBVIOUS
  <2>2. SumFunctionOnSet(w, {}) = 0
    BY FS_EmptySet, SumOfZeros
  <2>3. DaysLeft(start, start, d) = 0
    BY DEF DaysLeft, Upper
  <2> QED
    BY <1>1, <2>1, <2>2, <2>3
<1>4. ASSUME NEW k \in G PROVE k + 1 \in G
  <2> SUFFICES ASSUME k + 1 <= n PROVE SumFunctionOnSet(w, T(k + 1)) = DaysLeft(start, To(k + 1), d)
    OBVIOUS
  <2> DEFINE D == T(k + 1)
             x == l + (k + 1)
  <2>1. x \in D /\ D \ {x} = T(k) /\ IsFiniteSet(D)
    <3>1. IsFiniteSet(D)
      BY FS_Interval
    <3> QED
      BY <3>1
  <2>2. Ints(w, D)
    <3>1. ASSUME NEW y \in D PROVE w[y] \in Int
      <4>1. y - l \in 1 .. n /\ l + (y - l) = y
        BY <1>1
      <4> QED
        BY <4>1, <1>2
    <3> QED
      BY <3>1 DEF Ints
  <2>3. k + 1 \in 1 .. n /\ k \in 0 .. n - 1 /\ w[x] = DaysLeft(PeriodFrom(start, k + 1), To(k + 1), d)
    <3>1. k + 1 \in 1 .. n /\ k \in 0 .. n - 1
      BY <1>1
    <3> QED
      BY <3>1, <1>2
  <2>4. SumFunctionOnSet(w, T(k)) = DaysLeft(start, To(k), d)
    BY <1>1, <2>3
  <2>5. SumFunctionOnSet(w, D) = w[x] + SumFunctionOnSet(w, T(k))
    <3> HIDE DEF D, x, T
    <3> QED
      BY <2>1, <2>2, SumOfInts
  <2> DEFINE p == PeriodFrom(start, k + 1)
             q == To(k + 1)
  <2>6. p \in Int /\ q \in Int /\ start <= p /\ p < q /\ To(k) = p
    BY <1>1, <2>3
  <2> HIDE DEF p, q
  <2>8. p <= q
    BY <2>6
  <2>7. DaysLeft(start, p, d) + DaysLeft(p, q, d) = DaysLeft(start, q, d) /\ DaysLeft(start, p, d) \in Int /\ DaysLeft(p, q, d) \in Int
    BY <2>6, <2>8 DEF DaysLeft, Upper
  <2> QED
    BY <2>3, <2>4, <2>5, <2>6, <2>7 DEF p, q
<1>5. G = Nat
  <2>1. G \in SUBSET Nat
    OBVIOUS
  <2> HIDE DEF G
  <2> QED
    BY <1>3, <1>4, <2>1, ByNumbers
<1>6. SumFunctionOnSet(w, T(n)) = DaysLeft(start, To(n), d)
  <2>1. n \in G
    <3> HIDE DEF G
    <3> QED
      BY <1>1, <1>5
  <2>2. n <= n
    BY <1>1
  <2> QED
    BY <2>1, <2>2
<1> QED
  BY <1>1, <1>6 DEF n

\* A transaction whose amount is a price per day, that price, and what of it is for the days from
\* a day on.
IsExact(tx) == tx.from < tx.to /\ \E r \in Int : tx.net = r * (tx.to - tx.from)
Rate(tx) == tx.net \div (tx.to - tx.from)
Owed(tx, d) == Rate(tx) * Rest(tx, d)

\* What is owed of an amount that is a rate per day.
LEMMA ExactAmounts ==
  ASSUME NEW tx \in Transaction, IsExact(tx), NEW d \in Int
  PROVE  /\ Rate(tx) \in Int /\ tx.net = Rate(tx) * (tx.to - tx.from)
         /\ tx.from \in Int /\ tx.to \in Int /\ tx.net \in Int /\ tx.from < tx.to
         /\ Rest(tx, d) \in Int /\ Owed(tx, d) \in Int
         /\ d <= tx.from => Rest(tx, d) = tx.to - tx.from /\ Owed(tx, d) = tx.net
         /\ d >= tx.to => Rest(tx, d) = 0 /\ Owed(tx, d) = 0
<1>1. tx.from \in Int /\ tx.to \in Int /\ tx.net \in Int /\ tx.from < tx.to
  BY DEF Transaction, IsExact
<1> DEFINE w == tx.to - tx.from
<1>2. PICK r \in Int : tx.net = r * w
  BY DEF IsExact
<1>3. w \in Int /\ w > 0
  BY <1>1
<1>4. Rate(tx) = tx.net \div w
  BY DEF Rate
<1>5. Rest(tx, d) \in Int /\ (d <= tx.from => Rest(tx, d) = w) /\ (d >= tx.to => Rest(tx, d) = 0)
  BY <1>1 DEF Rest, DaysLeft, Upper
<1> HIDE DEF w
<1>6. ((r * w) * 1) \div w = r * 1
  BY <1>3, ExactShare
<1>7. (r * w) * 1 = r * w /\ r * 1 = r
  BY <1>3
<1>8. Rate(tx) = r
  BY <1>2, <1>4, <1>6, <1>7
<1>9. Owed(tx, d) = r * Rest(tx, d)
  BY <1>8 DEF Owed
<1>10. Owed(tx, d) \in Int /\ r * 0 = 0
  BY <1>5, <1>9
<1> QED
  BY <1>1, <1>2, <1>5, <1>8, <1>9, <1>10 DEF w

\* The price per day of an amount.
LEMMA RateOf ==
  ASSUME NEW tx \in Transaction, tx.from < tx.to, NEW r \in Int, tx.net = r * (tx.to - tx.from)
  PROVE  IsExact(tx) /\ Rate(tx) = r
<1> DEFINE w == tx.to - tx.from
<1>1. w \in Int /\ w > 0
  BY DEF Transaction
<1>2. Rate(tx) = (r * w) \div w
  BY DEF Rate
<1> HIDE DEF w
<1>3. ((r * w) * 1) \div w = r * 1
  BY <1>1, ExactShare
<1>4. (r * w) * 1 = r * w /\ r * 1 = r
  BY <1>1
<1> QED
  BY <1>2, <1>3, <1>4 DEF IsExact

\* What the transactions of a book are for and come to.
RestFrom(b, d) == SumFunction([t \in Terms(b) |-> Rest(b.txs[t], d)])
OwedFrom(b, d) == SumFunction([t \in Live(b) |-> Owed(b.txs[t], d)])
Charged(b) == SumFunction([t \in Live(b) |-> b.txs[t].net])

\* The terms have every day from one day up to another once.
Tiled(b, lo, hi) ==
  /\ \A t \in Terms(b) : lo <= b.txs[t].from /\ b.txs[t].from < b.txs[t].to /\ b.txs[t].to <= hi
  /\ \A t, u \in Terms(b) : t # u => b.txs[t].to <= b.txs[u].from \/ b.txs[u].to <= b.txs[t].from
  /\ \A d \in Int : RestFrom(b, d) = DaysLeft(lo, hi, d)
Exact(b) == \A t \in Live(b) : IsExact(b.txs[t])
NotClosed(b) == \A t \in Live(b) : b.txs[t].kind # "CANCEL"

\* What is not booked of the periods after a day is at a price.
PricedAhead(b, day, price) ==
  \A t \in Terms(b) :
    b.txs[t].state # "BOOKED" /\ day < b.txs[t].from => b.txs[t].net = price * (b.txs[t].to - b.txs[t].from)

\* What is not of a term comes to nothing.
Zeros(b) == \A t \in Live(b) \ Terms(b) : b.txs[t].net = 0

\* Going onwards changes no amount.
LEMMA AmountsKept ==
  ASSUME NEW b \in Books, NEW c, Onwards(b, c)
  PROVE  /\ \A d : RestFrom(c, d) = RestFrom(b, d) /\ OwedFrom(c, d) = OwedFrom(b, d)
         /\ Charged(c) = Charged(b)
         /\ \A lo, hi : Tiled(b, lo, hi) => Tiled(c, lo, hi)
         /\ Exact(b) => Exact(c)
         /\ NotClosed(b) => NotClosed(c)
         /\ Zeros(b) => Zeros(c)
         /\ \A day, price : PricedAhead(b, day, price) => PricedAhead(c, day, price)
<1>1. Live(c) = Live(b) /\ Terms(c) = Terms(b) /\ Terms(b) \in SUBSET Live(b) /\ Live(b) \in SUBSET DOMAIN b.txs
  BY SameTerms, TermsOf
<1>2. ASSUME NEW t \in Live(b)
      PROVE  /\ c.txs[t].kind = b.txs[t].kind /\ c.txs[t].from = b.txs[t].from
             /\ c.txs[t].to = b.txs[t].to /\ c.txs[t].net = b.txs[t].net
             /\ b.txs[t].state = "BOOKED" => c.txs[t].state = "BOOKED"
  BY <1>1 DEF Onwards, Same
<1>3. \A t \in Live(b) : \A d : Rest(c.txs[t], d) = Rest(b.txs[t], d) /\ Owed(c.txs[t], d) = Owed(b.txs[t], d)
  BY <1>2 DEF Rest, Owed, Rate
<1>4. \A d : RestFrom(c, d) = RestFrom(b, d)
  BY <1>1, <1>3 DEF RestFrom
<1>5. \A d : OwedFrom(c, d) = OwedFrom(b, d)
  BY <1>1, <1>3 DEF OwedFrom
<1>6. Charged(c) = Charged(b)
  BY <1>1, <1>2 DEF Charged
<1>7. ASSUME NEW lo, NEW hi, Tiled(b, lo, hi) PROVE Tiled(c, lo, hi)
  <2>1. \A t \in Terms(b) : t \in Live(b)
    BY <1>1
  <2> QED
    BY <1>1, <1>2, <1>4, <1>7, <2>1 DEF Tiled
<1>8. Exact(b) => Exact(c)
  BY <1>1, <1>2 DEF Exact, IsExact
<1>9. NotClosed(b) => NotClosed(c)
  BY <1>1, <1>2 DEF NotClosed
<1>10. ASSUME NEW day, NEW price, PricedAhead(b, day, price) PROVE PricedAhead(c, day, price)
  BY <1>1, <1>2, <1>10 DEF PricedAhead
<1>11. Zeros(b) => Zeros(c)
  BY <1>1, <1>2 DEF Zeros
<1> QED
  BY <1>4, <1>5, <1>6, <1>7, <1>8, <1>9, <1>10, <1>11

\* The rows that are added.
NewRows(b, more) == Len(b.txs) + 1 .. Len(b.txs) + Len(more)

\* Transactions that wait.
AllWait(more) == \A i \in DOMAIN more : more[i].state = "INITIAL" /\ more[i].job = NoJob

\* What a book is with some rows more.
AddedTo(b, more, c, N) ==
  /\ Consistent(c) /\ c \in Books /\ IsFiniteSet(N) /\ N \cap DOMAIN b.txs = {}
  /\ DOMAIN c.txs = DOMAIN b.txs \cup N
  /\ \A t \in DOMAIN b.txs : c.txs[t] = b.txs[t]
  /\ \A i \in DOMAIN more : Len(b.txs) + i \in N /\ c.txs[Len(b.txs) + i] = more[i]
  /\ \A t \in N : t - Len(b.txs) \in DOMAIN more /\ c.txs[t] = more[t - Len(b.txs)]
  /\ \A t \in N : c.txs[t].state = "INITIAL"
  /\ Live(c) = Live(b) \cup N
  /\ Terms(c) = Terms(b) \cup {t \in N : c.txs[t].kind \in {"NEW", "RENEW"}}

\* What is added comes after what was there, which stays.
LEMMA AddedRows ==
  ASSUME NEW b, Consistent(b), NEW more \in Seq(Transaction), AllWait(more)
  PROVE  AddedTo(b, more, Added(b, more), NewRows(b, more))
<1> DEFINE c == Added(b, more)
           N == NewRows(b, more)
           n == Len(b.txs)
<1>1. b \in Books /\ n \in Nat /\ DOMAIN b.txs = 1 .. n /\ b.txs \in Seq(Transaction)
  BY Tables DEF Consistent
<1>2. Len(more) \in Nat /\ DOMAIN more = 1 .. Len(more)
  BY LenProperties
<1>3. Consistent(c) /\ c.txs = b.txs \o more
  BY AddedBook DEF AllWait
<1>4. DOMAIN c.txs = 1 .. n + Len(more) /\ \A t \in 1 .. n + Len(more) : c.txs[t] = IF t <= n THEN b.txs[t] ELSE more[t - n]
  BY <1>1, <1>2, <1>3, ConcatProperties
<1>5. IsFiniteSet(N)
  BY <1>1, <1>2, FS_Interval DEF NewRows
<1> HIDE DEF c
<1>6. N = n + 1 .. n + Len(more)
  BY DEF NewRows
<1> HIDE DEF N, n
<1>7. N \cap DOMAIN b.txs = {} /\ DOMAIN c.txs = DOMAIN b.txs \cup N /\ \A t \in DOMAIN b.txs : c.txs[t] = b.txs[t]
  <2>1. \A t \in DOMAIN b.txs : t \in 1 .. n + Len(more) /\ t <= n
    BY <1>1, <1>2
  <2>2. N \cap DOMAIN b.txs = {}
    BY <1>1, <1>6
  <2>3. 1 .. n + Len(more) = (1 .. n) \cup (n + 1 .. n + Len(more))
    BY <1>1, <1>2
  <2> QED
    BY <1>1, <1>4, <1>6, <2>1, <2>2, <2>3
<1>8. \A i \in DOMAIN more : n + i \in N /\ c.txs[n + i] = more[i]
  <2> SUFFICES ASSUME NEW i \in DOMAIN more PROVE n + i \in N /\ c.txs[n + i] = more[i]
    OBVIOUS
  <2>1. n + i \in N /\ ~ (n + i <= n) /\ (n + i) - n = i /\ n + i \in 1 .. n + Len(more)
    BY <1>1, <1>2, <1>6
  <2> QED
    BY <2>1, <1>4
<1>9. \A t \in N : t - n \in DOMAIN more /\ c.txs[t] = more[t - n]
  <2> SUFFICES ASSUME NEW t \in N PROVE t - n \in DOMAIN more /\ c.txs[t] = more[t - n]
    OBVIOUS
  <2>1. t - n \in DOMAIN more /\ ~ (t <= n) /\ t \in 1 .. n + Len(more)
    BY <1>1, <1>2, <1>6
  <2> QED
    BY <2>1, <1>4
<1>10. \A t \in N : c.txs[t].state = "INITIAL"
  BY <1>9 DEF AllWait
<1>11. Live(c) = Live(b) \cup N
  BY <1>7, <1>10 DEF Live, With
<1>12. Terms(c) = Terms(b) \cup {t \in N : c.txs[t].kind \in {"NEW", "RENEW"}}
  <2>1. Live(b) \in SUBSET DOMAIN b.txs
    BY <1>1, TermsOf
  <2> QED
    BY <2>1, <1>7, <1>11 DEF Terms
<1> QED
  BY <1>3, <1>5, <1>7, <1>8, <1>9, <1>10, <1>11, <1>12 DEF Consistent, AddedTo, c, N, n

\* The transactions that are not voided.
LEMMA LiveRows ==
  ASSUME NEW b \in Books
  PROVE  /\ IsFiniteSet(Live(b)) /\ IsFiniteSet(Terms(b))
         /\ Terms(b) \in SUBSET Live(b) /\ Live(b) \in SUBSET DOMAIN b.txs
         /\ \A t \in Live(b) : /\ b.txs[t] \in Transaction /\ b.txs[t].net \in Int
                               /\ b.txs[t].from \in Int /\ b.txs[t].to \in Int
<1>1. IsFiniteSet(DOMAIN b.txs)
  <2>1. DOMAIN b.txs = 1 .. Len(b.txs) /\ Len(b.txs) \in Nat
    BY Tables
  <2>2. \A n \in Nat : IsFiniteSet(1 .. n)
    BY FS_Interval
  <2> QED
    BY <2>1, <2>2
<1>2. Terms(b) \in SUBSET Live(b) /\ Live(b) \in SUBSET DOMAIN b.txs
  BY TermsOf
<1>3. IsFiniteSet(Live(b))
  BY <1>1, <1>2, FS_Subset
<1>4. IsFiniteSet(Terms(b))
  BY <1>2, <1>3, FS_Subset
<1>5. \A t \in Live(b) : b.txs[t] \in Transaction
  BY <1>2, Tables
<1> QED
  BY <1>2, <1>3, <1>4, <1>5 DEF Transaction

\* The sums of a book as sums of a function on its rows.
OwedOf(b, d) == [t \in DOMAIN b.txs |-> Owed(b.txs[t], d)]
RestOf(b, d) == [t \in DOMAIN b.txs |-> Rest(b.txs[t], d)]
NetOf(b) == [t \in DOMAIN b.txs |-> b.txs[t].net]

\* The amounts of a book as sums over its rows.
LEMMA SumsOnRows ==
  ASSUME NEW b \in Books, NEW d \in Int
  PROVE  /\ Exact(b) => Ints(OwedOf(b, d), Live(b)) /\ OwedFrom(b, d) = SumFunctionOnSet(OwedOf(b, d), Live(b))
         /\ Ints(RestOf(b, d), Live(b)) /\ RestFrom(b, d) = SumFunctionOnSet(RestOf(b, d), Terms(b))
         /\ Ints(NetOf(b), Live(b)) /\ Charged(b) = SumFunctionOnSet(NetOf(b), Live(b))
<1> DEFINE o == [t \in Live(b) |-> Owed(b.txs[t], d)]
           r == [t \in Terms(b) |-> Rest(b.txs[t], d)]
           n == [t \in Live(b) |-> b.txs[t].net]
<1>1. /\ OwedFrom(b, d) = SumFunctionOnSet(o, Live(b)) /\ RestFrom(b, d) = SumFunctionOnSet(r, Terms(b))
      /\ Charged(b) = SumFunctionOnSet(n, Live(b))
  BY DEF OwedFrom, RestFrom, Charged, SumFunction
<1>2. /\ IsFiniteSet(Live(b)) /\ IsFiniteSet(Terms(b)) /\ Terms(b) \in SUBSET Live(b)
      /\ Live(b) \in SUBSET DOMAIN b.txs
  BY LiveRows
<1>3. /\ \A t \in Live(b) : o[t] = OwedOf(b, d)[t] /\ n[t] = NetOf(b)[t]
      /\ \A t \in Terms(b) : r[t] = RestOf(b, d)[t]
  BY <1>2 DEF OwedOf, NetOf, RestOf
<1> HIDE DEF o, r, n
<1>4. Ints(NetOf(b), Live(b)) /\ Ints(RestOf(b, d), Live(b)) /\ Ints(RestOf(b, d), Terms(b))
  BY <1>2, LiveRows DEF Ints, NetOf, RestOf, Rest, DaysLeft, Upper
<1>5. Charged(b) = SumFunctionOnSet(NetOf(b), Live(b)) /\ RestFrom(b, d) = SumFunctionOnSet(RestOf(b, d), Terms(b))
  BY <1>1, <1>2, <1>3, <1>4, SumSame
<1>6. ASSUME Exact(b)
      PROVE  Ints(OwedOf(b, d), Live(b)) /\ OwedFrom(b, d) = SumFunctionOnSet(OwedOf(b, d), Live(b))
  <2>1. \A t \in Live(b) : Owed(b.txs[t], d) \in Int
    BY <1>6, LiveRows, ExactAmounts DEF Exact
  <2>2. Ints(OwedOf(b, d), Live(b))
    BY <2>1, <1>2 DEF Ints, OwedOf
  <2> QED
    BY <2>2, <1>1, <1>2, <1>3, SumSame
<1> QED
  BY <1>4, <1>5, <1>6

\* What one transaction more, that is not of a term, adds.
LEMMA OneMore ==
  ASSUME NEW b, Consistent(b), NEW version \in Nat, NEW kind \in {"CHANGE", "CANCEL"},
         NEW from \in Int, NEW to \in Int, NEW net \in Int
  PROVE  LET c == Add(b, version, kind, from, to, net)
             tx == NewTx(version, kind, from, to, net)
             x == Len(b.txs) + 1
         IN  /\ Consistent(c) /\ c \in Books /\ tx \in Transaction
             /\ x \notin DOMAIN b.txs /\ Live(c) = Live(b) \cup {x} /\ c.txs[x] = tx
             /\ \A t \in DOMAIN b.txs : c.txs[t] = b.txs[t]
             /\ Terms(c) = Terms(b)
             /\ Charged(c) = Charged(b) + net
             /\ \A d \in Int : RestFrom(c, d) = RestFrom(b, d)
             /\ Exact(b) /\ IsExact(tx) =>
                  Exact(c) /\ \A d \in Int : OwedFrom(c, d) = OwedFrom(b, d) + Owed(tx, d)
<1> DEFINE tx == NewTx(version, kind, from, to, net)
           more == << tx >>
           c == Add(b, version, kind, from, to, net)
           x == Len(b.txs) + 1
           N == NewRows(b, more)
<1>1. tx \in Transaction /\ tx.state = "INITIAL" /\ tx.job = NoJob /\ tx.net = net /\ tx.kind = kind
  BY DEF NewTx, Transaction, NoJob
<1>2. c = Added(b, more)
  BY DEF Add
<1> HIDE DEF tx
<1>3. more \in Seq(Transaction) /\ Len(more) = 1 /\ DOMAIN more = {1} /\ more[1] = tx
  BY <1>1
<1>4. b \in Books /\ Len(b.txs) \in Nat
  BY Tables DEF Consistent
<1>5. N = {x}
  BY <1>3, <1>4 DEF NewRows
<1>14. AllWait(more)
  BY <1>1, <1>3 DEF AllWait
<1> HIDE DEF more
<1>15. 1 \in DOMAIN more
  BY <1>3
<1>16. N = NewRows(b, more) /\ x = Len(b.txs) + 1
  OBVIOUS
<1> HIDE DEF x, N
<1>17. AddedTo(b, more, c, N)
  BY <1>2, <1>3, <1>14, <1>16, AddedRows
<1> HIDE DEF c
<1>6. /\ Consistent(c) /\ c \in Books /\ N \cap DOMAIN b.txs = {} /\ DOMAIN c.txs = DOMAIN b.txs \cup N
      /\ \A t \in DOMAIN b.txs : c.txs[t] = b.txs[t]
      /\ c.txs[x] = tx
      /\ Live(c) = Live(b) \cup N
      /\ Terms(c) = Terms(b) \cup {t \in N : c.txs[t].kind \in {"NEW", "RENEW"}}
  <2>1. /\ Consistent(c) /\ c \in Books /\ N \cap DOMAIN b.txs = {} /\ DOMAIN c.txs = DOMAIN b.txs \cup N
        /\ \A t \in DOMAIN b.txs : c.txs[t] = b.txs[t]
    BY <1>17 DEF AddedTo
  <2>2. /\ Live(c) = Live(b) \cup N
        /\ Terms(c) = Terms(b) \cup {t \in N : c.txs[t].kind \in {"NEW", "RENEW"}}
    BY <1>17 DEF AddedTo
  <2>3. c.txs[x] = tx
    BY <1>3, <1>15, <1>16, <1>17 DEF AddedTo
  <2> QED
    BY <2>1, <2>2, <2>3
<1>7. x \notin DOMAIN b.txs /\ Live(c) = Live(b) \cup {x} /\ Terms(c) = Terms(b)
  BY <1>1, <1>5, <1>6
<1>8. IsFiniteSet(Live(b)) /\ IsFiniteSet(Terms(b)) /\ Terms(b) \in SUBSET Live(b) /\ Live(b) \in SUBSET DOMAIN b.txs
  BY <1>4, LiveRows
<1>9. Live(c) \ {x} = Live(b) /\ x \in Live(c) /\ IsFiniteSet(Live(c))
  BY <1>6, <1>7, <1>8, LiveRows
<1>10. Charged(c) = Charged(b) + net
  <2>1. Charged(c) = SumFunctionOnSet(NetOf(c), Live(c)) /\ Charged(b) = SumFunctionOnSet(NetOf(b), Live(b))
        /\ Ints(NetOf(c), Live(c)) /\ Ints(NetOf(b), Live(b))
    <3>1. 0 \in Int
      OBVIOUS
    <3> QED
      BY <3>1, <1>4, <1>6, SumsOnRows
  <2>2. SumFunctionOnSet(NetOf(c), Live(c)) = NetOf(c)[x] + SumFunctionOnSet(NetOf(c), Live(b))
    BY <2>1, <1>9, SumOfInts
  <2>3. NetOf(c)[x] = net
    BY <1>1, <1>5, <1>6 DEF NetOf
  <2>4. \A t \in Live(b) : NetOf(c)[t] = NetOf(b)[t]
    BY <1>6, <1>8 DEF NetOf
  <2>5. SumFunctionOnSet(NetOf(c), Live(b)) = SumFunctionOnSet(NetOf(b), Live(b))
    BY <2>1, <2>4, <1>8, SumSame
  <2>6. SumFunctionOnSet(NetOf(b), Live(b)) \in Int
    BY <2>1, <1>8, SumOfInts
  <2> DEFINE n == SumFunctionOnSet(NetOf(b), Live(b))
  <2>7. Charged(c) = net + n /\ Charged(b) = n /\ n \in Int
    BY <2>1, <2>2, <2>3, <2>5, <2>6
  <2> HIDE DEF n
  <2> QED
    BY <2>7
<1>11. ASSUME NEW d \in Int PROVE RestFrom(c, d) = RestFrom(b, d)
  <2>1. \A t \in Terms(b) : c.txs[t] = b.txs[t]
    BY <1>6, <1>8
  <2> QED
    BY <2>1, <1>7 DEF RestFrom
<1>12. ASSUME Exact(b), IsExact(tx) PROVE Exact(c)
  BY <1>6, <1>7, <1>8, <1>12 DEF Exact
<1>13. ASSUME Exact(b), IsExact(tx), NEW d \in Int PROVE OwedFrom(c, d) = OwedFrom(b, d) + Owed(tx, d)
  <2>1. OwedFrom(c, d) = SumFunctionOnSet(OwedOf(c, d), Live(c)) /\ OwedFrom(b, d) = SumFunctionOnSet(OwedOf(b, d), Live(b))
        /\ Ints(OwedOf(c, d), Live(c)) /\ Ints(OwedOf(b, d), Live(b))
    BY <1>4, <1>6, <1>12, <1>13, SumsOnRows
  <2>2. SumFunctionOnSet(OwedOf(c, d), Live(c)) = OwedOf(c, d)[x] + SumFunctionOnSet(OwedOf(c, d), Live(b))
    BY <2>1, <1>9, SumOfInts
  <2>3. OwedOf(c, d)[x] = Owed(tx, d) /\ Owed(tx, d) \in Int
    <3>1. Owed(tx, d) \in Int
      BY <1>1, <1>13, ExactAmounts
    <3> QED
      BY <3>1, <1>5, <1>6 DEF OwedOf
  <2>4. \A t \in Live(b) : OwedOf(c, d)[t] = OwedOf(b, d)[t]
    BY <1>6, <1>8 DEF OwedOf
  <2>5. SumFunctionOnSet(OwedOf(c, d), Live(b)) = SumFunctionOnSet(OwedOf(b, d), Live(b))
    BY <2>1, <2>4, <1>8, SumSame
  <2>6. SumFunctionOnSet(OwedOf(b, d), Live(b)) \in Int
    BY <2>1, <1>8, SumOfInts
  <2> DEFINE n == SumFunctionOnSet(OwedOf(b, d), Live(b))
             o == Owed(tx, d)
  <2>7. OwedFrom(c, d) = o + n /\ OwedFrom(b, d) = n /\ n \in Int /\ o \in Int
    BY <2>1, <2>2, <2>3, <2>5, <2>6
  <2> HIDE DEF n, o
  <2>8. OwedFrom(c, d) = OwedFrom(b, d) + o
    BY <2>7
  <2> QED
    BY <2>8 DEF o
<1> HIDE DEF N
<1> QED
  BY <1>1, <1>6, <1>7, <1>10, <1>11, <1>12, <1>13 DEF c, tx, x

\* It leaves the terms as they are.
LEMMA OneMoreKeeps ==
  ASSUME NEW b, Consistent(b), NEW version \in Nat, NEW kind \in {"CHANGE", "CANCEL"},
         NEW from \in Int, NEW to \in Int, NEW net \in Int
  PROVE  LET c == Add(b, version, kind, from, to, net)
         IN  /\ InOrder(b) => InOrder(c)
             /\ \A lo, hi : Tiled(b, lo, hi) => Tiled(c, lo, hi)
             /\ \A day, price : PricedAhead(b, day, price) => PricedAhead(c, day, price)
             /\ kind = "CHANGE" /\ NotClosed(b) => NotClosed(c)
             /\ net = 0 /\ Zeros(b) => Zeros(c)
<1> DEFINE c == Add(b, version, kind, from, to, net)
           x == Len(b.txs) + 1
<1>1. /\ c \in Books /\ x \notin DOMAIN b.txs /\ Live(c) = Live(b) \cup {x} /\ Terms(c) = Terms(b)
      /\ c.txs[x] = NewTx(version, kind, from, to, net)
      /\ \A t \in DOMAIN b.txs : c.txs[t] = b.txs[t]
      /\ \A d \in Int : RestFrom(c, d) = RestFrom(b, d)
  BY OneMore
<1>2. Terms(b) \in SUBSET Live(b) /\ Live(b) \in SUBSET DOMAIN b.txs
  BY LiveRows DEF Consistent
<1> HIDE DEF c, x
<1>3. \A t \in Terms(b) : c.txs[t] = b.txs[t]
  BY <1>1, <1>2
<1>4. InOrder(b) => InOrder(c)
  BY <1>1, <1>3 DEF InOrder
<1>5. ASSUME NEW lo, NEW hi, Tiled(b, lo, hi) PROVE Tiled(c, lo, hi)
  BY <1>1, <1>3, <1>5 DEF Tiled
<1>6. ASSUME NEW day, NEW price, PricedAhead(b, day, price) PROVE PricedAhead(c, day, price)
  BY <1>1, <1>3, <1>6 DEF PricedAhead
<1>7. ASSUME kind = "CHANGE", NotClosed(b) PROVE NotClosed(c)
  BY <1>1, <1>2, <1>7 DEF NotClosed, NewTx
<1>8. ASSUME net = 0, Zeros(b) PROVE Zeros(c)
  BY <1>1, <1>2, <1>8 DEF Zeros, NewTx
<1> QED
  BY <1>4, <1>5, <1>6, <1>7, <1>8 DEF c

\* The transactions of a term.
TermRows(version, kind, start, end, price) ==
  [i \in DOMAIN Periods(start, end) |->
     NewTx(version, kind, Periods(start, end)[i][1], Periods(start, end)[i][2],
           price * (Periods(start, end)[i][2] - Periods(start, end)[i][1]))]
IsTerm(more, kind, start, end, price) ==
  /\ more \in Seq(Transaction) /\ AllWait(more)
  /\ DOMAIN more = 1 .. PeriodCount(start, end) /\ Len(more) = PeriodCount(start, end)
  /\ \A i \in DOMAIN more :
       /\ more[i].kind = kind /\ more[i].from = PeriodFrom(start, i) /\ more[i].to = PeriodTo(start, end, i)
       /\ more[i].net = price * (more[i].to - more[i].from)

\* What schedule adds is a term.
LEMMA RowsOfTerm ==
  ASSUME NEW version \in Nat, NEW kind \in {"NEW", "RENEW"},
         NEW start \in Int, NEW end \in Int, start <= end, NEW price \in Int
  PROVE  IsTerm(TermRows(version, kind, start, end, price), kind, start, end, price)
<1> DEFINE more == TermRows(version, kind, start, end, price)
           n == PeriodCount(start, end)
<1>1. /\ n \in Nat /\ DOMAIN Periods(start, end) = 1 .. n
      /\ \A i \in 1 .. n : /\ Periods(start, end)[i] = << PeriodFrom(start, i), PeriodTo(start, end, i) >>
                           /\ PeriodFrom(start, i) \in Int /\ PeriodTo(start, end, i) \in Int
  <2>1. /\ DOMAIN Periods(start, end) = 1 .. n
        /\ \A i \in 1 .. n : Periods(start, end)[i] = << PeriodFrom(start, i), PeriodTo(start, end, i) >>
    BY PeriodsAre
  <2>2. n \in Nat /\ \A i \in 1 .. n : PeriodFrom(start, i) \in Int /\ PeriodTo(start, end, i) \in Int
    BY PeriodsFollow
  <2> QED
    BY <2>1, <2>2
<1> HIDE DEF n
<1>2. ASSUME NEW i \in 1 .. n
      PROVE  /\ more[i] \in Transaction /\ more[i].state = "INITIAL" /\ more[i].job = NoJob
             /\ more[i].kind = kind /\ more[i].from = PeriodFrom(start, i) /\ more[i].to = PeriodTo(start, end, i)
             /\ more[i].net = price * (more[i].to - more[i].from)
  <2> DEFINE f == PeriodFrom(start, i)
             t == PeriodTo(start, end, i)
  <2>1. more[i] = NewTx(version, kind, f, t, price * (t - f))
    BY <1>1 DEF TermRows
  <2>2. f \in Int /\ t \in Int
    BY <1>1
  <2> HIDE DEF more, f, t
  <2>3. price * (t - f) \in Int /\ NoJob \in Nat
    BY <2>2 DEF NoJob
  <2>4. /\ more[i].state = "INITIAL" /\ more[i].job = NoJob /\ more[i].kind = kind
        /\ more[i].from = f /\ more[i].to = t /\ more[i].net = price * (t - f)
    BY <2>1 DEF NewTx
  <2>5. more[i] \in Transaction
    BY <2>1, <2>2, <2>3 DEF NewTx, Transaction
  <2> QED
    BY <2>4, <2>5 DEF f, t
<1>3. DOMAIN more = 1 .. n /\ more = [i \in 1 .. n |-> more[i]]
  BY <1>1 DEF TermRows
<1> HIDE DEF more
<1>4. more \in [1 .. n -> Transaction]
  BY <1>2, <1>3
<1>5. more \in Seq(Transaction) /\ Len(more) = n
  <2>1. n \in Nat
    BY <1>1
  <2>2. more \in Seq(Transaction)
    BY <2>1, <1>4
  <2>3. DOMAIN more = 1 .. n
    BY <1>3
  <2> QED
    BY <2>1, <2>2, <2>3
<1> QED
  BY <1>2, <1>3, <1>5 DEF IsTerm, AllWait, more, n

\* The terms are booked.
TermsBooked(b) == \A t \in Terms(b) : b.txs[t].state = "BOOKED"

\* A term that follows one that is booked.
TermFollows(b, c, lo, start, end, price) ==
  /\ Consistent(c) /\ InOrder(c) /\ Tiled(c, lo, end) /\ Exact(c)
  /\ NotClosed(b) => NotClosed(c)
  /\ Zeros(b) => Zeros(c)
  /\ \A day : PricedAhead(c, day, price)
  /\ \A d \in Int : OwedFrom(c, d) = OwedFrom(b, d) + price * DaysLeft(start, end, d)

\* A term that is added after those that are booked.
LEMMA TermAdded ==
  ASSUME NEW b, Consistent(b), NEW more, NEW kind \in {"NEW", "RENEW"},
         NEW lo \in Int, NEW start \in Int, NEW end \in Int, lo <= start, start <= end, NEW price \in Int,
         IsTerm(more, kind, start, end, price),
         TermsBooked(b), Tiled(b, lo, start), Exact(b)
  PROVE  TermFollows(b, Added(b, more), lo, start, end, price)
<1> DEFINE c == Added(b, more)
           N == NewRows(b, more)
           n == PeriodCount(start, end)
           l == Len(b.txs)
<1>1. b \in Books /\ l \in Nat /\ DOMAIN b.txs = 1 .. l
  BY Tables DEF Consistent
<1>2. AddedTo(b, more, c, N)
  BY AddedRows DEF IsTerm
<1>3. N = l + 1 .. l + n /\ IsFiniteSet(N)
  BY <1>2 DEF NewRows, IsTerm, AddedTo
<1>4. /\ n \in Nat
      /\ \A i \in 1 .. n : /\ PeriodFrom(start, i) \in Int /\ PeriodTo(start, end, i) \in Int
                           /\ start <= PeriodFrom(start, i) /\ PeriodFrom(start, i) < PeriodTo(start, end, i)
                           /\ PeriodTo(start, end, i) <= end
                           /\ \A j \in 1 .. n : i < j => PeriodTo(start, end, i) <= PeriodFrom(start, j)
  BY PeriodsFollow
<1> HIDE DEF c, N, n, l
<1>5. ASSUME NEW t \in N
      PROVE  /\ t - l \in 1 .. n /\ c.txs[t].from = PeriodFrom(start, t - l)
             /\ c.txs[t].to = PeriodTo(start, end, t - l)
             /\ c.txs[t].net = price * (c.txs[t].to - c.txs[t].from)
             /\ c.txs[t].kind = kind /\ c.txs[t].state = "INITIAL" /\ c.txs[t] \in Transaction
             /\ start <= c.txs[t].from /\ c.txs[t].from < c.txs[t].to /\ c.txs[t].to <= end
  <2>1. t - l \in DOMAIN more /\ c.txs[t] = more[t - l] /\ c.txs[t].state = "INITIAL"
    BY <1>2 DEF AddedTo, l
  <2>2. t - l \in 1 .. n
    BY <2>1 DEF IsTerm, n
  <2>3. /\ c.txs[t].from = PeriodFrom(start, t - l)
        /\ c.txs[t].to = PeriodTo(start, end, t - l)
        /\ c.txs[t].net = price * (c.txs[t].to - c.txs[t].from) /\ c.txs[t].kind = kind
    BY <2>1 DEF IsTerm
  <2>4. c.txs[t] \in Transaction
    BY <2>1, ElementOfSeq, LenProperties DEF IsTerm
  <2>5. start <= c.txs[t].from /\ c.txs[t].from < c.txs[t].to /\ c.txs[t].to <= end
    BY <1>4, <2>2, <2>3
  <2> QED
    BY <2>1, <2>2, <2>3, <2>4, <2>5
<1>6. /\ Consistent(c) /\ c \in Books /\ N \cap DOMAIN b.txs = {} /\ Live(c) = Live(b) \cup N
      /\ \A t \in DOMAIN b.txs : c.txs[t] = b.txs[t]
  BY <1>2 DEF AddedTo
<1>7. Terms(c) = Terms(b) \cup N
  BY <1>2, <1>5 DEF AddedTo
<1>8. /\ IsFiniteSet(Live(b)) /\ IsFiniteSet(Terms(b))
      /\ Terms(b) \in SUBSET Live(b) /\ Live(b) \in SUBSET DOMAIN b.txs
      /\ \A t \in Live(b) : /\ b.txs[t] \in Transaction /\ b.txs[t].net \in Int
                            /\ b.txs[t].from \in Int /\ b.txs[t].to \in Int
  BY <1>1, LiveRows
<1>9. \A t \in Live(b) : c.txs[t] = b.txs[t]
  BY <1>6, <1>8
<1>10. \A t \in Terms(b) : /\ c.txs[t] = b.txs[t] /\ b.txs[t].state = "BOOKED"
                           /\ lo <= b.txs[t].from /\ b.txs[t].from < b.txs[t].to /\ b.txs[t].to <= start
  BY <1>8, <1>9 DEF TermsBooked, Tiled
<1>11. InOrder(c)
  <2> SUFFICES ASSUME NEW t \in Terms(c), NEW u \in Terms(c), c.txs[t].from < c.txs[u].from
               PROVE  /\ c.txs[u].state = "BOOKED" => c.txs[t].state = "BOOKED"
                      /\ c.txs[t].state = "INITIAL" => c.txs[u].state = "INITIAL"
    BY DEF InOrder
  <2>1. CASE t \in Terms(b)
    BY <2>1, <1>10
  <2>2. CASE t \in N /\ u \in N
    BY <2>2, <1>5
  <2>3. CASE t \in N /\ u \in Terms(b)
    <3>1. start <= c.txs[t].from /\ c.txs[t].from \in Int
      BY <2>3, <1>5 DEF Transaction
    <3>2. c.txs[u].from < c.txs[u].to /\ c.txs[u].to <= start /\ c.txs[u].from \in Int /\ c.txs[u].to \in Int
      BY <2>3, <1>8, <1>10
    <3> QED
      BY <3>1, <3>2
  <2> QED
    BY <1>7, <2>1, <2>2, <2>3
<1>12. Exact(c)
  <2>1. \A t \in N : IsExact(c.txs[t])
    BY <1>5 DEF IsExact
  <2> QED
    BY <2>1, <1>6, <1>9 DEF Exact
<1>13. NotClosed(b) => NotClosed(c)
  BY <1>5, <1>6, <1>9 DEF NotClosed
<1>14. Zeros(b) => Zeros(c)
  BY <1>6, <1>7, <1>9 DEF Zeros
<1>15. \A day : PricedAhead(c, day, price)
  BY <1>5, <1>7, <1>10 DEF PricedAhead
<1>16. ASSUME NEW d \in Int
       PROVE  /\ Ints(RestOf(c, d), Live(c))
              /\ SumFunctionOnSet(RestOf(c, d), N) = DaysLeft(start, end, d)
              /\ \A t \in DOMAIN c.txs : RestOf(c, d)[t] = Rest(c.txs[t], d)
  <2>1. Ints(RestOf(c, d), Live(c))
    BY <1>6, SumsOnRows
  <2>2. \A t \in DOMAIN c.txs : RestOf(c, d)[t] = Rest(c.txs[t], d)
    BY DEF RestOf
  <2>3. N \in SUBSET DOMAIN c.txs
    BY <1>2 DEF AddedTo
  <2>4. ASSUME NEW i \in 1 .. n
        PROVE  RestOf(c, d)[l + i] = DaysLeft(PeriodFrom(start, i), PeriodTo(start, end, i), d)
    <3>1. l + i \in N /\ (l + i) - l = i
      BY <1>1, <1>3, <1>4
    <3> QED
      BY <3>1, <2>2, <2>3, <1>5 DEF Rest
  <2> DEFINE w == RestOf(c, d)
  <2>5. DaysOfPeriods(w, l, start, end, d)
    BY <2>4 DEF n, DaysOfPeriods
  <2> HIDE DEF w
  <2>6. SumFunctionOnSet(w, l + 1 .. l + PeriodCount(start, end)) = DaysLeft(start, end, d)
    BY <2>5, <1>1, PeriodsCover
  <2> QED
    BY <2>1, <2>2, <2>6, <1>3 DEF w, n
<1>17. ASSUME NEW d \in Int PROVE RestFrom(c, d) = DaysLeft(lo, end, d)
  <2> DEFINE w == RestOf(c, d)
             v == RestOf(b, d)
  <2>1. /\ RestFrom(c, d) = SumFunctionOnSet(w, Terms(b) \cup N)
        /\ RestFrom(b, d) = SumFunctionOnSet(v, Terms(b)) /\ Ints(v, Live(b))
    BY <1>1, <1>6, <1>7, SumsOnRows
  <2>2. Ints(w, Terms(b) \cup N) /\ Ints(v, Terms(b))
    BY <2>1, <1>16, <1>6, <1>8 DEF Ints
  <2>3. \A t \in Terms(b) : w[t] = v[t]
    BY <1>8, <1>9, <1>2 DEF RestOf, AddedTo
  <2>4. RestFrom(b, d) = DaysLeft(lo, start, d)
    BY DEF Tiled
  <2>5. SumFunctionOnSet(w, N) = DaysLeft(start, end, d)
    BY <1>16
  <2> HIDE DEF w, v
  <2>6. SumFunctionOnSet(w, Terms(b) \cup N) = SumFunctionOnSet(w, Terms(b)) + SumFunctionOnSet(w, N)
    <3>1. Terms(b) \cap N = {}
      BY <1>6, <1>8
    <3> QED
      BY <3>1, <2>2, <1>3, <1>8, SumOfTwo
  <2>7. SumFunctionOnSet(w, Terms(b)) = SumFunctionOnSet(v, Terms(b))
    BY <2>2, <2>3, <1>8, SumSame
  <2>8. DaysLeft(lo, start, d) + DaysLeft(start, end, d) = DaysLeft(lo, end, d)
    BY DEF DaysLeft, Upper
  <2> QED
    BY <2>1, <2>4, <2>5, <2>6, <2>7, <2>8
<1>18. Tiled(c, lo, end)
  <2>1. \A t \in Terms(c) : lo <= c.txs[t].from /\ c.txs[t].from < c.txs[t].to /\ c.txs[t].to <= end
    <3>1. ASSUME NEW t \in Terms(b) PROVE c.txs[t].to <= end
      BY <1>8, <1>10
    <3>2. ASSUME NEW t \in N PROVE lo <= c.txs[t].from
      BY <1>5 DEF Transaction
    <3> QED
      BY <3>1, <3>2, <1>5, <1>7, <1>10
  <2>2. ASSUME NEW t \in Terms(c), NEW u \in Terms(c), t # u
        PROVE  c.txs[t].to <= c.txs[u].from \/ c.txs[u].to <= c.txs[t].from
    <3>1. ASSUME NEW p \in Terms(b), NEW q \in N PROVE c.txs[p].to <= c.txs[q].from
      <4>1. c.txs[p].to <= start /\ c.txs[p].to \in Int
        BY <1>8, <1>10
      <4>2. start <= c.txs[q].from /\ c.txs[q].from \in Int
        BY <1>5 DEF Transaction
      <4> QED
        BY <4>1, <4>2
    <3>2. ASSUME NEW p \in N, NEW q \in N, p < q PROVE c.txs[p].to <= c.txs[q].from
      <4>1. p - l \in 1 .. n /\ q - l \in 1 .. n /\ p - l < q - l
        BY <3>2, <1>1, <1>3, <1>5
      <4> QED
        BY <4>1, <1>4, <1>5
    <3>3. CASE t \in Terms(b) /\ u \in Terms(b)
      BY <3>3, <2>2, <1>10 DEF Tiled
    <3>4. CASE t \in N /\ u \in N
      <4>1. t < u \/ u < t
        BY <3>4, <2>2, <1>3, <1>1, <1>4
      <4> QED
        BY <3>2, <3>4, <4>1
    <3> QED
      BY <3>1, <3>3, <3>4, <1>7
  <2> QED
    BY <2>1, <2>2, <1>17 DEF Tiled
<1>19. ASSUME NEW d \in Int PROVE OwedFrom(c, d) = OwedFrom(b, d) + price * DaysLeft(start, end, d)
  <2> DEFINE u == OwedOf(c, d)
             v == OwedOf(b, d)
             w == RestOf(c, d)
  <2>1. /\ OwedFrom(c, d) = SumFunctionOnSet(u, Live(b) \cup N) /\ Ints(u, Live(b) \cup N)
        /\ OwedFrom(b, d) = SumFunctionOnSet(v, Live(b)) /\ Ints(v, Live(b))
    BY <1>1, <1>6, <1>12, SumsOnRows
  <2>2. SumFunctionOnSet(w, N) = DaysLeft(start, end, d) /\ Ints(w, N)
    BY <1>16, <1>6 DEF Ints
  <2>3. \A t \in Live(b) : u[t] = v[t]
    BY <1>8, <1>9, <1>2 DEF OwedOf, AddedTo
  <2>4. ASSUME NEW t \in N PROVE u[t] = price * w[t]
    <3>1. Rate(c.txs[t]) = price
      BY <1>5, RateOf
    <3> QED
      BY <3>1, <1>2 DEF OwedOf, RestOf, Owed, AddedTo
  <2>6. Scaled(u, price, w, N)
    BY <2>4 DEF Scaled
  <2> HIDE DEF u, v, w
  <2>7. SumFunctionOnSet(u, N) = price * SumFunctionOnSet(w, N)
    BY <2>2, <2>6, <1>3, SumScaled
  <2>9. SumFunctionOnSet(u, Live(b) \cup N) = SumFunctionOnSet(u, Live(b)) + SumFunctionOnSet(u, N)
    <3>1. Live(b) \cap N = {}
      BY <1>6, <1>8
    <3> QED
      <4>1. IsFiniteSet(Live(b)) /\ IsFiniteSet(N) /\ Ints(u, Live(b) \cup N)
        BY <2>1, <1>3, <1>8
      <4> QED
        BY <3>1, <4>1, SumOfTwo
  <2>10. SumFunctionOnSet(u, Live(b)) = SumFunctionOnSet(v, Live(b))
    BY <2>1, <2>3, <1>8, SumSame
  <2>11. price * DaysLeft(start, end, d) \in Int
    <3>1. DaysLeft(start, end, d) \in Int
      BY DEF DaysLeft, Upper
    <3> QED
      BY <3>1
  <2> QED
    BY <2>1, <2>2, <2>7, <2>9, <2>10, <2>11
<1> QED
  BY <1>6, <1>11, <1>12, <1>13, <1>14, <1>15, <1>18, <1>19 DEF c, TermFollows

\* schedule, of a term of Period or more or fewer days.
LEMMA ScheduledBook ==
  ASSUME NEW b, Consistent(b), NEW way \in Modes, NEW version \in Nat, NEW kind \in {"NEW", "RENEW"},
         NEW start \in Int, NEW end \in Int, start <= end, NEW price \in Int
  PROVE  LET c == Scheduled(b, way, version, kind, start, end, price)
         IN  /\ Consistent(c) /\ Chained(c, way)
<1> DEFINE more == TermRows(version, kind, start, end, price)
<1>1. Scheduled(b, way, version, kind, start, end, price) = Register(Added(b, more), way)
  BY DEF Scheduled, TermRows
<1>2. more \in Seq(Transaction) /\ \A i \in DOMAIN more : more[i].state = "INITIAL" /\ more[i].job = NoJob
  <2>1. IsTerm(more, kind, start, end, price)
    BY RowsOfTerm
  <2> HIDE DEF more
  <2> QED
    BY <2>1 DEF IsTerm, AllWait
<1> HIDE DEF more
<1>3. Consistent(Added(b, more))
  BY <1>2, AddedBook
<1> QED
  BY <1>1, <1>3, RegisteredBook

-----------------------------------------------------------------------------
(* Subscriptions: what is true of the head, its draft and its book in every state. *)

\* Everything that is not voided and starts before a day is booked.
BookedBefore(b, day) == \A t \in Live(b) : b.txs[t].from < day => b.txs[t].state = "BOOKED"

HeadAgrees ==
  /\ sub.status # "none" => sub \in SubHeads /\ sub.termEnd = sub.termStart + Term
  /\ draft.open => draft \in OpenDrafts /\ sub.status = "changing"
  /\ draft.open /\ draft.kind = "renew" => BookedBefore(book, sub.termEnd)

SubInv ==
  /\ SubTypeOK
  /\ HeadAgrees
  /\ Consistent(book)
  /\ ~ switched => Chained(book, mode)

\* Going onwards leaves nothing behind that was booked.
LEMMA StillBookedBefore ==
  ASSUME NEW b, NEW c, Onwards(b, c), NEW day, BookedBefore(b, day)
  PROVE  BookedBefore(c, day)
<1>1. \A t \in Live(c) : t \in Live(b) /\ c.txs[t].from = b.txs[t].from
                         /\ (b.txs[t].state = "BOOKED" => c.txs[t].state = "BOOKED")
  BY DEF Onwards, Same, Live, With
<1> QED
  BY <1>1 DEF BookedBefore

\* A table of no transactions has none that waits.
LEMMA NothingWaits ==
  ASSUME NEW b, b.txs = << >>, NEW way
  PROVE  Chained(b, way)
  BY DEF Chained, With

LEMMA SubInit == Init => SubInv
<1> SUFFICES ASSUME Init PROVE SubInv
  OBVIOUS
<1>1. book.txs = << >> /\ book.jobs = << >> /\ book.invoices = << >> /\ book \in Books
  BY DEF Init, EmptyBook, Books
<1>2. DOMAIN book.txs = {} /\ DOMAIN book.jobs = {} /\ DOMAIN book.invoices = {}
  BY <1>1
<1>3. Consistent(book) /\ Chained(book, mode)
  BY <1>1, <1>2, NothingWaits DEF Consistent, JobsAgree, InvoicesAgree
<1>4. SubTypeOK
  <2>1. /\ today \in Nat /\ mode \in Modes /\ switched \in BOOLEAN
        /\ sub = [status |-> "none"] /\ draft = NoDraft
    BY DEF Init
  <2>2. versions \in Seq(SubVersions)
    BY DEF Init
  <2> QED
    BY <1>1, <2>1, <2>2 DEF SubTypeOK
<1>5. HeadAgrees
  BY DEF Init, HeadAgrees, NoDraft
<1> QED
  BY <1>3, <1>4, <1>5 DEF SubInv

\* What is written of a subscription: an open draft's named fields and the numbers they give.
LEMMA Written ==
  ASSUME SubInv, draft.open
  PROVE  /\ sub \in SubHeads /\ draft \in OpenDrafts /\ sub.termEnd = sub.termStart + Term
         /\ draft.effective \in Nat /\ sub.price \in Nat /\ sub.version \in Nat
         /\ Or(draft.changes.start, draft.effective) \in Nat
         /\ Or(draft.changes.price, sub.price) \in Nat
         /\ Or(draft.changes.customer, sub.customer) \in Customers
<1>1. sub \in SubHeads /\ draft \in OpenDrafts /\ sub.termEnd = sub.termStart + Term
  BY DEF SubInv, HeadAgrees
<1>2. draft.effective \in EffectiveDays /\ draft.changes \in NamedChanges
  BY <1>1 DEF OpenDrafts
<1>3. /\ draft.changes.start \in StartDays \union {Keep} /\ draft.changes.price \in Prices \union {Keep}
      /\ draft.changes.customer \in Customers \union {Keep}
  BY <1>2 DEF NamedChanges
<1>4. sub.price \in Nat /\ sub.version \in Nat /\ sub.customer \in Customers
  BY <1>1 DEF SubHeads
<1> QED
  BY <1>1, <1>2, <1>3, <1>4, SubscriptionsAssumption DEF Or

\* What is billed of a period is a number.
LEMMA ShareIsInteger ==
  ASSUME NEW amount \in Int, NEW part \in Int, NEW whole \in Int
  PROVE  ShareOf(amount, part, whole) \in Int
<1> DEFINE k == amount * part
<1>1. k \in Int
  OBVIOUS
<1> HIDE DEF k
<1>2. CASE ~ (part <= 0 \/ whole <= 0)
  <2>1. k \div whole \in Int
    BY <1>1, <1>2
  <2> QED
    BY <1>2, <2>1 DEF ShareOf, k
<1>3. CASE part <= 0 \/ whole <= 0
  BY <1>3 DEF ShareOf
<1> QED
  BY <1>2, <1>3

LEMMA BookRows ==
  ASSUME SubInv
  PROVE  /\ book \in Books /\ Consistent(book) /\ IsFiniteSet(DOMAIN book.txs)
         /\ \A t \in DOMAIN book.txs : /\ book.txs[t] \in Transaction
                                       /\ book.txs[t].from \in Int /\ book.txs[t].to \in Int
                                       /\ book.txs[t].net \in Int
<1>1. book \in Books /\ Consistent(book)
  BY DEF SubInv, Consistent
<1>2. Len(book.txs) \in Nat /\ DOMAIN book.txs = 1 .. Len(book.txs)
  BY <1>1, Tables
<1>3. \A n \in Nat : IsFiniteSet(1 .. n)
  BY FS_Interval
<1>4. IsFiniteSet(DOMAIN book.txs)
  BY <1>2, <1>3
<1>5. \A t \in DOMAIN book.txs : book.txs[t] \in Transaction
  BY <1>1, Tables
<1> QED
  BY <1>1, <1>4, <1>5 DEF Transaction

LEMMA ChangeAmounts ==
  ASSUME SubInv, NEW effective \in Nat, NEW delta \in Int
  PROVE  ChangeNet(effective, delta) \in Int /\ ChangeEnd(effective) \in Int
<1> DEFINE S == Settled(effective)
           part == [t \in S |-> delta * (book.txs[t].to - Upper(book.txs[t].from, effective))]
           ends == [t \in S |-> book.txs[t].to]
<1>1. S \in SUBSET DOMAIN book.txs
  BY DEF Settled, TermTxs, Live
<1> HIDE DEF S
<1>2. IsFiniteSet(S)
  BY <1>1, BookRows, FS_Subset
<1>3. ASSUME NEW t \in S PROVE part[t] \in Int /\ ends[t] \in Int
  <2>1. book.txs[t].from \in Int /\ book.txs[t].to \in Int
    BY <1>1, BookRows
  <2>2. Upper(book.txs[t].from, effective) \in Int
    BY <2>1 DEF Upper
  <2> QED
    BY <2>1, <2>2
<1>4. ChangeNet(effective, delta) \in Int
  <2>1. DOMAIN part = S
    OBVIOUS
  <2>2. ChangeNet(effective, delta) = SumFunctionOnSet(part, S)
    BY <2>1 DEF ChangeNet, SumFunction, S
  <2> HIDE DEF part
  <2> QED
    BY <1>2, <1>3, <2>2, SumIsInteger
<1>5. ChangeEnd(effective) \in Int
  <2>1. CASE S = {}
    BY <2>1, PeriodAssumption DEF ChangeEnd, S
  <2>2. CASE S # {}
    <3> DEFINE days == {ends[t] : t \in S}
    <3>1. days \in SUBSET Int /\ days # {}
      BY <1>3, <2>2
    <3>2. IsFiniteSet(days)
      <4>1. ends = [t \in S |-> ends[t]]
        OBVIOUS
      <4> HIDE DEF ends
      <4> QED
        BY <1>2, <4>1, Values
    <3>3. ChangeEnd(effective) = Max(days)
      <4>1. days = {book.txs[t].to : t \in S}
        OBVIOUS
      <4> HIDE DEF days
      <4> QED
        BY <2>2, <4>1 DEF ChangeEnd, S
    <3> HIDE DEF days
    <3> QED
      BY <3>1, <3>2, <3>3, MaxAndMin
  <2> QED
    BY <2>1, <2>2
<1> QED
  BY <1>4, <1>5

LEMMA CreditIsInteger ==
  ASSUME SubInv, NEW effective \in Nat
  PROVE  Unearned(effective) \in Int
<1> DEFINE S == {u \in With(book, "BOOKED") : book.txs[u].kind # "CANCEL"}
           part == [t \in S |->
                      ShareOf(book.txs[t].net, book.txs[t].to - Upper(book.txs[t].from, effective),
                              book.txs[t].to - book.txs[t].from)]
<1>1. S \in SUBSET DOMAIN book.txs
  BY DEF With
<1>2. DOMAIN part = S /\ Unearned(effective) = SumFunctionOnSet(part, S)
  BY DEF Unearned, SumFunction
<1>3. IsFiniteSet(S)
  <2> HIDE DEF S
  <2> QED
    BY <1>1, BookRows, FS_Subset
<1>4. ASSUME NEW t \in S PROVE part[t] \in Int
  <2>1. book.txs[t].from \in Int /\ book.txs[t].to \in Int /\ book.txs[t].net \in Int
    BY <1>1, BookRows
  <2>2. Upper(book.txs[t].from, effective) \in Int
    BY <2>1 DEF Upper
  <2>3. /\ book.txs[t].to - Upper(book.txs[t].from, effective) \in Int
        /\ book.txs[t].to - book.txs[t].from \in Int
    BY <2>1, <2>2
  <2> QED
    BY <2>1, <2>3, ShareIsInteger
<1> HIDE DEF S, part
<1> QED
  BY <1>2, <1>3, <1>4, SumIsInteger

\* add, of one transaction.
LEMMA AddedOne ==
  ASSUME NEW b, Consistent(b), NEW version \in Nat, NEW kind \in {"NEW", "RENEW", "CHANGE", "CANCEL"},
         NEW from \in Int, NEW to \in Int, NEW net \in Int
  PROVE  Consistent(Add(b, version, kind, from, to, net))
<1> DEFINE tx == NewTx(version, kind, from, to, net)
           more == << tx >>
<1>1. tx \in Transaction /\ tx.state = "INITIAL" /\ tx.job = NoJob
  BY DEF NewTx, Transaction, NoJob
<1> HIDE DEF tx
<1>2. more \in Seq(Transaction) /\ \A i \in DOMAIN more : more[i].state = "INITIAL" /\ more[i].job = NoJob
  BY <1>1
<1>3. Add(b, version, kind, from, to, net) = Added(b, more)
  BY DEF Add, tx
<1> HIDE DEF more
<1> QED
  BY <1>2, <1>3, AddedBook

\* A change of the start day: nothing was booked of what is voided.
LEMMA MovedIsConsistent ==
  ASSUME SubInv, NEW start \in Nat, NEW price \in Nat, NEW version \in Nat,
         \A t \in TermTxs : book.txs[t].state # "BOOKED"
  PROVE  Consistent(MovedBook(start, price, version))
<1>1. TermTxs \in SUBSET DOMAIN book.txs
  BY DEF TermTxs, Live
<1>2. Consistent(Void(book, TermTxs))
  BY <1>1, BookRows, VoidBook
<1>3. mode \in Modes /\ start + Term \in Int /\ start <= start + Term /\ start + Period \in Int
  BY SubscriptionsAssumption, PeriodAssumption DEF SubInv, SubTypeOK
<1> DEFINE again == Scheduled(Void(book, TermTxs), mode, version, "NEW", start, start + Term, price)
<1>4. Consistent(again)
  BY <1>2, <1>3, ScheduledBook
<1> HIDE DEF again
<1>5. Consistent(Add(again, version, "CHANGE", start, start + Period, 0))
  BY <1>3, <1>4, AddedOne
<1> QED
  BY <1>5 DEF MovedBook, again

\* The periods a change of the price takes it to, and those it leaves to its CHANGE transaction.
LaterPeriods(effective) == {t \in TermTxs : Overlaps(t, effective)} \ Settled(effective)

\* The periods of the terms, in the variables of the subscription.
LEMMA PeriodRows ==
  ASSUME SubInv, NEW lo \in Int, NEW hi \in Int, Tiled(book, lo, hi)
  PROVE  /\ TermTxs = Terms(book) /\ IsFiniteSet(TermTxs)
         /\ \A t \in TermTxs : /\ t \in DOMAIN book.txs /\ book.txs[t] \in Transaction
                               /\ book.txs[t].from \in Int /\ book.txs[t].to \in Int
                               /\ lo <= book.txs[t].from /\ book.txs[t].from < book.txs[t].to
                               /\ book.txs[t].to <= hi
<1>1. book \in Books
  BY BookRows
<1>2. TermTxs = Terms(book)
  BY DEF TermTxs, Terms
<1> QED
  BY <1>1, <1>2, LiveRows DEF Tiled

\* The end of what is settled, when something is: the later periods begin there or after it.
LEMMA SettledEnd ==
  ASSUME SubInv, NEW effective \in Nat, NEW lo \in Int, NEW hi \in Int, Tiled(book, lo, hi),
         InOrder(book), Settled(effective) # {}
  PROVE  /\ ChangeEnd(effective) \in Int /\ effective < ChangeEnd(effective) /\ ChangeEnd(effective) <= hi
         /\ \A t \in Settled(effective) : book.txs[t].to <= ChangeEnd(effective)
         /\ \A t \in LaterPeriods(effective) : ChangeEnd(effective) <= book.txs[t].from
<1> DEFINE S == Settled(effective)
           L == LaterPeriods(effective)
           ends == [t \in S |-> book.txs[t].to]
           days == {ends[t] : t \in S}
           E == ChangeEnd(effective)
<1>1. \A t \in TermTxs : /\ t \in Terms(book)
                         /\ book.txs[t].from \in Int /\ book.txs[t].to \in Int
                         /\ lo <= book.txs[t].from /\ book.txs[t].from < book.txs[t].to
                         /\ book.txs[t].to <= hi
  BY PeriodRows
<1>2. \A t \in S : /\ t \in TermTxs /\ effective < book.txs[t].to
                   /\ book.txs[t].state = "BOOKED" \/ book.txs[t].from <= effective
  BY <1>1 DEF Settled, Overlaps
<1>3. \A t \in L : /\ t \in TermTxs /\ effective < book.txs[t].to
                   /\ book.txs[t].state # "BOOKED" /\ effective < book.txs[t].from
  BY <1>1 DEF LaterPeriods, Settled, Overlaps
<1>4. E = Max(days)
  <2>1. days = {book.txs[t].to : t \in S}
    OBVIOUS
  <2> HIDE DEF days
  <2> QED
    BY <2>1 DEF ChangeEnd
<1>5. days \in SUBSET Int /\ days # {} /\ IsFiniteSet(days)
  <2>1. \A t \in S : ends[t] \in Int
    BY <1>1, <1>2
  <2>2. IsFiniteSet(S)
    BY <1>2, PeriodRows, FS_Subset
  <2>3. ends = [t \in S |-> ends[t]] /\ S # {}
    OBVIOUS
  <2> HIDE DEF ends, S
  <2> QED
    BY <2>1, <2>2, <2>3, Values
<1> HIDE DEF S, L, E
<1>6. E \in days /\ \A x \in days : x <= E
  <2> HIDE DEF days
  <2> QED
    BY <1>4, <1>5, MaxAndMin
<1>7. PICK u \in S : book.txs[u].to = E
  BY <1>6
<1>8. E \in Int /\ effective < E /\ E <= hi /\ \A t \in S : book.txs[t].to <= E
  BY <1>1, <1>2, <1>6, <1>7
<1>9. ASSUME NEW t \in L PROVE E <= book.txs[t].from
  <2>1. /\ t \in Terms(book) /\ u \in Terms(book) /\ t # u
        /\ book.txs[t].from \in Int /\ book.txs[t].to \in Int
        /\ book.txs[u].from \in Int /\ book.txs[u].to \in Int
        /\ book.txs[t].from < book.txs[t].to /\ book.txs[u].from < book.txs[u].to
        /\ effective < book.txs[t].from
    BY <1>1, <1>2, <1>3, <1>9 DEF L, S, LaterPeriods
  <2>2. book.txs[t].to <= book.txs[u].from \/ book.txs[u].to <= book.txs[t].from
    BY <2>1 DEF Tiled
  <2>3. ~ (book.txs[t].to <= book.txs[u].from)
    <3>1. CASE book.txs[u].from <= effective
      BY <2>1, <3>1
    <3>2. CASE book.txs[u].state = "BOOKED"
      <4>1. ~ (book.txs[t].from < book.txs[u].from)
        BY <2>1, <3>2, <1>3, <1>9 DEF InOrder
      <4> QED
        BY <2>1, <4>1
    <3> QED
      BY <3>1, <3>2, <1>2
  <2> QED
    BY <1>7, <2>2, <2>3
<1> QED
  BY <1>8, <1>9 DEF S, L, E

\* The days of the periods that overlap, from a day after the change on.
LEMMA OverlappingDays ==
  ASSUME SubInv, NEW effective \in Nat, NEW lo \in Int, NEW hi \in Int, Tiled(book, lo, hi),
         NEW d \in Int, effective <= d
  PROVE  /\ IsFiniteSet(Settled(effective)) /\ IsFiniteSet(LaterPeriods(effective))
         /\ Ints(RestOf(book, d), Settled(effective)) /\ Ints(RestOf(book, d), LaterPeriods(effective))
         /\ SumFunctionOnSet(RestOf(book, d), Settled(effective)) \in Int
         /\ SumFunctionOnSet(RestOf(book, d), LaterPeriods(effective)) \in Int
         /\ SumFunctionOnSet(RestOf(book, d), Settled(effective))
              + SumFunctionOnSet(RestOf(book, d), LaterPeriods(effective)) = DaysLeft(lo, hi, d)
<1> DEFINE S == Settled(effective)
           L == LaterPeriods(effective)
           O == S \cup L
           T == TermTxs
           r == RestOf(book, d)
<1>1. /\ T = Terms(book) /\ IsFiniteSet(T)
      /\ \A t \in T : /\ t \in DOMAIN book.txs /\ book.txs[t] \in Transaction
                      /\ book.txs[t].from \in Int /\ book.txs[t].to \in Int
                      /\ book.txs[t].from < book.txs[t].to
  BY PeriodRows
<1>2. S \in SUBSET T /\ L \in SUBSET T /\ S \cap L = {} /\ O = {t \in T : Overlaps(t, effective)}
  BY DEF Settled, LaterPeriods
<1>3. \A t \in T : r[t] = Rest(book.txs[t], d) /\ r[t] \in Int
  BY <1>1 DEF RestOf, Rest, DaysLeft, Upper
<1>4. ASSUME NEW t \in T \ O PROVE r[t] = 0
  <2>1. ~ (book.txs[t].to > effective)
    BY <1>2, <1>4 DEF Overlaps
  <2> QED
    BY <2>1, <1>1, <1>3 DEF Rest, DaysLeft, Upper
<1>5. SumFunctionOnSet(r, T) = DaysLeft(lo, hi, d)
  <2>1. RestFrom(book, d) = SumFunctionOnSet(r, Terms(book))
    BY BookRows, SumsOnRows
  <2>2. RestFrom(book, d) = DaysLeft(lo, hi, d)
    BY DEF Tiled
  <2> QED
    BY <2>1, <2>2, <1>1
<1> HIDE DEF S, L, T, r
<1>6. IsFiniteSet(S) /\ IsFiniteSet(L) /\ Ints(r, S) /\ Ints(r, L) /\ Ints(r, T) /\ Ints(r, O) /\ O \in SUBSET T
  BY <1>1, <1>2, <1>3, FS_Subset DEF Ints
<1>7. SumFunctionOnSet(r, T) = SumFunctionOnSet(r, O)
  <2> HIDE DEF O
  <2> QED
    BY <1>1, <1>4, <1>6, SumOfPart
<1>8. SumFunctionOnSet(r, O) = SumFunctionOnSet(r, S) + SumFunctionOnSet(r, L)
  BY <1>2, <1>6, SumOfTwo
<1>9. SumFunctionOnSet(r, S) \in Int /\ SumFunctionOnSet(r, L) \in Int
  BY <1>6, SumOfInts
<1> QED
  BY <1>5, <1>6, <1>7, <1>8, <1>9 DEF S, L, r

\* What is settled has the days from the change to its end, and what is later those after it.
LEMMA SettledDays ==
  ASSUME SubInv, NEW effective \in Nat, NEW lo \in Int, NEW hi \in Int, Tiled(book, lo, hi),
         InOrder(book), lo <= effective, Settled(effective) # {}
  PROVE  /\ SumFunctionOnSet(RestOf(book, effective), Settled(effective)) = ChangeEnd(effective) - effective
         /\ \A d \in Int : effective <= d =>
              SumFunctionOnSet(RestOf(book, d), LaterPeriods(effective))
                = DaysLeft(lo, hi, Upper(d, ChangeEnd(effective)))
<1> DEFINE S == Settled(effective)
           L == LaterPeriods(effective)
           E == ChangeEnd(effective)
           OfS(d) == SumFunctionOnSet(RestOf(book, d), S)
           OfL(d) == SumFunctionOnSet(RestOf(book, d), L)
<1>1. /\ E \in Int /\ effective < E /\ E <= hi
      /\ \A t \in S : book.txs[t].to <= E
      /\ \A t \in L : E <= book.txs[t].from
  BY SettledEnd
<1>2. ASSUME NEW d \in Int, effective <= d
      PROVE  /\ IsFiniteSet(S) /\ IsFiniteSet(L) /\ Ints(RestOf(book, d), S) /\ Ints(RestOf(book, d), L)
             /\ OfS(d) \in Int /\ OfL(d) \in Int /\ OfS(d) + OfL(d) = DaysLeft(lo, hi, d)
  BY <1>2, OverlappingDays
<1>3. \A t \in S \cup L : /\ t \in DOMAIN book.txs /\ book.txs[t].from \in Int /\ book.txs[t].to \in Int
                          /\ book.txs[t].from < book.txs[t].to
  <2>1. S \in SUBSET TermTxs /\ L \in SUBSET TermTxs
    BY DEF Settled, LaterPeriods
  <2> QED
    BY <2>1, PeriodRows
<1> HIDE DEF S, L, E
<1>4. ASSUME NEW d \in Int, E <= d PROVE OfS(d) = 0
  <2>1. ASSUME NEW t \in S PROVE RestOf(book, d)[t] = 0
    <3>1. book.txs[t].to <= d
      BY <1>1, <1>3, <1>4
    <3> QED
      BY <3>1, <1>3 DEF RestOf, Rest, DaysLeft, Upper
  <2>2. IsFiniteSet(S)
    BY <1>1, <1>2
  <2> QED
    BY <2>1, <2>2, SumOfZeros
<1>5. ASSUME NEW d \in Int, effective <= d, d <= E PROVE OfL(d) = OfL(E)
  <2>1. ASSUME NEW t \in L PROVE RestOf(book, d)[t] = RestOf(book, E)[t]
    <3>1. d <= book.txs[t].from /\ E <= book.txs[t].from
      BY <1>1, <1>3, <1>5
    <3> QED
      BY <3>1, <1>1, <1>3, <1>5 DEF RestOf, Rest, DaysLeft, Upper
  <2>2. IsFiniteSet(L) /\ Ints(RestOf(book, E), L)
    BY <1>1, <1>2
  <2> QED
    BY <2>1, <2>2, SumSame
<1>6. OfL(E) = DaysLeft(lo, hi, E) /\ OfL(E) \in Int
  <2>1. OfS(E) = 0 /\ OfL(E) \in Int /\ OfS(E) + OfL(E) = DaysLeft(lo, hi, E)
    BY <1>1, <1>2, <1>4
  <2> HIDE DEF OfS, OfL
  <2> QED
    BY <2>1
<1>7. OfS(effective) = E - effective
  <2>1. OfS(effective) \in Int /\ OfS(effective) + OfL(E) = DaysLeft(lo, hi, effective)
    BY <1>1, <1>2, <1>5
  <2>2. DaysLeft(lo, hi, effective) - DaysLeft(lo, hi, E) = E - effective
        /\ DaysLeft(lo, hi, effective) \in Int /\ DaysLeft(lo, hi, E) \in Int
    BY <1>1 DEF DaysLeft, Upper
  <2> HIDE DEF OfS, OfL
  <2> QED
    BY <2>1, <2>2, <1>6
<1>8. ASSUME NEW d \in Int, effective <= d PROVE OfL(d) = DaysLeft(lo, hi, Upper(d, E))
  <2>1. CASE d <= E
    <3>1. Upper(d, E) = E
      BY <2>1, <1>1 DEF Upper
    <3> QED
      BY <3>1, <2>1, <1>5, <1>6, <1>8
  <2>2. CASE E <= d
    <3>1. Upper(d, E) = d
      BY <2>2, <1>1 DEF Upper
    <3>2. OfS(d) = 0 /\ OfL(d) \in Int /\ OfS(d) + OfL(d) = DaysLeft(lo, hi, d)
      BY <2>2, <1>2, <1>4, <1>8
    <3> HIDE DEF OfS, OfL
    <3> QED
      BY <3>1, <3>2
  <2> QED
    BY <2>1, <2>2, <1>1
<1> QED
  BY <1>7, <1>8 DEF S, L, E

\* A change of the price changes the amounts of the later periods.
LEMMA RepricedRows ==
  ASSUME SubInv, NEW effective \in Nat, NEW price \in Nat, NEW version \in Nat
  PROVE  LET c == Repriced(effective, price, version)
         IN  /\ Consistent(c) /\ DOMAIN c.txs = DOMAIN book.txs
             /\ \A t \in DOMAIN book.txs :
                  /\ c.txs[t].state = book.txs[t].state /\ c.txs[t].kind = book.txs[t].kind
                  /\ c.txs[t].from = book.txs[t].from /\ c.txs[t].to = book.txs[t].to
                  /\ t \notin LaterPeriods(effective) => c.txs[t] = book.txs[t]
                  /\ t \in LaterPeriods(effective) =>
                       c.txs[t].net = price * (book.txs[t].to - book.txs[t].from)
<1> DEFINE later == LaterPeriods(effective)
           Priced(tx) == [tx EXCEPT !.net = price * (tx.to - tx.from), !.version = version]
           rows == [t \in DOMAIN book.txs |-> IF t \in later THEN Priced(book.txs[t]) ELSE book.txs[t]]
           c == Repriced(effective, price, version)
<1>1. \A t \in later : t \in DOMAIN book.txs /\ book.txs[t].state # "BOOKED"
  BY DEF LaterPeriods, Settled, TermTxs, Live
<1>2. c = [book EXCEPT !.txs = rows]
  BY DEF Repriced, LaterPeriods
<1> HIDE DEF later, c
<1>3. ASSUME NEW t \in DOMAIN book.txs
      PROVE  /\ rows[t] \in Transaction /\ rows[t].job = book.txs[t].job
             /\ rows[t].state = book.txs[t].state /\ rows[t].kind = book.txs[t].kind
             /\ rows[t].from = book.txs[t].from /\ rows[t].to = book.txs[t].to
             /\ t \notin later => rows[t] = book.txs[t]
             /\ t \in later => rows[t].net = price * (book.txs[t].to - book.txs[t].from)
  <2>1. /\ book.txs[t] \in Transaction
        /\ book.txs[t].from \in Int /\ book.txs[t].to \in Int
    BY BookRows
  <2>2. price * (book.txs[t].to - book.txs[t].from) \in Int
    BY <2>1
  <2>3. CASE t \in later
    <3>1. rows[t] = Priced(book.txs[t])
      BY <2>3
    <3> HIDE DEF rows
    <3> QED
      BY <2>1, <2>2, <2>3, <3>1 DEF Transaction
  <2>4. CASE t \notin later
    BY <2>1, <2>4
  <2> QED
    BY <2>3, <2>4
<1>4. rows = [t \in DOMAIN book.txs |-> rows[t]]
  OBVIOUS
<1> HIDE DEF rows
<1>5. ASSUME NEW t \in DOMAIN book.txs
      PROVE  /\ rows[t] \in Transaction /\ rows[t].state = book.txs[t].state
             /\ rows[t].from = book.txs[t].from /\ rows[t].job = book.txs[t].job
             /\ book.txs[t].state = "BOOKED" => rows[t].net = book.txs[t].net
  BY <1>1, <1>3
<1>6. /\ Consistent([book EXCEPT !.txs = rows]) /\ [book EXCEPT !.txs = rows].txs = rows
      /\ DOMAIN rows = DOMAIN book.txs
  BY <1>4, <1>5, BookRows, AdjustedBook
<1>7. Consistent(c) /\ c.txs = rows /\ DOMAIN c.txs = DOMAIN book.txs
  BY <1>2, <1>6
<1> QED
  BY <1>3, <1>7 DEF c, later

\* A change of the price changes what is owed for the later periods, by the difference.
LEMMA RepricedAmounts ==
  ASSUME SubInv, sub \in SubHeads, NEW effective \in Nat, NEW price \in Nat, NEW version \in Nat,
         NEW lo \in Int, NEW hi \in Int, Tiled(book, lo, hi), Exact(book), InOrder(book),
         NEW last \in Int, last <= effective, PricedAhead(book, last, sub.price)
  PROVE  LET c == Repriced(effective, price, version)
         IN  /\ Consistent(c) /\ Exact(c) /\ InOrder(c) /\ Tiled(c, lo, hi)
             /\ NotClosed(book) => NotClosed(c)
             /\ PricedAhead(c, effective, price)
             /\ \A d \in Int :
                  OwedFrom(c, d) = OwedFrom(book, d)
                    + (price - sub.price) * SumFunctionOnSet(RestOf(book, d), LaterPeriods(effective))
<1> DEFINE c == Repriced(effective, price, version)
           L == LaterPeriods(effective)
<1>1. /\ Consistent(c) /\ DOMAIN c.txs = DOMAIN book.txs
      /\ \A t \in DOMAIN book.txs :
           /\ c.txs[t].state = book.txs[t].state /\ c.txs[t].kind = book.txs[t].kind
           /\ c.txs[t].from = book.txs[t].from /\ c.txs[t].to = book.txs[t].to
           /\ t \notin L => c.txs[t] = book.txs[t]
           /\ t \in L => c.txs[t].net = price * (book.txs[t].to - book.txs[t].from)
  BY RepricedRows
<1>2. /\ book \in Books /\ TermTxs = Terms(book) /\ sub.price \in Int
      /\ \A t \in TermTxs : book.txs[t].from < book.txs[t].to
  BY BookRows, PeriodRows DEF SubHeads
<1>3. /\ IsFiniteSet(Live(book)) /\ Terms(book) \in SUBSET Live(book) /\ Live(book) \in SUBSET DOMAIN book.txs
      /\ \A t \in Live(book) : /\ book.txs[t] \in Transaction /\ book.txs[t].net \in Int
                               /\ book.txs[t].from \in Int /\ book.txs[t].to \in Int
  BY <1>2, LiveRows
<1>4. \A t \in L : /\ t \in Terms(book) /\ book.txs[t].state # "BOOKED"
                   /\ effective < book.txs[t].from
  BY <1>2, <1>3 DEF LaterPeriods, Settled
<1>10. \A t \in Terms(book) : book.txs[t].state # "BOOKED" /\ effective < book.txs[t].from => t \in L
  BY <1>2, <1>3 DEF LaterPeriods, Settled, Overlaps
<1> HIDE DEF c, L
<1>5. Live(c) = Live(book) /\ Terms(c) = Terms(book) /\ c \in Books
  <2>1. Live(c) = Live(book)
    BY <1>1 DEF Live, With
  <2>2. Terms(c) = Terms(book)
    BY <2>1, <1>1, <1>3 DEF Terms
  <2> QED
    BY <2>1, <2>2, <1>1 DEF Consistent
<1>6. ASSUME NEW t \in L
      PROVE  /\ IsExact(c.txs[t]) /\ Rate(c.txs[t]) = price
             /\ Rate(book.txs[t]) = sub.price
  <2>1. /\ t \in DOMAIN c.txs /\ book.txs[t] \in Transaction /\ c.txs[t] \in Transaction
        /\ book.txs[t].from < book.txs[t].to
    BY <1>1, <1>2, <1>3, <1>4, <1>5, Tables
  <2>2. last < book.txs[t].from
    BY <1>3, <1>4
  <2>3. book.txs[t].net = sub.price * (book.txs[t].to - book.txs[t].from)
    BY <2>2, <1>4 DEF PricedAhead
  <2>4. c.txs[t].from < c.txs[t].to /\ c.txs[t].net = price * (c.txs[t].to - c.txs[t].from)
    BY <2>1, <1>1
  <2> QED
    BY <2>1, <2>3, <2>4, <1>2, RateOf
<1>7. Exact(c)
  <2> SUFFICES ASSUME NEW t \in Live(book) PROVE IsExact(c.txs[t])
    BY <1>5 DEF Exact
  <2> QED
    BY <1>1, <1>3, <1>6 DEF Exact
<1>8. InOrder(c) /\ (NotClosed(book) => NotClosed(c))
  <2>1. \A t \in Terms(book) : c.txs[t].state = book.txs[t].state /\ c.txs[t].from = book.txs[t].from
    BY <1>1, <1>3
  <2>2. \A t \in Live(book) : c.txs[t].kind = book.txs[t].kind
    BY <1>1, <1>3
  <2> QED
    BY <2>1, <2>2, <1>5 DEF InOrder, NotClosed
<1>9. Tiled(c, lo, hi)
  <2>1. \A t \in Terms(book) : c.txs[t].to = book.txs[t].to /\ c.txs[t].from = book.txs[t].from
    BY <1>1, <1>3
  <2>2. \A d : RestFrom(c, d) = RestFrom(book, d)
    BY <2>1, <1>5 DEF RestFrom, Rest
  <2> QED
    BY <2>1, <2>2, <1>5 DEF Tiled
<1>11. PricedAhead(c, effective, price)
  <2> SUFFICES ASSUME NEW t \in Terms(book), c.txs[t].state # "BOOKED", effective < c.txs[t].from
               PROVE  c.txs[t].net = price * (c.txs[t].to - c.txs[t].from)
    BY <1>5 DEF PricedAhead
  <2>1. t \in DOMAIN book.txs
    BY <1>3
  <2>2. t \in L
    BY <2>1, <1>1, <1>10
  <2> QED
    BY <2>1, <2>2, <1>1
<1>12. ASSUME NEW d \in Int
       PROVE  OwedFrom(c, d) = OwedFrom(book, d)
                + (price - sub.price) * SumFunctionOnSet(RestOf(book, d), L)
  <2> DEFINE S == Live(book)
             u == OwedOf(c, d)
             v == OwedOf(book, d)
             r == RestOf(book, d)
             w == [t \in S |-> IF t \in L THEN r[t] ELSE 0]
             k == price - sub.price
  <2>1. /\ OwedFrom(c, d) = SumFunctionOnSet(u, S) /\ OwedFrom(book, d) = SumFunctionOnSet(v, S)
        /\ Ints(v, S) /\ Ints(r, S)
    BY <1>2, <1>5, <1>7, SumsOnRows
  <2>2. L \in SUBSET S
    BY <1>3, <1>4
  <2>3. \A t \in S : u[t] = Owed(c.txs[t], d) /\ v[t] = Owed(book.txs[t], d) /\ r[t] = Rest(book.txs[t], d)
    BY <1>1, <1>3 DEF OwedOf, RestOf
  <2>4. k \in Int
    BY <1>2
  <2>5. ASSUME NEW t \in S PROVE u[t] = v[t] + k * w[t]
    <3>1. CASE t \in L
      <4> DEFINE x == r[t]
      <4>1. Rest(c.txs[t], d) = x /\ x \in Int
        BY <2>1, <2>3, <1>1, <1>3 DEF Rest, Ints
      <4>2. u[t] = price * x /\ v[t] = sub.price * x /\ w[t] = x
        BY <2>3, <3>1, <4>1, <1>6 DEF Owed
      <4> HIDE DEF x, u, v, w
      <4>3. price * x = sub.price * x + (price - sub.price) * x
        BY <4>1, <1>2
      <4> QED
        BY <4>2, <4>3
    <3>2. CASE t \notin L
      <4>1. u[t] = v[t] /\ w[t] = 0 /\ v[t] \in Int
        BY <2>1, <2>3, <3>2, <1>1, <1>3 DEF Ints
      <4> HIDE DEF u, v, w, k
      <4> QED
        BY <2>4, <4>1
    <3> QED
      BY <3>1, <3>2
  <2>6. Ints(w, S) /\ \A t \in S \ L : w[t] = 0
    BY <2>1 DEF Ints
  <2>7. Ints(r, L) /\ \A t \in L : w[t] = r[t]
    BY <2>1, <2>2 DEF Ints
  <2>8. Combined(u, v, k, w, S)
    BY <2>5 DEF Combined
  <2> HIDE DEF S, u, v, w, r, k
  <2>9. IsFiniteSet(S) /\ IsFiniteSet(L)
    BY <2>2, <1>3, FS_Subset DEF S
  <2>10. SumFunctionOnSet(w, S) = SumFunctionOnSet(w, L)
    BY <2>2, <2>6, <2>9, SumOfPart
  <2>11. SumFunctionOnSet(w, L) = SumFunctionOnSet(r, L)
    BY <2>7, <2>9, SumSame
  <2>12. SumFunctionOnSet(u, S) = SumFunctionOnSet(v, S) + k * SumFunctionOnSet(w, S)
    BY <2>1, <2>4, <2>6, <2>8, <2>9, SumCombined
  <2> QED
    BY <2>1, <2>10, <2>11, <2>12 DEF k, r
<1> QED
  BY <1>1, <1>7, <1>8, <1>9, <1>11, <1>12 DEF c, L

\* A change of the price: what is booked keeps its amount.
LEMMA ChangedIsConsistent ==
  ASSUME SubInv, sub \in SubHeads, NEW effective \in Nat, NEW price \in Nat, NEW version \in Nat
  PROVE  Consistent(ChangedBook(effective, price, version))
<1>1. price - sub.price \in Int
  BY DEF SubHeads
<1>2. /\ ChangeNet(effective, price - sub.price) \in Int /\ ChangeEnd(effective) \in Int
      /\ effective \in Int
  BY <1>1, ChangeAmounts
<1>3. Consistent(Repriced(effective, price, version))
  BY RepricedRows
<1> QED
  BY <1>2, <1>3, AddedOne DEF ChangedBook

\* A closure clips what has begun and voids what has not.
LEMMA EndedRows ==
  ASSUME SubInv, NEW effective \in Nat
  PROVE  LET c == EndedBook(effective)
             later == {t \in Pending(book) : book.txs[t].from >= effective}
             during == {t \in Pending(book) : book.txs[t].from < effective /\ effective < book.txs[t].to}
         IN  /\ Consistent(c) /\ DOMAIN c.txs = DOMAIN book.txs
             /\ Live(c) = Live(book) \ later
             /\ \A t \in Live(c) : t \notin during => c.txs[t].net = book.txs[t].net
             /\ \A t \in Live(c) : t \in during =>
                  c.txs[t].net = ShareOf(book.txs[t].net, effective - book.txs[t].from,
                                         book.txs[t].to - book.txs[t].from)
<1> DEFINE later == {t \in Pending(book) : book.txs[t].from >= effective}
           during == {t \in Pending(book) : book.txs[t].from < effective /\ effective < book.txs[t].to}
           rows == [t \in DOMAIN book.txs |-> IF t \in during THEN Clipped(book.txs[t], effective)
                                              ELSE book.txs[t]]
           b == [book EXCEPT !.txs = rows]
           c == EndedBook(effective)
<1>1. c = Void(b, later)
  BY DEF EndedBook
<1>2. /\ \A t \in later : t \in DOMAIN book.txs /\ book.txs[t].state # "BOOKED"
      /\ \A t \in during : t \in DOMAIN book.txs /\ book.txs[t].state # "BOOKED"
  BY DEF Pending, With
<1> HIDE DEF later, during, c
<1>3. ASSUME NEW t \in DOMAIN book.txs
      PROVE  /\ rows[t] \in Transaction /\ rows[t].state = book.txs[t].state
             /\ rows[t].from = book.txs[t].from /\ rows[t].job = book.txs[t].job
             /\ t \notin during => rows[t] = book.txs[t]
             /\ t \in during => rows[t].net = ShareOf(book.txs[t].net, effective - book.txs[t].from,
                                                      book.txs[t].to - book.txs[t].from)
  <2>1. /\ book.txs[t] \in Transaction /\ book.txs[t].net \in Int
        /\ book.txs[t].from \in Int /\ book.txs[t].to \in Int
    BY BookRows
  <2>2. ShareOf(book.txs[t].net, effective - book.txs[t].from, book.txs[t].to - book.txs[t].from) \in Int
    <3>1. effective - book.txs[t].from \in Int /\ book.txs[t].to - book.txs[t].from \in Int
      BY <2>1
    <3> QED
      BY <2>1, <3>1, ShareIsInteger
  <2>3. CASE t \in during
    <3> DEFINE net == ShareOf(book.txs[t].net, effective - book.txs[t].from,
                              book.txs[t].to - book.txs[t].from)
    <3>1. rows[t] = [book.txs[t] EXCEPT !.net = net, !.to = effective]
      BY <2>3 DEF Clipped
    <3>2. net \in Int /\ effective \in Int
      BY <2>2
    <3> HIDE DEF rows, net
    <3>3. rows[t].net = net
      BY <2>1, <3>1 DEF Transaction
    <3>4. /\ rows[t] \in Transaction /\ rows[t].state = book.txs[t].state
          /\ rows[t].from = book.txs[t].from /\ rows[t].job = book.txs[t].job
      BY <2>1, <3>1, <3>2 DEF Transaction
    <3> QED
      BY <2>3, <3>3, <3>4 DEF net
  <2>4. CASE t \notin during
    BY <2>1, <2>4
  <2> QED
    BY <2>3, <2>4
<1>4. rows = [t \in DOMAIN book.txs |-> rows[t]]
  OBVIOUS
<1> HIDE DEF rows
<1>5. ASSUME NEW t \in DOMAIN book.txs
      PROVE  /\ rows[t] \in Transaction /\ rows[t].state = book.txs[t].state
             /\ rows[t].from = book.txs[t].from /\ rows[t].job = book.txs[t].job
             /\ book.txs[t].state = "BOOKED" => rows[t].net = book.txs[t].net
  BY <1>2, <1>3
<1>6. Consistent(b) /\ b.txs = rows /\ DOMAIN rows = DOMAIN book.txs
  BY <1>4, <1>5, BookRows, AdjustedBook
<1> HIDE DEF b
<1>7. later \in SUBSET DOMAIN b.txs /\ \A t \in later : b.txs[t].state # "BOOKED"
  BY <1>2, <1>3, <1>6
<1>8. Consistent(c) /\ DOMAIN c.txs = DOMAIN book.txs
  BY <1>1, <1>6, <1>7, VoidBook
<1>9. c.txs = VoidTxs(b, later) /\ b \in Books
  BY <1>1, <1>6 DEF Void, Consistent, Books
<1>10. \A t \in DOMAIN book.txs : /\ t \in later => c.txs[t].state = "VOID"
                                  /\ t \notin later => c.txs[t] = rows[t]
  <2>1. \A t \in DOMAIN b.txs : t \in later => [b.txs[t] EXCEPT !.state = "VOID"].state = "VOID"
    BY <1>9, Tables DEF Transaction
  <2> QED
    BY <1>6, <1>9, <2>1 DEF VoidTxs
<1>11. Live(c) = Live(book) \ later
  BY <1>3, <1>8, <1>10 DEF Live, With
<1>12. \A t \in Live(c) : t \in DOMAIN book.txs /\ c.txs[t] = rows[t]
  BY <1>8, <1>10, <1>11 DEF Live
<1>13. \A t \in Live(c) : t \notin during => c.txs[t].net = book.txs[t].net
  BY <1>3, <1>12
<1>14. \A t \in Live(c) : t \in during =>
         c.txs[t].net = ShareOf(book.txs[t].net, effective - book.txs[t].from,
                                book.txs[t].to - book.txs[t].from)
  BY <1>3, <1>12
<1> QED
  BY <1>8, <1>11, <1>13, <1>14 DEF c, later, during

\* A closure: what is booked stays, the rest is clipped or voided.
LEMMA EndedIsConsistent ==
  ASSUME SubInv, NEW effective \in Nat
  PROVE  Consistent(EndedBook(effective))
  BY EndedRows

\* The amount of a CHANGE transaction: the difference for the days of what is settled.
LEMMA ChangeNetIs ==
  ASSUME SubInv, NEW effective \in Nat, NEW delta \in Int,
         NEW lo \in Int, NEW hi \in Int, Tiled(book, lo, hi)
  PROVE  ChangeNet(effective, delta)
           = delta * SumFunctionOnSet(RestOf(book, effective), Settled(effective))
<1> DEFINE S == Settled(effective)
           r == RestOf(book, effective)
           part == [t \in S |-> delta * (book.txs[t].to - Upper(book.txs[t].from, effective))]
<1>1. ChangeNet(effective, delta) = SumFunctionOnSet(part, S)
  BY DEF ChangeNet, SumFunction
<1>2. ASSUME NEW t \in S PROVE part[t] = delta * r[t]
  <2>1. t \in TermTxs /\ book.txs[t].to > effective
    BY <1>2 DEF Settled, Overlaps
  <2>2. /\ t \in DOMAIN book.txs /\ book.txs[t].from \in Int /\ book.txs[t].to \in Int
        /\ book.txs[t].from < book.txs[t].to
    BY <2>1, PeriodRows
  <2>3. r[t] = book.txs[t].to - Upper(book.txs[t].from, effective)
    BY <2>1, <2>2 DEF RestOf, Rest, DaysLeft, Upper
  <2> QED
    BY <2>3, <1>2
<1>3. IsFiniteSet(S) /\ Ints(r, S) /\ Scaled(part, delta, r, S)
  BY <1>2, OverlappingDays DEF Scaled
<1> HIDE DEF S, r, part
<1>4. SumFunctionOnSet(part, S) = delta * SumFunctionOnSet(r, S)
  BY <1>3, SumScaled
<1> QED
  BY <1>1, <1>4 DEF S, r

\* The later periods begin after the change.
LEMMA LaterFrom ==
  ASSUME SubInv, NEW effective \in Nat, NEW lo \in Int, NEW hi \in Int, Tiled(book, lo, hi), NEW d \in Int
  PROVE  SumFunctionOnSet(RestOf(book, d), LaterPeriods(effective))
           = SumFunctionOnSet(RestOf(book, Upper(d, effective)), LaterPeriods(effective))
<1> DEFINE L == LaterPeriods(effective)
           r == RestOf(book, d)
           s == RestOf(book, Upper(d, effective))
<1>1. Upper(d, effective) \in Int /\ effective <= Upper(d, effective)
  BY DEF Upper
<1>2. IsFiniteSet(L) /\ Ints(s, L)
  BY <1>1, OverlappingDays
<1>3. ASSUME NEW t \in L PROVE r[t] = s[t]
  <2>1. /\ t \in TermTxs /\ t \in DOMAIN book.txs /\ book.txs[t].from \in Int /\ book.txs[t].to \in Int
    BY <1>3, PeriodRows DEF LaterPeriods
  <2>2. effective < book.txs[t].from
    BY <1>3, <2>1 DEF LaterPeriods, Settled
  <2> QED
    BY <2>1, <2>2 DEF RestOf, Rest, DaysLeft, Upper
<1> HIDE DEF L, r, s
<1>4. SumFunctionOnSet(r, L) = SumFunctionOnSet(s, L)
  BY <1>2, <1>3, SumSame
<1> QED
  BY <1>4 DEF L, r, s

\* What is later and what the CHANGE transaction carries are the days from the change on.
LEMMA ChangeDays ==
  ASSUME SubInv, NEW effective \in Nat, NEW lo \in Int, NEW hi \in Int, Tiled(book, lo, hi),
         InOrder(book), lo <= effective, NEW d \in Int, Settled(effective) # {}
  PROVE  SumFunctionOnSet(RestOf(book, d), LaterPeriods(effective))
           + DaysLeft(effective, ChangeEnd(effective), d) = DaysLeft(lo, hi, Upper(d, effective))
<1> DEFINE D == Upper(d, effective)
           E == ChangeEnd(effective)
           later == SumFunctionOnSet(RestOf(book, d), LaterPeriods(effective))
<1>1. D \in Int /\ effective <= D
  BY DEF Upper
<1>2. later = SumFunctionOnSet(RestOf(book, D), LaterPeriods(effective))
  BY LaterFrom
<1>3. later = DaysLeft(lo, hi, Upper(D, E))
  BY <1>1, <1>2, SettledDays
<1>4. E \in Int /\ effective < E /\ E <= hi
  BY SettledEnd
<1> HIDE DEF E, later
<1>5. DaysLeft(lo, hi, Upper(D, E)) + DaysLeft(effective, E, d) = DaysLeft(lo, hi, D)
  BY <1>4 DEF DaysLeft, Upper
<1> QED
  BY <1>3, <1>5 DEF E, later

\* A change of the price changes what is owed for the days from the change on, by the difference.
LEMMA ChangedAmounts ==
  ASSUME SubInv, sub \in SubHeads, NEW effective \in Nat, NEW price \in Nat, NEW version \in Nat,
         NEW lo \in Int, NEW hi \in Int, Tiled(book, lo, hi), Exact(book), InOrder(book), NotClosed(book),
         NEW last \in Int, lo <= last, last <= effective, PricedAhead(book, last, sub.price)
  PROVE  LET c == ChangedBook(effective, price, version)
         IN  /\ Consistent(c) /\ Exact(c) /\ InOrder(c) /\ Tiled(c, lo, hi) /\ NotClosed(c)
             /\ PricedAhead(c, effective, price)
             /\ \A d \in Int :
                  OwedFrom(c, d) = OwedFrom(book, d)
                    + (price - sub.price) * DaysLeft(lo, hi, Upper(d, effective))
<1> DEFINE k == price - sub.price
           b == Repriced(effective, price, version)
           E == ChangeEnd(effective)
           net == ChangeNet(effective, k)
           tx == NewTx(version, "CHANGE", effective, E, net)
           c == ChangedBook(effective, price, version)
           later(d) == SumFunctionOnSet(RestOf(book, d), LaterPeriods(effective))
           Fits(d) == k * later(d) + Owed(tx, d) = k * DaysLeft(lo, hi, Upper(d, effective))
<1>1. sub.price \in Int /\ k \in Int /\ effective \in Int /\ lo <= effective
  BY DEF SubHeads
<1>2. net \in Int /\ E \in Int
  BY <1>1, ChangeAmounts
<1>3. /\ Consistent(b) /\ Exact(b) /\ InOrder(b) /\ Tiled(b, lo, hi) /\ NotClosed(b)
      /\ PricedAhead(b, effective, price)
      /\ \A d \in Int : OwedFrom(b, d) = OwedFrom(book, d) + k * later(d)
  BY RepricedAmounts
<1>4. c = Add(b, version, "CHANGE", effective, E, net)
  BY DEF ChangedBook
<1> HIDE DEF b, c, E
<1>5. tx \in Transaction /\ tx.from = effective /\ tx.to = E /\ tx.net = net
  BY <1>2 DEF NewTx, Transaction, NoJob
<1>6. net = k * SumFunctionOnSet(RestOf(book, effective), Settled(effective))
  BY <1>1, ChangeNetIs
<1>7. ASSUME Settled(effective) = {} PROVE IsExact(tx) /\ \A d \in Int : Fits(d)
  <2>1. E = effective + Period /\ Period \in Nat /\ Period > 0
    BY <1>7, PeriodAssumption DEF ChangeEnd, E
  <2>2. SumFunctionOnSet(RestOf(book, effective), {}) = 0
    BY FS_EmptySet, SumOfZeros
  <2>3. net = 0
    <3> HIDE DEF k, net
    <3> QED
      BY <1>1, <1>6, <1>7, <2>2
  <2> HIDE DEF tx
  <2>4. IsExact(tx) /\ Rate(tx) = 0
    <3>1. tx.from < tx.to /\ tx.net = 0 * (tx.to - tx.from)
      BY <1>5, <2>1, <2>3
    <3> QED
      BY <3>1, <1>5, RateOf
  <2>5. ASSUME NEW d \in Int
        PROVE  Fits(d)
    <3> DEFINE D == Upper(d, effective)
    <3>1. D \in Int /\ effective <= D
      BY DEF Upper
    <3>2. /\ SumFunctionOnSet(RestOf(book, D), Settled(effective)) + later(D) = DaysLeft(lo, hi, D)
          /\ later(D) \in Int
      BY <3>1, OverlappingDays
    <3>3. SumFunctionOnSet(RestOf(book, D), {}) = 0
      BY FS_EmptySet, SumOfZeros
    <3>4. later(d) = later(D)
      BY LaterFrom
    <3>5. Owed(tx, d) = 0
      <4>1. Rest(tx, d) \in Int
        BY <1>5, <1>2, <1>1 DEF Rest, DaysLeft, Upper
      <4> QED
        BY <4>1, <2>4 DEF Owed
    <3> HIDE DEF D, later, k
    <3>6. later(d) = DaysLeft(lo, hi, D) /\ k * later(d) \in Int
      <4>1. later(d) = DaysLeft(lo, hi, D) /\ later(d) \in Int
        BY <1>7, <3>2, <3>3, <3>4
      <4> QED
        BY <4>1, <1>1
    <3> QED
      BY <3>5, <3>6 DEF D
  <2> HIDE DEF Fits
  <2> QED
    BY <2>4, <2>5
<1>8. ASSUME Settled(effective) # {} PROVE IsExact(tx) /\ \A d \in Int : Fits(d)
  <2>1. effective < E
    BY <1>8, SettledEnd DEF E
  <2>2. net = k * (E - effective)
    BY <1>1, <1>6, <1>8, SettledDays DEF E
  <2> HIDE DEF tx, k
  <2>3. IsExact(tx) /\ Rate(tx) = k
    <3>1. tx.from < tx.to /\ tx.net = k * (tx.to - tx.from)
      BY <1>5, <2>1, <2>2
    <3> QED
      BY <3>1, <1>1, <1>5, RateOf
  <2>4. ASSUME NEW d \in Int
        PROVE  Fits(d)
    <3> DEFINE x == DaysLeft(effective, E, d)
               y == DaysLeft(lo, hi, Upper(d, effective))
               l == later(d)
    <3>1. l + x = y
      BY <1>1, <1>8, ChangeDays DEF E
    <3>2. x \in Int /\ y \in Int /\ l \in Int
      <4>1. Upper(d, effective) \in Int /\ effective <= Upper(d, effective)
        BY DEF Upper
      <4>2. later(Upper(d, effective)) \in Int
        BY <4>1, OverlappingDays
      <4>3. l \in Int
        BY <4>2, LaterFrom
      <4> QED
        BY <4>3, <1>2 DEF DaysLeft, Upper
    <3>3. Owed(tx, d) = k * x
      BY <1>5, <2>3 DEF Owed, Rest
    <3> HIDE DEF x, y, l, later
    <3>4. k * l + k * x = k * y
      <4>1. k * l + k * x = k * (l + x)
        BY <3>2, <1>1
      <4> QED
        BY <4>1, <3>1
    <3> QED
      BY <3>3, <3>4 DEF y, l
  <2> HIDE DEF Fits
  <2> QED
    BY <2>3, <2>4
<1>9. IsExact(tx) /\ \A d \in Int : Fits(d)
  <2> HIDE DEF Fits, tx
  <2> QED
    BY <1>7, <1>8
<1> HIDE DEF tx, net
<1>10. Consistent(c) /\ Exact(c) /\ \A d \in Int : OwedFrom(c, d) = OwedFrom(b, d) + Owed(tx, d)
  BY <1>1, <1>2, <1>3, <1>4, <1>9, OneMore DEF tx
<1>11. InOrder(c) /\ Tiled(c, lo, hi) /\ NotClosed(c) /\ PricedAhead(c, effective, price)
  BY <1>1, <1>2, <1>3, <1>4, OneMoreKeeps
<1>12. ASSUME NEW d \in Int
       PROVE  OwedFrom(c, d) = OwedFrom(book, d) + k * DaysLeft(lo, hi, Upper(d, effective))
  <2> DEFINE o == OwedFrom(book, d)
             l == k * later(d)
             x == Owed(tx, d)
             y == k * DaysLeft(lo, hi, Upper(d, effective))
  <2>1. OwedFrom(c, d) = (o + l) + x /\ l + x = y
    BY <1>3, <1>9, <1>10
  <2>2. o \in Int /\ l \in Int /\ x \in Int
    <3>1. o = SumFunctionOnSet(OwedOf(book, d), Live(book)) /\ Ints(OwedOf(book, d), Live(book))
          /\ IsFiniteSet(Live(book))
      BY BookRows, SumsOnRows, LiveRows
    <3>2. o \in Int
      BY <3>1, SumOfInts
    <3>3. x \in Int
      BY <1>5, <1>9, ExactAmounts DEF tx
    <3>4. later(d) \in Int
      <4>1. Upper(d, effective) \in Int /\ effective <= Upper(d, effective)
        BY DEF Upper
      <4>2. later(Upper(d, effective)) \in Int
        BY <4>1, OverlappingDays
      <4> QED
        BY <4>2, LaterFrom
    <3> HIDE DEF later, k
    <3> QED
      BY <3>2, <3>3, <3>4, <1>1
  <2> HIDE DEF o, l, x, y
  <2>3. OwedFrom(c, d) = o + y
    BY <2>1, <2>2
  <2> QED
    BY <2>3 DEF o, y
<1> QED
  BY <1>10, <1>11, <1>12 DEF c, k

\* A book without terms, and nothing but zeros.
LEMMA NothingOwed ==
  ASSUME NEW b \in Books, Exact(b), Zeros(b), Terms(b) = {}
  PROVE  /\ \A d \in Int : OwedFrom(b, d) = 0
         /\ \A day \in Int : Tiled(b, day, day)
         /\ TermsBooked(b)
<1>1. /\ IsFiniteSet(Live(b))
      /\ \A t \in Live(b) : /\ b.txs[t] \in Transaction /\ b.txs[t].from \in Int /\ b.txs[t].to \in Int
                            /\ b.txs[t].from < b.txs[t].to /\ b.txs[t].net = 0
  BY LiveRows DEF Exact, Zeros, IsExact
<1>2. ASSUME NEW d \in Int PROVE OwedFrom(b, d) = 0
  <2>1. ASSUME NEW t \in Live(b) PROVE Owed(b.txs[t], d) = 0
    <3>1. b.txs[t].net = 0 * (b.txs[t].to - b.txs[t].from)
      BY <1>1
    <3>2. Rate(b.txs[t]) = 0
      BY <3>1, <1>1, RateOf
    <3>3. Rest(b.txs[t], d) \in Int
      BY <1>1 DEF Rest, DaysLeft, Upper
    <3> QED
      BY <3>2, <3>3 DEF Owed
  <2> DEFINE w == [t \in Live(b) |-> Owed(b.txs[t], d)]
  <2>2. \A t \in Live(b) : w[t] = 0
    BY <2>1
  <2>3. OwedFrom(b, d) = SumFunctionOnSet(w, Live(b))
    BY DEF OwedFrom, SumFunction
  <2> HIDE DEF w
  <2> QED
    BY <2>2, <2>3, <1>1, SumOfZeros
<1>3. ASSUME NEW day \in Int PROVE Tiled(b, day, day)
  <2>1. ASSUME NEW d \in Int PROVE RestFrom(b, d) = DaysLeft(day, day, d)
    <3> DEFINE w == [t \in Terms(b) |-> Rest(b.txs[t], d)]
    <3>1. RestFrom(b, d) = SumFunctionOnSet(w, {})
      BY DEF RestFrom, SumFunction
    <3> HIDE DEF w
    <3>2. SumFunctionOnSet(w, {}) = 0
      BY FS_EmptySet, SumOfZeros
    <3> QED
      BY <3>1, <3>2 DEF DaysLeft, Upper
  <2> QED
    BY <2>1 DEF Tiled
<1>4. TermsBooked(b)
  BY DEF TermsBooked
<1> QED
  BY <1>2, <1>3, <1>4

\* schedule, of a term that follows one that is booked.
LEMMA ScheduledAmounts ==
  ASSUME NEW b, Consistent(b), NEW way \in Modes, NEW version \in Nat, NEW kind \in {"NEW", "RENEW"},
         NEW lo \in Int, NEW start \in Int, NEW end \in Int, lo <= start, start <= end, NEW price \in Int,
         TermsBooked(b), Tiled(b, lo, start), Exact(b)
  PROVE  TermFollows(b, Scheduled(b, way, version, kind, start, end, price), lo, start, end, price)
<1> DEFINE more == TermRows(version, kind, start, end, price)
           m == Added(b, more)
           c == Scheduled(b, way, version, kind, start, end, price)
<1>1. c = Register(m, way)
  BY DEF Scheduled, TermRows
<1>2. IsTerm(more, kind, start, end, price)
  BY RowsOfTerm
<1> HIDE DEF more
<1>3. TermFollows(b, m, lo, start, end, price)
  BY <1>2, TermAdded
<1> HIDE DEF m, c
<1>4. Consistent(c) /\ Onwards(m, c) /\ Registered(m, c) /\ m \in Books
  BY <1>1, <1>3, RegisteredBook DEF Consistent, TermFollows
<1>5. /\ \A d : OwedFrom(c, d) = OwedFrom(m, d)
      /\ Tiled(c, lo, end) /\ Exact(c)
      /\ NotClosed(m) => NotClosed(c)
      /\ Zeros(m) => Zeros(c)
      /\ \A day : PricedAhead(c, day, price)
  BY <1>3, <1>4, AmountsKept DEF TermFollows
<1>6. InOrder(c)
  BY <1>3, <1>4, OrderKept DEF TermFollows
<1>7. \A d \in Int : OwedFrom(c, d) = OwedFrom(b, d) + price * DaysLeft(start, end, d)
  BY <1>3, <1>5 DEF TermFollows
<1> QED
  BY <1>3, <1>4, <1>5, <1>6, <1>7 DEF c, TermFollows

\* The terms are voided.
LEMMA TermsVoided ==
  ASSUME SubInv, \A t \in TermTxs : book.txs[t].state # "BOOKED", Zeros(book), Exact(book), NotClosed(book)
  PROVE  LET c == Void(book, TermTxs)
         IN  Consistent(c) /\ Terms(c) = {} /\ Zeros(c) /\ Exact(c) /\ NotClosed(c)
<1> DEFINE c == Void(book, TermTxs)
<1>1. TermTxs = Terms(book) /\ book \in Books
  BY BookRows DEF TermTxs, Terms
<1>2. TermTxs \in SUBSET DOMAIN book.txs
  BY DEF TermTxs, Live
<1>3. Consistent(c) /\ DOMAIN c.txs = DOMAIN book.txs
  BY <1>2, BookRows, VoidBook
<1>4. c.txs = VoidTxs(book, TermTxs)
  BY DEF Void, Books
<1>5. \A t \in DOMAIN book.txs : /\ t \in TermTxs => c.txs[t].state = "VOID"
                                 /\ t \notin TermTxs => c.txs[t] = book.txs[t]
  <2>1. \A t \in DOMAIN book.txs : t \in TermTxs => [book.txs[t] EXCEPT !.state = "VOID"].state = "VOID"
    BY <1>1, Tables DEF Transaction
  <2> QED
    BY <1>4, <2>1 DEF VoidTxs
<1> HIDE DEF c
<1>6. Live(c) = Live(book) \ Terms(book)
  BY <1>1, <1>2, <1>3, <1>5 DEF Live, With
<1>7. \A t \in Live(c) : t \in Live(book) \ Terms(book) /\ c.txs[t] = book.txs[t]
  BY <1>1, <1>5, <1>6 DEF Live
<1>8. Terms(c) = {}
  BY <1>7 DEF Terms
<1>9. Zeros(c) /\ Exact(c) /\ NotClosed(c)
  BY <1>7 DEF Zeros, Exact, NotClosed
<1> QED
  BY <1>3, <1>8, <1>9 DEF c

\* A move makes one term of its own, and a CHANGE transaction that comes to nothing.
LEMMA MovedAmounts ==
  ASSUME SubInv, NEW start \in Nat, NEW price \in Nat, NEW version \in Nat,
         \A t \in TermTxs : book.txs[t].state # "BOOKED", Zeros(book), Exact(book), NotClosed(book)
  PROVE  LET c == MovedBook(start, price, version)
         IN  /\ Consistent(c) /\ InOrder(c) /\ Tiled(c, start, start + Term) /\ Exact(c)
             /\ NotClosed(c) /\ Zeros(c)
             /\ \A day : PricedAhead(c, day, price)
             /\ \A d \in Int : OwedFrom(c, d) = price * DaysLeft(start, start + Term, d)
<1> DEFINE b == Void(book, TermTxs)
           end == start + Term
           m == Scheduled(b, mode, version, "NEW", start, end, price)
           tx == NewTx(version, "CHANGE", start, start + Period, 0)
           c == MovedBook(start, price, version)
<1>1. /\ start \in Int /\ end \in Int /\ start <= end /\ start <= start /\ price \in Int /\ mode \in Modes
      /\ start + Period \in Int /\ start < start + Period /\ 0 \in Int
  BY SubscriptionsAssumption, PeriodAssumption DEF SubInv, SubTypeOK
<1>2. Consistent(b) /\ Terms(b) = {} /\ Zeros(b) /\ Exact(b) /\ NotClosed(b) /\ b \in Books
  BY TermsVoided DEF Consistent
<1>3. c = Add(m, version, "CHANGE", start, start + Period, 0)
  BY DEF MovedBook
<1> HIDE DEF b, end, c
<1>4. (\A d \in Int : OwedFrom(b, d) = 0) /\ Tiled(b, start, start) /\ TermsBooked(b)
  BY <1>1, <1>2, NothingOwed
<1>12. TermFollows(b, m, start, start, end, price)
  BY <1>1, <1>2, <1>4, ScheduledAmounts
<1>5. /\ Consistent(m) /\ InOrder(m) /\ Tiled(m, start, end) /\ Exact(m) /\ NotClosed(m) /\ Zeros(m)
      /\ \A day : PricedAhead(m, day, price)
      /\ \A d \in Int : OwedFrom(m, d) = OwedFrom(b, d) + price * DaysLeft(start, end, d)
  BY <1>2, <1>12 DEF TermFollows
<1> HIDE DEF m
<1>6. tx \in Transaction /\ tx.from = start /\ tx.to = start + Period /\ tx.net = 0
  BY <1>1 DEF NewTx, Transaction, NoJob
<1>7. IsExact(tx) /\ Rate(tx) = 0
  <2> HIDE DEF tx
  <2>1. PICK r \in Int : r = 0
    BY <1>1
  <2>2. tx.from < tx.to /\ tx.net = r * (tx.to - tx.from)
    BY <2>1, <1>1, <1>6
  <2>3. IsExact(tx) /\ Rate(tx) = r
    BY <2>2, <1>6, RateOf
  <2> QED
    BY <2>1, <2>3
<1>8. ASSUME NEW d \in Int PROVE Owed(tx, d) = 0
  <2>1. Rest(tx, d) \in Int
    BY <1>6, <1>1 DEF Rest, DaysLeft, Upper
  <2> HIDE DEF tx
  <2> QED
    BY <2>1, <1>7 DEF Owed
<1> HIDE DEF tx
<1>9. Consistent(c) /\ Exact(c) /\ \A d \in Int : OwedFrom(c, d) = OwedFrom(m, d) + Owed(tx, d)
  BY <1>1, <1>3, <1>5, <1>7, OneMore DEF tx
<1>10. /\ InOrder(c) /\ Tiled(c, start, end) /\ NotClosed(c) /\ Zeros(c)
       /\ \A day : PricedAhead(c, day, price)
  BY <1>1, <1>3, <1>5, OneMoreKeeps
<1>11. ASSUME NEW d \in Int PROVE OwedFrom(c, d) = price * DaysLeft(start, end, d)
  <2>1. DaysLeft(start, end, d) \in Int
    BY <1>1 DEF DaysLeft, Upper
  <2>2. price * DaysLeft(start, end, d) \in Int
    BY <1>1, <2>1
  <2> QED
    BY <2>2, <1>4, <1>5, <1>8, <1>9
<1> QED
  BY <1>9, <1>10, <1>11 DEF c, end

\* The share of an amount for the days before a day, and for those from it on.
LEMMA SharesOf ==
  ASSUME NEW tx \in Transaction, IsExact(tx), NEW d \in Int
  PROVE  /\ ShareOf(tx.net, tx.to - Upper(tx.from, d), tx.to - tx.from) = Owed(tx, d)
         /\ tx.from < d /\ d < tx.to => ShareOf(tx.net, d - tx.from, tx.to - tx.from) = tx.net - Owed(tx, d)
<1> DEFINE w == tx.to - tx.from
           r == Rate(tx)
           p == tx.to - Upper(tx.from, d)
<1>1. /\ tx.from \in Int /\ tx.to \in Int /\ w \in Int /\ w > 0 /\ p \in Int
      /\ Rest(tx, d) = IF p <= 0 THEN 0 ELSE p
  BY DEF Transaction, IsExact, Rest, DaysLeft, Upper
<1>2. r \in Int /\ tx.net = r * w
  BY ExactAmounts
<1>3. Owed(tx, d) = r * Rest(tx, d)
  BY DEF Owed
<1>4. ASSUME NEW q \in Int, q > 0 PROVE ShareOf(tx.net, q, w) = r * q
  <2> HIDE DEF w, r
  <2>1. ((r * w) * q) \div w = r * q
    BY <1>1, <1>2, ExactShare
  <2> QED
    BY <1>1, <1>2, <1>4, <2>1 DEF ShareOf
<1>5. ShareOf(tx.net, p, w) = Owed(tx, d)
  <2>1. CASE p <= 0
    <3>1. ShareOf(tx.net, p, w) = 0
      BY <2>1 DEF ShareOf
    <3>2. Owed(tx, d) = r * 0
      BY <2>1, <1>1, <1>3
    <3> HIDE DEF r
    <3>3. r * 0 = 0
      BY <1>2
    <3> QED
      BY <3>1, <3>2, <3>3
  <2>2. CASE ~ (p <= 0)
    <3> HIDE DEF p, r, w
    <3>1. p > 0
      BY <2>2, <1>1
    <3> QED
      BY <2>2, <3>1, <1>1, <1>3, <1>4
  <2> QED
    BY <2>1, <2>2
<1>6. ASSUME tx.from < d, d < tx.to PROVE ShareOf(tx.net, d - tx.from, w) = tx.net - Owed(tx, d)
  <2> DEFINE q == d - tx.from
             s == tx.to - d
  <2>1. q \in Int /\ q > 0 /\ s \in Int /\ Rest(tx, d) = s /\ w = q + s
    BY <1>1, <1>6 DEF Upper
  <2>2. ShareOf(tx.net, q, w) = r * q
    <3> HIDE DEF q, w, r
    <3> QED
      BY <2>1, <1>4
  <2> HIDE DEF q, s, w, r
  <2>3. r * (q + s) = r * q + r * s /\ r * q \in Int /\ r * s \in Int
    BY <2>1, <1>2
  <2>4. ShareOf(tx.net, q, w) = tx.net - Owed(tx, d)
    BY <2>1, <2>2, <2>3, <1>2, <1>3
  <2> QED
    BY <2>4 DEF q
<1> QED
  BY <1>5, <1>6 DEF w, p

\* A closure charges, and gives back, so that nothing is left from its day on.
LEMMA EndedAmounts ==
  ASSUME SubInv, Exact(book), NotClosed(book), NEW effective \in Nat
  PROVE  /\ Consistent(EndedBook(effective))
         /\ Charged(EndedBook(effective)) = Charged(book) - OwedFrom(book, effective) + Unearned(effective)
         /\ Charged(book) \in Int /\ OwedFrom(book, effective) \in Int /\ Unearned(effective) \in Int
<1> DEFINE c == EndedBook(effective)
           later == {t \in Pending(book) : book.txs[t].from >= effective}
           during == {t \in Pending(book) : book.txs[t].from < effective /\ effective < book.txs[t].to}
           S == Live(book)
           B == {u \in With(book, "BOOKED") : book.txs[u].kind # "CANCEL"}
           part == [t \in B |->
                      ShareOf(book.txs[t].net, book.txs[t].to - Upper(book.txs[t].from, effective),
                              book.txs[t].to - book.txs[t].from)]
           n == NetOf(book)
           o == OwedOf(book, effective)
           k == [t \in S |-> IF t \in B THEN o[t] ELSE 0]
           u == [t \in S |-> IF t \in Live(c) THEN c.txs[t].net ELSE 0]
           m == [t \in S |-> n[t] - o[t]]
<1>1. /\ Consistent(c) /\ DOMAIN c.txs = DOMAIN book.txs
      /\ Live(c) = Live(book) \ later
      /\ \A t \in Live(c) : t \notin during => c.txs[t].net = book.txs[t].net
      /\ \A t \in Live(c) : t \in during =>
           c.txs[t].net = ShareOf(book.txs[t].net, effective - book.txs[t].from,
                                  book.txs[t].to - book.txs[t].from)
  BY EndedRows
<1>2. /\ book \in Books /\ c \in Books /\ IsFiniteSet(S) /\ S \in SUBSET DOMAIN book.txs
      /\ \A t \in S : /\ book.txs[t] \in Transaction /\ book.txs[t].net \in Int
                      /\ book.txs[t].from \in Int /\ book.txs[t].to \in Int
  BY <1>1, BookRows, LiveRows DEF Consistent
<1>3. \A t \in S : IsExact(book.txs[t]) /\ book.txs[t].kind # "CANCEL"
  BY DEF Exact, NotClosed
<1>4. \A t \in S : n[t] = book.txs[t].net /\ o[t] = Owed(book.txs[t], effective)
  BY <1>2 DEF NetOf, OwedOf
<1>5. B = {t \in S : book.txs[t].state = "BOOKED"} /\ Pending(book) = {t \in S : book.txs[t].state # "BOOKED"}
  <2>1. \A t \in DOMAIN book.txs : book.txs[t].state \in {"INITIAL", "SCHEDULED", "BOOKED", "VOID"}
    BY <1>2, Tables DEF Transaction
  <2> QED
    BY <1>3, <2>1 DEF Live, With, Pending
<1>6. /\ later = {t \in S : book.txs[t].state # "BOOKED" /\ book.txs[t].from >= effective}
      /\ during = {t \in S : book.txs[t].state # "BOOKED" /\ book.txs[t].from < effective
                              /\ effective < book.txs[t].to}
  BY <1>5
<1>7. /\ Ints(n, S) /\ Ints(o, S)
      /\ Charged(book) = SumFunctionOnSet(n, S) /\ OwedFrom(book, effective) = SumFunctionOnSet(o, S)
      /\ Charged(c) = SumFunctionOnSet(NetOf(c), Live(c)) /\ Ints(NetOf(c), Live(c))
  BY <1>2, SumsOnRows
<1>8. Unearned(effective) = SumFunctionOnSet(part, B)
  BY DEF Unearned, SumFunction
<1> HIDE DEF c, later, during, S, B, n, o
<1>9. ASSUME NEW t \in S PROVE u[t] = m[t] + 1 * k[t] /\ m[t] = n[t] + (0 - 1) * o[t]
  <2> DEFINE tx == book.txs[t]
             x == n[t]
             y == o[t]
  <2>1. /\ tx \in Transaction /\ IsExact(tx) /\ tx.from \in Int /\ tx.to \in Int /\ tx.from < tx.to
        /\ x = tx.net /\ y = Owed(tx, effective) /\ x \in Int /\ y \in Int
    BY <1>2, <1>3, <1>4, <1>7, <1>9, ExactAmounts DEF Ints
  <2>2. m[t] = x - y /\ u[t] = (IF t \in Live(c) THEN c.txs[t].net ELSE 0) /\ k[t] = (IF t \in B THEN y ELSE 0)
    OBVIOUS
  <2> SUFFICES u[t] = m[t] + 1 * k[t] /\ m[t] = x + (0 - 1) * y
    OBVIOUS
  <2> HIDE DEF m, u, k, x, y
  <2>3. CASE t \in B
    <3>1. tx.state = "BOOKED"
      BY <2>3, <1>5
    <3>2. t \in Live(c) /\ c.txs[t].net = x
      BY <3>1, <1>1, <1>6, <1>9, <2>1 DEF S
    <3> QED
      BY <2>1, <2>2, <2>3, <3>2
  <2>4. CASE t \notin B
    <3>0. tx.state # "BOOKED"
      BY <2>4, <1>5
    <3>1. CASE tx.from >= effective
      <4>1. t \notin Live(c)
        BY <3>0, <3>1, <1>1, <1>6
      <4>2. y = x
        BY <2>1, <3>1, ExactAmounts
      <4> QED
        BY <2>1, <2>2, <2>4, <4>1, <4>2
    <3>2. CASE tx.from < effective /\ effective < tx.to
      <4>1. t \in Live(c) /\ t \in during
        BY <3>0, <3>2, <1>1, <1>6, <1>9, <2>1 DEF S
      <4>2. c.txs[t].net = x - y
        BY <4>1, <1>1, <2>1, <3>2, SharesOf
      <4> QED
        BY <2>1, <2>2, <2>4, <4>1, <4>2
    <3>3. CASE effective >= tx.to
      <4>1. t \in Live(c) /\ t \notin during
        BY <3>3, <1>1, <1>6, <1>9, <2>1 DEF S
      <4>2. c.txs[t].net = x /\ y = 0
        BY <4>1, <1>1, <2>1, <3>3, ExactAmounts
      <4> QED
        BY <2>1, <2>2, <2>4, <4>1, <4>2
    <3> QED
      BY <3>1, <3>2, <3>3, <2>1
  <2> QED
    BY <2>3, <2>4
<1>10. Ints(m, S) /\ Ints(k, S) /\ Combined(u, m, 1, k, S) /\ Combined(m, n, 0 - 1, o, S)
  BY <1>7, <1>9 DEF Ints, Combined
<1>11. SumFunctionOnSet(k, S) = Unearned(effective)
  <2>1. B \in SUBSET S /\ IsFiniteSet(B)
    BY <1>2, <1>5, FS_Subset
  <2>2. \A t \in S \ B : k[t] = 0
    OBVIOUS
  <2>3. \A t \in B : k[t] = part[t]
    <3>1. ASSUME NEW t \in B PROVE k[t] = part[t]
      <4>1. t \in S /\ k[t] = Owed(book.txs[t], effective)
        BY <2>1, <1>4
      <4> QED
        BY <4>1, <1>2, <1>3, SharesOf
    <3> QED
      BY <3>1
  <2>4. Ints(part, B)
    BY <2>1, <2>3, <1>10 DEF Ints
  <2> HIDE DEF k, part
  <2>5. SumFunctionOnSet(k, S) = SumFunctionOnSet(k, B)
    BY <1>2, <1>10, <2>1, <2>2, SumOfPart
  <2>6. SumFunctionOnSet(k, B) = SumFunctionOnSet(part, B)
    BY <2>1, <2>3, <2>4, SumSame
  <2> QED
    BY <2>5, <2>6, <1>8
<1>12. SumFunctionOnSet(u, S) = Charged(c)
  <2>1. Live(c) \in SUBSET S /\ IsFiniteSet(Live(c)) /\ Live(c) \in SUBSET DOMAIN c.txs
    BY <1>1, <1>2, FS_Subset DEF S, Live
  <2>2. \A t \in S \ Live(c) : u[t] = 0
    OBVIOUS
  <2>3. \A t \in Live(c) : u[t] = NetOf(c)[t]
    BY <2>1 DEF NetOf
  <2> HIDE DEF u
  <2>4. Ints(u, S)
    <3>1. \A t \in Live(c) : u[t] \in Int
      BY <1>7, <2>3 DEF Ints
    <3> QED
      BY <2>2, <3>1 DEF Ints
  <2>5. SumFunctionOnSet(u, S) = SumFunctionOnSet(u, Live(c))
    BY <1>2, <2>1, <2>2, <2>4, SumOfPart
  <2>6. SumFunctionOnSet(u, Live(c)) = SumFunctionOnSet(NetOf(c), Live(c))
    BY <2>1, <2>3, <1>7, SumSame
  <2> QED
    BY <2>5, <2>6, <1>7
<1> HIDE DEF u, m, k, part
<1> DEFINE a == SumFunctionOnSet(n, S)
           e == SumFunctionOnSet(o, S)
           g == SumFunctionOnSet(m, S)
           h == SumFunctionOnSet(k, S)
<1>13. /\ SumFunctionOnSet(u, S) = g + 1 * h /\ g = a + (0 - 1) * e
       /\ a \in Int /\ e \in Int /\ g \in Int /\ h \in Int
  <2>1. 1 \in Int /\ 0 - 1 \in Int
    OBVIOUS
  <2>2. SumFunctionOnSet(u, S) = SumFunctionOnSet(m, S) + 1 * SumFunctionOnSet(k, S)
    BY <2>1, <1>2, <1>10, SumCombined
  <2>3. SumFunctionOnSet(m, S) = SumFunctionOnSet(n, S) + (0 - 1) * SumFunctionOnSet(o, S)
    BY <2>1, <1>2, <1>7, <1>10, SumCombined
  <2>4. a \in Int /\ e \in Int /\ g \in Int /\ h \in Int
    BY <1>2, <1>7, <1>10, SumOfInts
  <2> QED
    BY <2>2, <2>3, <2>4
<1>14. Charged(c) = SumFunctionOnSet(u, S) /\ Charged(book) = a /\ OwedFrom(book, effective) = e
       /\ Unearned(effective) = h
  BY <1>7, <1>11, <1>12
<1> HIDE DEF a, e, g, h
<1>15. Charged(c) = Charged(book) - OwedFrom(book, effective) + Unearned(effective)
  BY <1>13, <1>14
<1> QED
  BY <1>1, <1>13, <1>14, <1>15 DEF c

-----------------------------------------------------------------------------
(* The versions: what is agreed. *)

ClosuresOf(vs) == {v \in DOMAIN vs : vs[v].cause = "cancel"}
UpTo(vs, day) == {v \in DOMAIN vs \ ClosuresOf(vs) : vs[v].from <= day}
PriceOn(vs, day) ==
  IF \E v \in ClosuresOf(vs) : vs[v].from <= day THEN 0 ELSE vs[Max(UpTo(vs, day))].price
OrderlyIn(vs) ==
  \A v, w \in DOMAIN vs \ ClosuresOf(vs) :
    v < w => /\ vs[v].from <= vs[w].from \/ vs[w].cause = "move"
             /\ vs[w].cause = "move" => vs[v].cause \in {"create", "move"}
Starts(vs) == {v \in DOMAIN vs : vs[v].cause \in {"create", "move"}}
FirstDayOf(vs) == vs[Max(Starts(vs))].from
LastOf(vs) == vs[Len(vs)]
AgreedSum(vs, lo, hi) == SumFunction([e \in lo .. hi - 1 |-> PriceOn(vs, e)])

\* Versions in the order they took effect, with none that closes.
History(vs) ==
  /\ vs \in Seq(SubVersions) /\ vs # << >> /\ vs[1].cause = "create"
  /\ ClosuresOf(vs) = {} /\ OrderlyIn(vs)

\* The greatest of a set of numbers.
LEMMA GreatestOf ==
  ASSUME NEW S \in SUBSET Int, IsFiniteSet(S), NEW x \in S, \A y \in S : y <= x
  PROVE  Max(S) = x
<1>1. S # {}
  OBVIOUS
<1> DEFINE m == Max(S)
<1>2. m \in S /\ \A y \in S : y <= m
  BY <1>1, MaxAndMin
<1> HIDE DEF m
<1>3. m = x
  BY <1>2
<1> QED
  BY <1>3 DEF m

\* The versions and their numbers.
LEMMA VersionRows ==
  ASSUME NEW vs \in Seq(SubVersions)
  PROVE  /\ Len(vs) \in Nat /\ DOMAIN vs = 1 .. Len(vs) /\ (vs # << >> => 1 \in DOMAIN vs /\ Len(vs) \in DOMAIN vs)
         /\ \A v \in DOMAIN vs : /\ vs[v] \in SubVersions /\ vs[v].from \in Nat /\ vs[v].price \in Nat
                                 /\ vs[v].cause \in {"create", "move", "change", "cancel", "renew"}
         /\ \A S \in SUBSET DOMAIN vs : S \in SUBSET Int /\ IsFiniteSet(S)
<1>1. Len(vs) \in Nat /\ DOMAIN vs = 1 .. Len(vs)
  BY LenProperties
<1>2. \A v \in DOMAIN vs : vs[v] \in SubVersions
  BY <1>1, ElementOfSeq
<1>3. \A n \in Nat : IsFiniteSet(1 .. n)
  BY FS_Interval
<1>4. IsFiniteSet(DOMAIN vs)
  BY <1>1, <1>3
<1>5. \A S \in SUBSET DOMAIN vs : S \in SUBSET Int /\ IsFiniteSet(S)
  BY <1>1, <1>4, FS_Subset
<1>6. vs # << >> => Len(vs) # 0
  BY EmptySeq
<1>7. vs # << >> => 1 \in DOMAIN vs /\ Len(vs) \in DOMAIN vs
  BY <1>1, <1>6
<1> QED
  BY <1>1, <1>2, <1>5, <1>7 DEF SubVersions

\* From the first day on there is a price, and from the last version on it is the last one's.
LEMMA PricesOf ==
  ASSUME NEW vs, History(vs)
  PROVE  /\ FirstDayOf(vs) \in Nat /\ LastOf(vs).from \in Nat /\ LastOf(vs).price \in Nat
         /\ FirstDayOf(vs) <= LastOf(vs).from
         /\ \A e \in Int : FirstDayOf(vs) <= e => PriceOn(vs, e) \in Nat /\ UpTo(vs, e) # {}
         /\ \A e \in Int : LastOf(vs).from <= e => PriceOn(vs, e) = LastOf(vs).price
<1> DEFINE f == Max(Starts(vs))
           n == Len(vs)
<1>1. /\ n \in Nat /\ DOMAIN vs = 1 .. n /\ 1 \in DOMAIN vs /\ n \in DOMAIN vs
      /\ \A v \in DOMAIN vs : vs[v].from \in Nat /\ vs[v].price \in Nat
      /\ \A S \in SUBSET DOMAIN vs : S \in SUBSET Int /\ IsFiniteSet(S)
  BY VersionRows DEF History
<1>2. f \in Starts(vs) /\ \A v \in Starts(vs) : v <= f
  <2>1. Starts(vs) \in SUBSET DOMAIN vs /\ 1 \in Starts(vs)
    BY <1>1 DEF Starts, History
  <2> QED
    BY <1>1, <2>1, MaxAndMin
<1>3. f \in DOMAIN vs /\ FirstDayOf(vs) = vs[f].from
  BY <1>2 DEF FirstDayOf, Starts
<1> HIDE DEF f, n
<1>4. vs[f].from <= vs[n].from
  <2>1. CASE f = n
    BY <1>1, <2>1
  <2>2. CASE f # n
    <3>1. f < n /\ n \notin Starts(vs)
      BY <2>2, <1>1, <1>2, <1>3
    <3>2. vs[n].cause # "move"
      BY <3>1, <1>1 DEF Starts
    <3> QED
      BY <3>1, <3>2, <1>1, <1>3 DEF History, OrderlyIn
  <2> QED
    BY <2>1, <2>2
<1>5. ASSUME NEW e \in Int
      PROVE  /\ PriceOn(vs, e) = vs[Max(UpTo(vs, e))].price
             /\ UpTo(vs, e) = {v \in DOMAIN vs : vs[v].from <= e}
             /\ UpTo(vs, e) \in SUBSET Int /\ IsFiniteSet(UpTo(vs, e))
  <2>1. UpTo(vs, e) = {v \in DOMAIN vs : vs[v].from <= e}
    BY DEF UpTo, History
  <2> QED
    BY <2>1, <1>1 DEF PriceOn, History
<1>6. ASSUME NEW e \in Int, FirstDayOf(vs) <= e PROVE PriceOn(vs, e) \in Nat /\ UpTo(vs, e) # {}
  <2>1. f \in UpTo(vs, e)
    BY <1>3, <1>5, <1>6
  <2>2. Max(UpTo(vs, e)) \in UpTo(vs, e)
    BY <2>1, <1>5, MaxAndMin
  <2>3. Max(UpTo(vs, e)) \in DOMAIN vs
    BY <2>2, <1>5
  <2> QED
    BY <2>1, <2>3, <1>1, <1>5
<1>7. ASSUME NEW e \in Int, vs[n].from <= e PROVE PriceOn(vs, e) = vs[n].price
  <2>1. n \in UpTo(vs, e) /\ \A v \in UpTo(vs, e) : v <= n
    BY <1>1, <1>5, <1>7
  <2>2. Max(UpTo(vs, e)) = n
    BY <2>1, <1>5, GreatestOf
  <2> QED
    BY <2>2, <1>5
<1> QED
  BY <1>1, <1>3, <1>4, <1>6, <1>7 DEF LastOf, n

\* One version more.
LEMMA AppendedVersion ==
  ASSUME NEW vs \in Seq(SubVersions), NEW v \in SubVersions
  PROVE  LET ws == Append(vs, v)
             n == Len(vs)
         IN  /\ ws \in Seq(SubVersions) /\ ws # << >> /\ Len(ws) = n + 1 /\ n \in Nat
             /\ DOMAIN vs = 1 .. n /\ DOMAIN ws = DOMAIN vs \cup {n + 1} /\ n + 1 \notin DOMAIN vs
             /\ \A i \in DOMAIN vs : ws[i] = vs[i] /\ i < n + 1 /\ i \in Nat
             /\ ws[n + 1] = v /\ LastOf(ws) = v
             /\ ClosuresOf(ws) = ClosuresOf(vs) \cup {i \in {n + 1} : v.cause = "cancel"}
             /\ OrderlyIn(ws) => OrderlyIn(vs)
<1> DEFINE ws == Append(vs, v)
           n == Len(vs)
<1>1. n \in Nat /\ DOMAIN vs = 1 .. n
  BY VersionRows
<1>2. ws \in Seq(SubVersions) /\ ws # << >> /\ Len(ws) = n + 1 /\ DOMAIN ws = 1 .. n + 1
  BY AppendProperties, LenProperties
<1>3. ws[n + 1] = v /\ \A i \in DOMAIN vs : ws[i] = vs[i]
  BY <1>1, AppendProperties
<1> HIDE DEF ws, n
<1>4. DOMAIN ws = DOMAIN vs \cup {n + 1} /\ n + 1 \notin DOMAIN vs /\ \A i \in DOMAIN vs : i < n + 1 /\ i \in Nat
  BY <1>1, <1>2
<1>5. LastOf(ws) = v
  BY <1>2, <1>3 DEF LastOf
<1>6. ClosuresOf(ws) = ClosuresOf(vs) \cup {i \in {n + 1} : v.cause = "cancel"}
  BY <1>3, <1>4 DEF ClosuresOf
<1>7. ASSUME OrderlyIn(ws) PROVE OrderlyIn(vs)
  <2>1. \A i \in DOMAIN vs \ ClosuresOf(vs) : i \in DOMAIN ws \ ClosuresOf(ws) /\ ws[i] = vs[i]
    BY <1>3, <1>4, <1>6
  <2> QED
    BY <2>1, <1>7 DEF OrderlyIn
<1> QED
  BY <1>1, <1>2, <1>3, <1>4, <1>5, <1>6, <1>7 DEF ws, n

\* One that does not close: it is in effect from its day on.
LEMMA NextVersion ==
  ASSUME NEW vs, History(vs), NEW v \in SubVersions, v.cause \in {"move", "change", "renew"},
         OrderlyIn(Append(vs, v))
  PROVE  LET ws == Append(vs, v)
         IN  /\ History(ws) /\ LastOf(ws) = v
             /\ v.cause = "move" => /\ FirstDayOf(ws) = v.from
                                    /\ \A i \in DOMAIN vs : vs[i].cause \in {"create", "move"}
             /\ v.cause # "move" => FirstDayOf(ws) = FirstDayOf(vs) /\ LastOf(vs).from <= v.from
             /\ \A e \in Int : v.from <= e => PriceOn(ws, e) = v.price
             /\ \A e \in Int : e < v.from /\ FirstDayOf(vs) <= e => PriceOn(ws, e) = PriceOn(vs, e)
<1> DEFINE ws == Append(vs, v)
           n == Len(vs)
<1>1. /\ vs \in Seq(SubVersions) /\ vs # << >> /\ vs[1].cause = "create" /\ ClosuresOf(vs) = {}
      /\ 1 \in DOMAIN vs /\ n \in DOMAIN vs
      /\ v.from \in Nat /\ v.price \in Nat
  BY VersionRows DEF History, SubVersions
<1>2. /\ ws \in Seq(SubVersions) /\ ws # << >> /\ Len(ws) = n + 1 /\ n \in Nat
      /\ DOMAIN vs = 1 .. n /\ DOMAIN ws = DOMAIN vs \cup {n + 1} /\ n + 1 \notin DOMAIN vs
      /\ \A i \in DOMAIN vs : ws[i] = vs[i] /\ i < n + 1 /\ i \in Nat
      /\ ws[n + 1] = v /\ LastOf(ws) = v
      /\ ClosuresOf(ws) = ClosuresOf(vs) \cup {i \in {n + 1} : v.cause = "cancel"}
  BY <1>1, AppendedVersion
<1>3. /\ \A S \in SUBSET DOMAIN ws : S \in SUBSET Int /\ IsFiniteSet(S)
      /\ \A S \in SUBSET DOMAIN vs : S \in SUBSET Int /\ IsFiniteSet(S)
  BY <1>1, <1>2, VersionRows
<1>4. OrderlyIn(ws)
  OBVIOUS
<1> HIDE DEF ws, n
<1>5. ClosuresOf(ws) = {}
  BY <1>1, <1>2
<1>6. History(ws)
  BY <1>1, <1>2, <1>4, <1>5 DEF History
<1>7. /\ v.cause = "move" => \A i \in DOMAIN vs : vs[i].cause \in {"create", "move"}
      /\ v.cause # "move" => \A i \in DOMAIN vs : vs[i].from <= v.from
  BY <1>2, <1>4, <1>5 DEF OrderlyIn
<1>8. Starts(ws) = IF v.cause = "move" THEN Starts(vs) \cup {n + 1} ELSE Starts(vs)
  BY <1>2 DEF Starts
<1>9. ASSUME v.cause = "move" PROVE FirstDayOf(ws) = v.from
  <2>1. n + 1 \in Starts(ws) /\ Starts(ws) \in SUBSET DOMAIN ws
    BY <1>8, <1>9 DEF Starts
  <2>2. \A i \in Starts(ws) : i <= n + 1
    BY <2>1, <1>2
  <2>3. Max(Starts(ws)) = n + 1
    BY <2>1, <2>2, <1>3, GreatestOf
  <2> QED
    BY <2>3, <1>2 DEF FirstDayOf
<1>10. ASSUME v.cause # "move" PROVE FirstDayOf(ws) = FirstDayOf(vs) /\ LastOf(vs).from <= v.from
  <2>1. Starts(ws) = Starts(vs) /\ Starts(vs) \in SUBSET DOMAIN vs /\ 1 \in Starts(vs)
    BY <1>1, <1>8, <1>10 DEF Starts
  <2>2. Max(Starts(vs)) \in DOMAIN vs
    BY <2>1, <1>3, MaxAndMin
  <2>3. FirstDayOf(ws) = FirstDayOf(vs)
    BY <2>1, <2>2, <1>2 DEF FirstDayOf
  <2> QED
    BY <2>3, <1>1, <1>7, <1>10 DEF LastOf, n
<1>11. ASSUME NEW e \in Int, v.from <= e PROVE PriceOn(ws, e) = v.price
  BY <1>2, <1>6, <1>11, PricesOf
<1>12. ASSUME NEW e \in Int, e < v.from, FirstDayOf(vs) <= e PROVE PriceOn(ws, e) = PriceOn(vs, e)
  <2>1. UpTo(ws, e) = UpTo(vs, e)
    BY <1>1, <1>2, <1>5, <1>12 DEF UpTo
  <2>2. UpTo(vs, e) # {} /\ UpTo(vs, e) \in SUBSET DOMAIN vs
    BY <1>12, PricesOf DEF UpTo
  <2>3. Max(UpTo(vs, e)) \in DOMAIN vs
    BY <2>2, <1>3, MaxAndMin
  <2> QED
    BY <2>1, <2>3, <1>1, <1>2, <1>5 DEF PriceOn
<1> QED
  BY <1>2, <1>6, <1>7, <1>9, <1>10, <1>11, <1>12 DEF ws

\* One that closes: from its day on nothing is agreed.
LEMMA LastVersion ==
  ASSUME NEW vs, History(vs), NEW v \in SubVersions, v.cause = "cancel"
  PROVE  LET ws == Append(vs, v)
         IN  /\ FirstDayOf(ws) = FirstDayOf(vs)
             /\ \A e \in Int : v.from <= e => PriceOn(ws, e) = 0
             /\ \A e \in Int : e < v.from /\ FirstDayOf(vs) <= e => PriceOn(ws, e) = PriceOn(vs, e)
<1> DEFINE ws == Append(vs, v)
           n == Len(vs)
<1>1. /\ vs \in Seq(SubVersions) /\ vs # << >> /\ vs[1].cause = "create" /\ ClosuresOf(vs) = {}
      /\ 1 \in DOMAIN vs /\ v.from \in Nat
  BY VersionRows DEF History, SubVersions
<1>2. /\ DOMAIN ws = DOMAIN vs \cup {n + 1} /\ n + 1 \notin DOMAIN vs
      /\ \A i \in DOMAIN vs : ws[i] = vs[i]
      /\ ws[n + 1] = v
      /\ ClosuresOf(ws) = ClosuresOf(vs) \cup {i \in {n + 1} : v.cause = "cancel"}
  BY <1>1, AppendedVersion
<1>3. \A S \in SUBSET DOMAIN vs : S \in SUBSET Int /\ IsFiniteSet(S)
  BY <1>1, VersionRows
<1> HIDE DEF ws, n
<1>4. ClosuresOf(ws) = {n + 1}
  BY <1>1, <1>2
<1>5. FirstDayOf(ws) = FirstDayOf(vs)
  <2>1. Starts(ws) = Starts(vs) /\ Starts(vs) \in SUBSET DOMAIN vs /\ 1 \in Starts(vs)
    BY <1>1, <1>2 DEF Starts
  <2>2. Max(Starts(vs)) \in DOMAIN vs
    BY <2>1, <1>3, MaxAndMin
  <2> QED
    BY <2>1, <2>2, <1>2 DEF FirstDayOf
<1>6. ASSUME NEW e \in Int, v.from <= e PROVE PriceOn(ws, e) = 0
  BY <1>2, <1>4, <1>6 DEF PriceOn
<1>7. ASSUME NEW e \in Int, e < v.from, FirstDayOf(vs) <= e PROVE PriceOn(ws, e) = PriceOn(vs, e)
  <2>1. UpTo(ws, e) = UpTo(vs, e)
    BY <1>1, <1>2, <1>4 DEF UpTo
  <2>2. UpTo(vs, e) # {} /\ UpTo(vs, e) \in SUBSET DOMAIN vs
    BY <1>7, PricesOf DEF UpTo
  <2>3. Max(UpTo(vs, e)) \in DOMAIN vs
    BY <2>2, <1>3, MaxAndMin
  <2>4. ~ \E w \in ClosuresOf(ws) : ws[w].from <= e
    BY <1>1, <1>2, <1>4, <1>7
  <2> QED
    BY <2>1, <2>3, <2>4, <1>1, <1>2 DEF PriceOn
<1> QED
  BY <1>5, <1>6, <1>7 DEF ws

\* A price for the days from one on.
FromDay(w, lo, hi, d, k) == \A e \in lo .. hi - 1 : w[e] = IF e < d THEN 0 ELSE k

\* An amount per day from a day on: its sum.
LEMMA SumFromDay ==
  ASSUME NEW lo \in Int, NEW hi \in Int, NEW d \in Int, NEW k \in Int, NEW w, FromDay(w, lo, hi, d, k)
  PROVE  /\ IsFiniteSet(lo .. hi - 1) /\ Ints(w, lo .. hi - 1)
         /\ SumFunctionOnSet(w, lo .. hi - 1) = k * DaysLeft(lo, hi, d)
<1> DEFINE S == lo .. hi - 1
           m == Upper(lo, d)
           T == m .. hi - 1
<1>1. m \in Int /\ lo <= m /\ d <= m /\ (m = lo \/ m = d)
  BY DEF Upper
<1> HIDE DEF m
<1>2. IsFiniteSet(S)
  BY FS_Interval
<1>3. Ints(w, S)
  BY DEF Ints, FromDay
<1>4. T \in SUBSET S /\ \A e \in S \ T : w[e] = 0
  <2>1. T \in SUBSET S
    BY <1>1
  <2>2. ASSUME NEW e \in S \ T PROVE w[e] = 0
    <3>1. e < m /\ lo <= e
      BY <1>1
    <3> QED
      BY <3>1, <1>1 DEF FromDay
  <2> QED
    BY <2>1, <2>2
<1>5. EachIs(w, k, m .. hi - 1)
  BY <1>1 DEF FromDay, EachIs
<1>6. SumFunctionOnSet(w, T) = k * (IF m < hi THEN hi - m ELSE 0)
  BY <1>1, <1>5, SumOfDays
<1>7. SumFunctionOnSet(w, S) = SumFunctionOnSet(w, T)
  <2> HIDE DEF S, T
  <2> QED
    BY <1>2, <1>3, <1>4, SumOfPart
<1>8. DaysLeft(lo, hi, d) = IF m < hi THEN hi - m ELSE 0
  <2>1. DaysLeft(lo, hi, d) = Upper(0, hi - m)
    BY DEF DaysLeft, m
  <2> QED
    BY <1>1, <2>1 DEF Upper
<1> QED
  BY <1>2, <1>3, <1>6, <1>7, <1>8

\* What is agreed, day by day.
PricesBy(vs, lo, hi) == [e \in lo .. hi - 1 |-> PriceOn(vs, e)]

\* What is agreed is a sum over the days.
LEMMA AgreedDays ==
  ASSUME NEW vs, History(vs), NEW lo \in Int, NEW hi \in Int, FirstDayOf(vs) <= lo
  PROVE  /\ IsFiniteSet(lo .. hi - 1) /\ Ints(PricesBy(vs, lo, hi), lo .. hi - 1)
         /\ AgreedSum(vs, lo, hi) = SumFunctionOnSet(PricesBy(vs, lo, hi), lo .. hi - 1)
         /\ AgreedSum(vs, lo, hi) \in Int
<1> DEFINE S == lo .. hi - 1
           w == PricesBy(vs, lo, hi)
<1>1. IsFiniteSet(S)
  BY FS_Interval
<1>2. Ints(w, S)
  <2>1. ASSUME NEW e \in S PROVE w[e] \in Int
    <3>1. e \in Int /\ FirstDayOf(vs) <= e
      BY PricesOf
    <3> QED
      BY <3>1, PricesOf DEF PricesBy
  <2> QED
    BY <2>1 DEF Ints
<1>3. AgreedSum(vs, lo, hi) = SumFunctionOnSet(w, S)
  BY DEF AgreedSum, PricesBy, SumFunction
<1> HIDE DEF S, w
<1>4. SumFunctionOnSet(w, S) \in Int
  BY <1>1, <1>2, SumOfInts
<1> QED
  BY <1>1, <1>2, <1>3, <1>4 DEF S, w

\* A change of the price: the difference from its day on.
LEMMA AgreedChange ==
  ASSUME NEW vs, History(vs), NEW v \in SubVersions, v.cause = "change", OrderlyIn(Append(vs, v)),
         NEW lo \in Int, NEW hi \in Int, FirstDayOf(vs) <= lo
  PROVE  AgreedSum(Append(vs, v), lo, hi)
           = AgreedSum(vs, lo, hi) + (v.price - LastOf(vs).price) * DaysLeft(lo, hi, v.from)
<1> DEFINE ws == Append(vs, v)
           S == lo .. hi - 1
           k == v.price - LastOf(vs).price
           x == PricesBy(ws, lo, hi)
           y == PricesBy(vs, lo, hi)
           w == [e \in S |-> IF e < v.from THEN 0 ELSE 1]
<1>1. /\ History(ws) /\ FirstDayOf(ws) = FirstDayOf(vs) /\ LastOf(vs).from <= v.from
      /\ \A e \in Int : v.from <= e => PriceOn(ws, e) = v.price
      /\ \A e \in Int : e < v.from /\ FirstDayOf(vs) <= e => PriceOn(ws, e) = PriceOn(vs, e)
  BY NextVersion
<1>2. v.from \in Int /\ v.price \in Int /\ LastOf(vs).price \in Int /\ LastOf(vs).from \in Int /\ FirstDayOf(vs) \in Int
  BY PricesOf DEF SubVersions
<1> HIDE DEF ws
<1>3. /\ IsFiniteSet(S) /\ Ints(y, S)
      /\ AgreedSum(ws, lo, hi) = SumFunctionOnSet(x, S) /\ AgreedSum(vs, lo, hi) = SumFunctionOnSet(y, S)
  BY <1>1, AgreedDays
<1>4. FromDay(w, lo, hi, v.from, 1)
  BY DEF FromDay
<1>5. Ints(w, S) /\ SumFunctionOnSet(w, S) = 1 * DaysLeft(lo, hi, v.from)
  <2> HIDE DEF w
  <2> QED
    BY <1>2, <1>4, SumFromDay
<1>6. ASSUME NEW e \in S PROVE x[e] = y[e] + k * w[e]
  <2>1. e \in Int /\ FirstDayOf(vs) <= e /\ x[e] = PriceOn(ws, e) /\ y[e] = PriceOn(vs, e)
    BY <1>2 DEF PricesBy
  <2>2. PriceOn(vs, e) \in Int
    BY <2>1, PricesOf
  <2>3. CASE e < v.from
    <3>1. w[e] = 0 /\ x[e] = y[e] /\ y[e] \in Int
      BY <2>1, <2>2, <2>3, <1>1
    <3> QED
      BY <3>1, <1>2
  <2>4. CASE v.from <= e
    <3>1. w[e] = 1
      BY <2>1, <2>4, <1>2
    <3>2. x[e] = v.price
      BY <2>1, <2>4, <1>1
    <3>3. y[e] = LastOf(vs).price
      <4>1. LastOf(vs).from <= e
        BY <2>1, <2>4, <1>1, <1>2
      <4> QED
        BY <2>1, <4>1, PricesOf
    <3> HIDE DEF x, y, w
    <3> QED
      BY <3>1, <3>2, <3>3, <1>2
  <2> QED
    BY <2>1, <2>3, <2>4, <1>2
<1>7. Combined(x, y, k, w, S) /\ k \in Int
  BY <1>2, <1>6 DEF Combined
<1> HIDE DEF S, x, y, w, k
<1>8. SumFunctionOnSet(x, S) = SumFunctionOnSet(y, S) + k * SumFunctionOnSet(w, S)
  BY <1>3, <1>5, <1>7, SumCombined
<1>9. 1 * DaysLeft(lo, hi, v.from) = DaysLeft(lo, hi, v.from)
  BY <1>2 DEF DaysLeft, Upper
<1> QED
  BY <1>3, <1>5, <1>8, <1>9 DEF k, ws

\* A renewal: the days of the term at its price.
LEMMA AgreedRenewal ==
  ASSUME NEW vs, History(vs), NEW v \in SubVersions, v.cause = "renew", OrderlyIn(Append(vs, v)),
         NEW lo \in Int, NEW hi \in Int, FirstDayOf(vs) <= lo, v.from <= hi
  PROVE  AgreedSum(Append(vs, v), lo, hi)
           = AgreedSum(vs, lo, v.from) + v.price * DaysLeft(lo, hi, v.from)
<1> DEFINE ws == Append(vs, v)
           m == v.from
           S == lo .. hi - 1
           A == lo .. m - 1
           x == PricesBy(ws, lo, hi)
           y == PricesBy(vs, lo, m)
           z == [e \in S |-> IF e < m THEN 0 ELSE v.price]
           w == [e \in S |-> IF e < m THEN PriceOn(vs, e) ELSE 0]
<1>1. /\ History(ws) /\ FirstDayOf(ws) = FirstDayOf(vs)
      /\ \A e \in Int : m <= e => PriceOn(ws, e) = v.price
      /\ \A e \in Int : e < m /\ FirstDayOf(vs) <= e => PriceOn(ws, e) = PriceOn(vs, e)
  BY NextVersion
<1>2. m \in Int /\ v.price \in Int /\ FirstDayOf(vs) \in Int
  BY PricesOf DEF SubVersions
<1> HIDE DEF ws, m
<1>3. /\ IsFiniteSet(S) /\ IsFiniteSet(A) /\ Ints(y, A)
      /\ AgreedSum(ws, lo, hi) = SumFunctionOnSet(x, S) /\ AgreedSum(vs, lo, m) = SumFunctionOnSet(y, A)
  BY <1>1, <1>2, AgreedDays
<1>4. FromDay(z, lo, hi, m, v.price)
  BY DEF FromDay
<1>5. Ints(z, S) /\ SumFunctionOnSet(z, S) = v.price * DaysLeft(lo, hi, m)
  <2> HIDE DEF z
  <2> QED
    BY <1>2, <1>4, SumFromDay
<1>6. A \in SUBSET S /\ (\A e \in S \ A : w[e] = 0) /\ \A e \in A : w[e] = y[e]
  <2>1. m <= hi
    BY DEF m
  <2>2. A \in SUBSET S
    BY <2>1, <1>2
  <2>3. \A e \in S \ A : e \in Int /\ ~ (e < m)
    BY <1>2
  <2>4. \A e \in A : e \in Int /\ e < m
    BY <1>2
  <2> QED
    BY <2>2, <2>3, <2>4 DEF PricesBy
<1>7. ASSUME NEW e \in S PROVE x[e] = w[e] + 1 * z[e] /\ w[e] \in Int
  <2>1. e \in Int /\ FirstDayOf(vs) <= e /\ x[e] = PriceOn(ws, e)
    BY <1>2 DEF PricesBy
  <2>2. PriceOn(vs, e) \in Int
    BY <2>1, PricesOf
  <2>3. CASE e < m
    <3>1. w[e] = PriceOn(vs, e) /\ x[e] = PriceOn(vs, e) /\ z[e] = 0
      BY <2>1, <2>3, <1>1
    <3> QED
      BY <3>1, <2>2
  <2>4. CASE m <= e
    <3>1. ~ (e < m)
      BY <2>1, <2>4, <1>2
    <3>2. w[e] = 0 /\ x[e] = v.price /\ z[e] = v.price
      BY <2>1, <2>4, <3>1, <1>1
    <3> QED
      BY <3>2, <1>2
  <2> QED
    BY <2>1, <2>3, <2>4, <1>2
<1>8. Combined(x, w, 1, z, S) /\ Ints(w, S)
  BY <1>7 DEF Combined, Ints
<1> HIDE DEF S, A, x, y, w, z
<1>9. SumFunctionOnSet(x, S) = SumFunctionOnSet(w, S) + 1 * SumFunctionOnSet(z, S)
  BY <1>3, <1>5, <1>8, SumCombined
<1>10. SumFunctionOnSet(w, S) = SumFunctionOnSet(y, A)
  <2>1. SumFunctionOnSet(w, S) = SumFunctionOnSet(w, A)
    BY <1>3, <1>6, <1>8, SumOfPart
  <2>2. SumFunctionOnSet(w, A) = SumFunctionOnSet(y, A)
    BY <1>3, <1>6, SumSame
  <2> QED
    BY <2>1, <2>2
<1>11. SumFunctionOnSet(z, S) \in Int
  BY <1>3, <1>5, SumOfInts
<1> QED
  BY <1>3, <1>5, <1>9, <1>10, <1>11 DEF ws, m

\* One price for all days.
LEMMA AgreedOne ==
  ASSUME NEW vs, History(vs), NEW lo \in Int, NEW hi \in Int, LastOf(vs).from <= lo
  PROVE  AgreedSum(vs, lo, hi) = LastOf(vs).price * DaysLeft(lo, hi, lo)
<1> DEFINE w == PricesBy(vs, lo, hi)
           p == LastOf(vs).price
<1>1. p \in Int /\ LastOf(vs).from \in Int /\ FirstDayOf(vs) \in Int /\ FirstDayOf(vs) <= LastOf(vs).from
  BY PricesOf
<1>2. FirstDayOf(vs) <= lo
  BY <1>1
<1>3. AgreedSum(vs, lo, hi) = SumFunctionOnSet(w, lo .. hi - 1)
  BY <1>2, AgreedDays
<1>4. FromDay(w, lo, hi, lo, p)
  <2> SUFFICES ASSUME NEW e \in lo .. hi - 1 PROVE w[e] = p
    BY DEF FromDay
  <2>1. e \in Int /\ LastOf(vs).from <= e
    BY <1>1
  <2> QED
    BY <2>1, PricesOf DEF PricesBy
<1> HIDE DEF w, p
<1>5. SumFunctionOnSet(w, lo .. hi - 1) = p * DaysLeft(lo, hi, lo)
  BY <1>1, <1>4, SumFromDay
<1> QED
  BY <1>3, <1>5 DEF p

\* A closure: what was agreed but for the days from its own on.
LEMMA AgreedClosure ==
  ASSUME NEW vs, History(vs), NEW v \in SubVersions, v.cause = "cancel",
         NEW lo \in Int, NEW hi \in Int, FirstDayOf(vs) <= lo
  PROVE  AgreedSum(Append(vs, v), lo, hi) = AgreedSum(vs, lo, hi) - AgreedSum(vs, Upper(lo, v.from), hi)
<1> DEFINE ws == Append(vs, v)
           m == Upper(lo, v.from)
           S == lo .. hi - 1
           T == m .. hi - 1
           x == PricesBy(ws, lo, hi)
           y == PricesBy(vs, lo, hi)
           z == PricesBy(vs, m, hi)
           w == [e \in S |-> IF e < v.from THEN 0 ELSE PriceOn(vs, e)]
<1>1. /\ FirstDayOf(ws) = FirstDayOf(vs)
      /\ \A e \in Int : v.from <= e => PriceOn(ws, e) = 0
      /\ \A e \in Int : e < v.from /\ FirstDayOf(vs) <= e => PriceOn(ws, e) = PriceOn(vs, e)
  BY LastVersion
<1>2. v.from \in Int /\ FirstDayOf(vs) \in Int
  BY PricesOf DEF SubVersions
<1>3. m \in Int /\ lo <= m /\ v.from <= m /\ (m = lo \/ m = v.from)
  BY <1>2 DEF Upper
<1> HIDE DEF ws, m
<1>4. /\ IsFiniteSet(S) /\ IsFiniteSet(T) /\ Ints(y, S) /\ Ints(z, T)
      /\ AgreedSum(vs, lo, hi) = SumFunctionOnSet(y, S) /\ AgreedSum(vs, m, hi) = SumFunctionOnSet(z, T)
  <2>1. FirstDayOf(vs) <= m
    BY <1>2, <1>3
  <2> QED
    BY <2>1, <1>3, AgreedDays
<1>5. AgreedSum(ws, lo, hi) = SumFunctionOnSet(x, S)
  BY DEF AgreedSum, PricesBy, SumFunction
<1>6. T \in SUBSET S /\ (\A e \in S \ T : w[e] = 0) /\ \A e \in T : w[e] = z[e]
  <2>1. T \in SUBSET S
    BY <1>3
  <2>2. \A e \in S \ T : e \in Int /\ e < v.from
    BY <1>2, <1>3
  <2>3. \A e \in T : e \in Int /\ ~ (e < v.from)
    BY <1>2, <1>3
  <2> QED
    BY <2>1, <2>2, <2>3 DEF PricesBy
<1>7. ASSUME NEW e \in S PROVE x[e] = y[e] + (0 - 1) * w[e] /\ w[e] \in Int
  <2>1. e \in Int /\ FirstDayOf(vs) <= e /\ x[e] = PriceOn(ws, e) /\ y[e] = PriceOn(vs, e)
    BY <1>2 DEF PricesBy
  <2>2. PriceOn(vs, e) \in Int
    BY <2>1, PricesOf
  <2>3. CASE e < v.from
    <3>1. w[e] = 0 /\ x[e] = y[e]
      BY <2>1, <2>3, <1>1
    <3> DEFINE p == PriceOn(vs, e)
    <3>2. w[e] = 0 /\ x[e] = p /\ y[e] = p /\ p \in Int
      BY <3>1, <2>1, <2>2
    <3> HIDE DEF x, y, w, p
    <3> QED
      BY <3>2
  <2>4. CASE v.from <= e
    <3>1. ~ (e < v.from)
      BY <2>1, <2>4, <1>2
    <3>2. w[e] = PriceOn(vs, e) /\ x[e] = 0
      BY <2>1, <2>4, <3>1, <1>1
    <3> DEFINE p == PriceOn(vs, e)
    <3>3. w[e] = p /\ x[e] = 0 /\ y[e] = p /\ p \in Int
      BY <3>2, <2>1, <2>2
    <3> HIDE DEF x, y, w, p
    <3> QED
      BY <3>3
  <2> QED
    BY <2>1, <2>3, <2>4, <1>2
<1>8. Combined(x, y, 0 - 1, w, S) /\ Ints(w, S)
  BY <1>7 DEF Combined, Ints
<1> HIDE DEF S, T, x, y, w, z
<1>9. SumFunctionOnSet(x, S) = SumFunctionOnSet(y, S) + (0 - 1) * SumFunctionOnSet(w, S)
  <2>1. 0 - 1 \in Int
    OBVIOUS
  <2> QED
    BY <2>1, <1>4, <1>8, SumCombined
<1>10. SumFunctionOnSet(w, S) = SumFunctionOnSet(z, T)
  <2>1. SumFunctionOnSet(w, S) = SumFunctionOnSet(w, T)
    BY <1>4, <1>6, <1>8, SumOfPart
  <2>2. SumFunctionOnSet(w, T) = SumFunctionOnSet(z, T)
    BY <1>4, <1>6, SumSame
  <2> QED
    BY <2>1, <2>2
<1>11. SumFunctionOnSet(z, T) \in Int /\ SumFunctionOnSet(y, S) \in Int
  BY <1>4, SumOfInts
<1> DEFINE a == SumFunctionOnSet(y, S)
           b == SumFunctionOnSet(z, T)
<1>12. SumFunctionOnSet(x, S) = a + (0 - 1) * b /\ a \in Int /\ b \in Int
  BY <1>9, <1>10, <1>11
<1>13. AgreedSum(vs, lo, hi) = a /\ AgreedSum(vs, m, hi) = b
  BY <1>4
<1> HIDE DEF a, b
<1>14. SumFunctionOnSet(x, S) = a - b
  BY <1>12
<1> QED
  BY <1>5, <1>13, <1>14 DEF ws, m

-----------------------------------------------------------------------------
(* The balance: what is owed from a day on is what is agreed from it on. *)

Balanced(b, vs, hi, price) ==
  /\ History(vs) /\ LastOf(vs).price = price /\ FirstDayOf(vs) <= hi
  /\ InOrder(b) /\ Tiled(b, FirstDayOf(vs), hi) /\ Exact(b) /\ NotClosed(b)
  /\ PricedAhead(b, LastOf(vs).from, price)
  /\ Starts(vs) = DOMAIN vs => Zeros(b)
  /\ \A d \in Int : OwedFrom(b, d) = AgreedSum(vs, Upper(FirstDayOf(vs), d), hi)

\* In all it is what is agreed in all.
LEMMA BalancedTotal ==
  ASSUME NEW b, Consistent(b), NEW vs, NEW hi \in Int, NEW price, Balanced(b, vs, hi, price)
  PROVE  Charged(b) = AgreedSum(vs, FirstDayOf(vs), hi)
<1> DEFINE S == Live(b)
           f == FirstDayOf(vs)
           froms == [t \in S |-> b.txs[t].from]
           days == {froms[t] : t \in S}
<1>1. /\ b \in Books /\ IsFiniteSet(S) /\ f \in Int
      /\ \A t \in S : b.txs[t] \in Transaction /\ b.txs[t].from \in Int /\ IsExact(b.txs[t])
  BY LiveRows, PricesOf DEF Consistent, Balanced, Exact
<1>2. \E d \in Int : d <= f /\ \A t \in S : d <= b.txs[t].from
  <2>1. CASE S = {}
    BY <1>1, <2>1
  <2>2. CASE S # {}
    <3>1. days \in SUBSET Int /\ days # {} /\ \A t \in S : b.txs[t].from \in days
      BY <1>1, <2>2
    <3>2. IsFiniteSet(days)
      <4>1. froms = [t \in S |-> froms[t]]
        OBVIOUS
      <4> HIDE DEF froms, S
      <4> QED
        BY <1>1, <4>1, Values
    <3> HIDE DEF days, S, f
    <3>3. PICK x \in days : \A y \in days : x <= y
      BY <3>1, <3>2, Extremes
    <3>4. x \in Int
      BY <3>1
    <3>5. CASE x <= f
      BY <3>1, <3>3, <3>4, <3>5
    <3>6. CASE f <= x
      <4>1. \A t \in S : f <= b.txs[t].from
        BY <1>1, <3>1, <3>3, <3>4, <3>6
      <4> QED
        BY <1>1, <4>1
    <3> QED
      BY <1>1, <3>4, <3>5, <3>6
  <2> QED
    BY <2>1, <2>2
<1>3. PICK d \in Int : d <= f /\ \A t \in S : d <= b.txs[t].from
  BY <1>2
<1>4. \A t \in S : Owed(b.txs[t], d) = b.txs[t].net
  BY <1>1, <1>3, ExactAmounts
<1>5. OwedFrom(b, d) = Charged(b)
  BY <1>4 DEF OwedFrom, Charged
<1>6. Upper(f, d) = f
  BY <1>1, <1>3 DEF Upper
<1> QED
  BY <1>5, <1>6 DEF Balanced

\* Going onwards in order keeps it.
LEMMA BalancedOnwards ==
  ASSUME NEW b \in Books, NEW c, Onwards(b, c), InOrder(c), NEW vs, NEW hi, NEW price,
         Balanced(b, vs, hi, price)
  PROVE  Balanced(c, vs, hi, price)
<1>1. /\ \A d : OwedFrom(c, d) = OwedFrom(b, d)
      /\ \A l, h : Tiled(b, l, h) => Tiled(c, l, h)
      /\ Exact(b) => Exact(c)
      /\ NotClosed(b) => NotClosed(c)
      /\ Zeros(b) => Zeros(c)
      /\ \A day, p : PricedAhead(b, day, p) => PricedAhead(c, day, p)
  BY AmountsKept
<1> QED
  BY <1>1 DEF Balanced

\* Nor does a registration.
LEMMA BalancedRegistered ==
  ASSUME NEW b, Consistent(b), NEW way \in Modes, NEW vs, NEW hi, NEW price, Balanced(b, vs, hi, price)
  PROVE  Balanced(Register(b, way), vs, hi, price)
<1>1. /\ b \in Books /\ InOrder(b) /\ Onwards(b, Register(b, way)) /\ Registered(b, Register(b, way))
  BY RegisteredBook DEF Consistent, Balanced
<1>2. InOrder(Register(b, way))
  BY <1>1, OrderKept
<1> QED
  BY <1>1, <1>2, BalancedOnwards

\* One price from the first day on.
LEMMA AgreedFromStart ==
  ASSUME NEW vs, History(vs), LastOf(vs).from = FirstDayOf(vs), NEW hi \in Int, NEW d \in Int
  PROVE  AgreedSum(vs, Upper(FirstDayOf(vs), d), hi) = LastOf(vs).price * DaysLeft(FirstDayOf(vs), hi, d)
<1> DEFINE f == FirstDayOf(vs)
           m == Upper(f, d)
<1>1. f \in Int
  BY PricesOf
<1>2. m \in Int /\ f <= m /\ DaysLeft(m, hi, m) = DaysLeft(f, hi, d)
  BY <1>1 DEF DaysLeft, Upper
<1>3. LastOf(vs).from <= m
  BY <1>2
<1> HIDE DEF m
<1>4. AgreedSum(vs, m, hi) = LastOf(vs).price * DaysLeft(m, hi, m)
  BY <1>2, <1>3, AgreedOne
<1> QED
  BY <1>2, <1>4 DEF m

\* The first version is a history.
LEMMA FirstHistory ==
  ASSUME NEW v \in SubVersions, v.cause = "create"
  PROVE  /\ History(<< v >>) /\ FirstDayOf(<< v >>) = v.from /\ LastOf(<< v >>) = v
<1> DEFINE vs == << v >>
<1>1. vs \in Seq(SubVersions) /\ vs # << >> /\ Len(vs) = 1 /\ DOMAIN vs = {1} /\ vs[1] = v
  OBVIOUS
<1> HIDE DEF vs
<1>2. ClosuresOf(vs) = {} /\ Starts(vs) = {1}
  BY <1>1 DEF ClosuresOf, Starts
<1>3. OrderlyIn(vs)
  BY <1>1 DEF OrderlyIn
<1>4. Max({1}) = 1
  <2>1. IsFiniteSet({1})
    BY FS_Singleton
  <2>2. {1} \in SUBSET Int /\ 1 \in {1} /\ \A y \in {1} : y <= 1
    OBVIOUS
  <2> QED
    BY <2>1, <2>2, GreatestOf
<1>5. FirstDayOf(vs) = v.from
  BY <1>1, <1>2, <1>4 DEF FirstDayOf
<1> QED
  BY <1>1, <1>2, <1>3, <1>5 DEF History, LastOf, vs

\* confirm: the first term.
LEMMA BalancedStart ==
  ASSUME NEW b, Consistent(b), b.txs = << >>, NEW way \in Modes, NEW version \in Nat,
         NEW start \in Nat, NEW price \in Nat
  PROVE  Balanced(Scheduled(b, way, version, "NEW", start, start + Term, price),
                  << Version("create", start, price) >>, start + Term, price)
<1> DEFINE v == Version("create", start, price)
           vs == << v >>
           end == start + Term
           c == Scheduled(b, way, version, "NEW", start, end, price)
<1>1. v \in SubVersions /\ v.cause = "create" /\ v.from = start /\ v.price = price
  BY DEF Version, SubVersions
<1>2. start \in Int /\ end \in Int /\ start <= end /\ start <= start /\ price \in Int
  BY SubscriptionsAssumption
<1> HIDE DEF v, end, c
<1>3. History(vs) /\ FirstDayOf(vs) = start /\ LastOf(vs) = v
  BY <1>1, FirstHistory
<1> HIDE DEF vs
<1>4. b \in Books /\ Live(b) = {} /\ Terms(b) = {}
  BY DEF Consistent, Live, Terms
<1>5. Exact(b) /\ Zeros(b) /\ NotClosed(b)
  BY <1>4 DEF Exact, Zeros, NotClosed
<1>6. (\A d \in Int : OwedFrom(b, d) = 0) /\ Tiled(b, start, start) /\ TermsBooked(b)
  BY <1>2, <1>4, <1>5, NothingOwed
<1>7. TermFollows(b, c, start, start, end, price)
  BY <1>2, <1>5, <1>6, ScheduledAmounts DEF c
<1>8. ASSUME NEW d \in Int PROVE OwedFrom(c, d) = AgreedSum(vs, Upper(FirstDayOf(vs), d), end)
  <2>1. OwedFrom(c, d) = 0 + price * DaysLeft(start, end, d)
    BY <1>6, <1>7 DEF TermFollows
  <2>2. DaysLeft(start, end, d) \in Int
    BY <1>2 DEF DaysLeft, Upper
  <2>3. price * DaysLeft(start, end, d) \in Int
    BY <1>2, <2>2
  <2>4. AgreedSum(vs, Upper(FirstDayOf(vs), d), end) = price * DaysLeft(start, end, d)
    BY <1>1, <1>2, <1>3, AgreedFromStart
  <2> QED
    BY <2>1, <2>3, <2>4
<1>9. /\ InOrder(c) /\ Tiled(c, start, end) /\ Exact(c) /\ NotClosed(c) /\ Zeros(c)
      /\ PricedAhead(c, start, price)
  BY <1>5, <1>7 DEF TermFollows
<1>10. Balanced(c, vs, end, price)
  BY <1>1, <1>2, <1>3, <1>8, <1>9 DEF Balanced
<1> QED
  BY <1>10 DEF c, vs, v, end

\* A renewal: the next term, after one that is booked.
LEMMA BalancedRenewal ==
  ASSUME NEW b, Consistent(b), NEW vs, NEW hi \in Nat, NEW price, Balanced(b, vs, hi, price),
         BookedBefore(b, hi), NEW way \in Modes, NEW version \in Nat, NEW next \in Nat,
         OrderlyIn(Append(vs, Version("renew", hi, next)))
  PROVE  Balanced(Scheduled(b, way, version, "RENEW", hi, hi + Term, next),
                  Append(vs, Version("renew", hi, next)), hi + Term, next)
<1> DEFINE v == Version("renew", hi, next)
           ws == Append(vs, v)
           end == hi + Term
           f == FirstDayOf(vs)
           c == Scheduled(b, way, version, "RENEW", hi, end, next)
<1>1. v \in SubVersions /\ v.cause = "renew" /\ v.from = hi /\ v.price = next
  BY DEF Version, SubVersions
<1>2. /\ History(vs) /\ f \in Int /\ f <= hi /\ hi \in Int /\ end \in Int /\ hi <= end /\ next \in Int
      /\ b \in Books
  BY PricesOf, SubscriptionsAssumption DEF Balanced, Consistent
<1>3. OrderlyIn(ws)
  OBVIOUS
<1> HIDE DEF v, end, c
<1>4. History(ws) /\ LastOf(ws) = v /\ FirstDayOf(ws) = f
  BY <1>1, <1>2, <1>3, NextVersion
<1>5. TermsBooked(b)
  <2>1. \A t \in Terms(b) : /\ t \in Live(b) /\ b.txs[t].from \in Int /\ b.txs[t].to \in Int
                            /\ b.txs[t].from < b.txs[t].to /\ b.txs[t].to <= hi
    BY <1>2, LiveRows DEF Balanced, Tiled
  <2>2. \A t \in Terms(b) : b.txs[t].from < hi
    BY <1>2, <2>1
  <2> QED
    BY <2>1, <2>2 DEF BookedBefore, TermsBooked
<1>6. TermFollows(b, c, f, hi, end, next)
  <2>1. Tiled(b, f, hi) /\ Exact(b)
    BY DEF Balanced
  <2> HIDE DEF f
  <2> QED
    BY <1>2, <1>5, <2>1, ScheduledAmounts DEF c
<1>7. ASSUME NEW d \in Int PROVE OwedFrom(c, d) = AgreedSum(ws, Upper(FirstDayOf(ws), d), end)
  <2> DEFINE m == Upper(f, d)
  <2>1. m \in Int /\ f <= m /\ DaysLeft(m, end, hi) = DaysLeft(hi, end, d)
    BY <1>2 DEF DaysLeft, Upper
  <2>2. OwedFrom(c, d) = OwedFrom(b, d) + next * DaysLeft(hi, end, d)
    BY <1>6 DEF TermFollows
  <2>3. OwedFrom(b, d) = AgreedSum(vs, m, hi)
    BY DEF Balanced
  <2> HIDE DEF m, f
  <2>4. AgreedSum(ws, m, end) = AgreedSum(vs, m, hi) + next * DaysLeft(m, end, hi)
    <3>1. FirstDayOf(vs) <= m
      BY <2>1 DEF f
    <3> QED
      BY <1>1, <1>2, <1>3, <2>1, <3>1, AgreedRenewal
  <2> QED
    BY <1>4, <2>1, <2>2, <2>3, <2>4 DEF m
<1>8. /\ InOrder(c) /\ Tiled(c, f, end) /\ Exact(c) /\ NotClosed(c) /\ PricedAhead(c, hi, next)
  BY <1>6 DEF TermFollows, Balanced
<1>9. Starts(ws) # DOMAIN ws
  <2>1. Len(ws) \in DOMAIN ws /\ ws[Len(ws)].cause = "renew"
    BY <1>1, <1>4, VersionRows DEF History, LastOf
  <2> QED
    BY <2>1 DEF Starts
<1>10. FirstDayOf(ws) <= end
  BY <1>2, <1>4
<1> HIDE DEF ws
<1>11. Balanced(c, ws, end, next)
  BY <1>1, <1>4, <1>7, <1>8, <1>9, <1>10 DEF Balanced
<1> QED
  BY <1>11 DEF c, ws, v, end

-----------------------------------------------------------------------------
(* What a draft that is confirmed does to the balance. *)

\* A change of the start day: nothing is booked, and all of the new term is at one price.
LEMMA BalancedMove ==
  ASSUME SubInv, NEW hi \in Nat, NEW last, Balanced(book, versions, hi, last),
         NEW start \in Nat, NEW price \in Nat, NEW version \in Nat,
         \A t \in TermTxs : book.txs[t].state # "BOOKED",
         OrderlyIn(Append(versions, Version("move", start, price)))
  PROVE  Balanced(MovedBook(start, price, version), Append(versions, Version("move", start, price)),
                  start + Term, price)
<1> DEFINE v == Version("move", start, price)
           ws == Append(versions, v)
           end == start + Term
           c == MovedBook(start, price, version)
<1>1. v \in SubVersions /\ v.cause = "move" /\ v.from = start /\ v.price = price
  BY DEF Version, SubVersions
<1>2. /\ History(versions) /\ Exact(book) /\ NotClosed(book)
      /\ Starts(versions) = DOMAIN versions => Zeros(book)
  BY DEF Balanced
<1>3. OrderlyIn(ws)
  OBVIOUS
<1>4. end \in Int /\ start <= end /\ start \in Int
  BY SubscriptionsAssumption
<1> HIDE DEF v, end, c
<1>5. /\ History(ws) /\ LastOf(ws) = v /\ FirstDayOf(ws) = start
      /\ \A i \in DOMAIN versions : versions[i].cause \in {"create", "move"}
  BY <1>1, <1>2, <1>3, NextVersion
<1>6. Zeros(book)
  BY <1>2, <1>5 DEF Starts
<1>7. /\ InOrder(c) /\ Tiled(c, start, end) /\ Exact(c) /\ NotClosed(c) /\ Zeros(c)
      /\ \A day : PricedAhead(c, day, price)
      /\ \A d \in Int : OwedFrom(c, d) = price * DaysLeft(start, end, d)
  BY <1>2, <1>6, MovedAmounts DEF c, end
<1> HIDE DEF ws
<1>8. ASSUME NEW d \in Int PROVE OwedFrom(c, d) = AgreedSum(ws, Upper(FirstDayOf(ws), d), end)
  BY <1>1, <1>4, <1>5, <1>7, AgreedFromStart
<1>9. Balanced(c, ws, end, price)
  BY <1>1, <1>4, <1>5, <1>7, <1>8 DEF Balanced
<1> QED
  BY <1>9 DEF c, ws, v, end

\* A change of the price.
LEMMA BalancedChange ==
  ASSUME SubInv, sub \in SubHeads, NEW hi \in Nat, Balanced(book, versions, hi, sub.price),
         NEW effective \in Nat, NEW price \in Nat, NEW version \in Nat,
         OrderlyIn(Append(versions, Version("change", effective, price)))
  PROVE  Balanced(ChangedBook(effective, price, version),
                  Append(versions, Version("change", effective, price)), hi, price)
<1> DEFINE v == Version("change", effective, price)
           ws == Append(versions, v)
           f == FirstDayOf(versions)
           last == LastOf(versions).from
           k == price - sub.price
           c == ChangedBook(effective, price, version)
<1>1. v \in SubVersions /\ v.cause = "change" /\ v.from = effective /\ v.price = price
  BY DEF Version, SubVersions
<1>2. /\ History(versions) /\ LastOf(versions).price = sub.price /\ f <= hi
      /\ InOrder(book) /\ Tiled(book, f, hi) /\ Exact(book) /\ NotClosed(book)
      /\ PricedAhead(book, last, sub.price)
      /\ \A d \in Int : OwedFrom(book, d) = AgreedSum(versions, Upper(f, d), hi)
  BY DEF Balanced
<1>3. OrderlyIn(ws)
  OBVIOUS
<1>4. f \in Int /\ last \in Int /\ f <= last /\ hi \in Int
  BY <1>2, PricesOf
<1> HIDE DEF v, c, f, last
<1>5. /\ History(ws) /\ LastOf(ws) = v /\ FirstDayOf(ws) = f /\ last <= effective
  BY <1>1, <1>2, <1>3, NextVersion DEF f, last
<1>6. /\ Exact(c) /\ InOrder(c) /\ Tiled(c, f, hi) /\ NotClosed(c)
      /\ PricedAhead(c, effective, price)
      /\ \A d \in Int : OwedFrom(c, d) = OwedFrom(book, d) + k * DaysLeft(f, hi, Upper(d, effective))
  BY <1>2, <1>4, <1>5, ChangedAmounts DEF c
<1>7. ASSUME NEW d \in Int PROVE OwedFrom(c, d) = AgreedSum(ws, Upper(FirstDayOf(ws), d), hi)
  <2> DEFINE m == Upper(f, d)
  <2>1. m \in Int /\ f <= m /\ DaysLeft(m, hi, effective) = DaysLeft(f, hi, Upper(d, effective))
    BY <1>4 DEF DaysLeft, Upper
  <2>2. OwedFrom(c, d) = AgreedSum(versions, m, hi) + k * DaysLeft(m, hi, effective)
    BY <1>2, <1>6, <2>1
  <2> HIDE DEF m
  <2>3. FirstDayOf(versions) <= m
    BY <2>1 DEF f
  <2>4. AgreedSum(ws, m, hi) = AgreedSum(versions, m, hi) + (v.price - LastOf(versions).price) * DaysLeft(m, hi, v.from)
    BY <1>1, <1>2, <1>3, <1>4, <2>1, <2>3, AgreedChange
  <2> QED
    BY <1>1, <1>2, <1>5, <2>2, <2>4 DEF m
<1>8. Starts(ws) # DOMAIN ws
  <2>1. Len(ws) \in DOMAIN ws /\ ws[Len(ws)].cause = "change"
    BY <1>1, <1>5, VersionRows DEF History, LastOf
  <2> QED
    BY <2>1 DEF Starts
<1> HIDE DEF ws
<1>9. Balanced(c, ws, hi, price)
  BY <1>1, <1>2, <1>5, <1>6, <1>7, <1>8 DEF Balanced
<1> QED
  BY <1>9 DEF c, ws, v

\* A closure: what was owed from its day on is taken off, clipped, voided or credited.
LEMMA ClosureTotal ==
  ASSUME SubInv, NEW hi \in Nat, NEW price, Balanced(book, versions, hi, price),
         NEW effective \in Nat, NEW version \in Nat, NEW until \in Int
  PROVE  LET c == Add(EndedBook(effective), version, "CANCEL", effective, until, - Unearned(effective))
             ws == Append(versions, Version("cancel", effective, 0))
         IN  Consistent(c) /\ Charged(c) = AgreedSum(ws, FirstDayOf(ws), hi)
<1> DEFINE v == Version("cancel", effective, 0)
           ws == Append(versions, v)
           f == FirstDayOf(versions)
           m == Upper(f, effective)
           net == - Unearned(effective)
           e == EndedBook(effective)
           c == Add(e, version, "CANCEL", effective, until, net)
<1>1. v \in SubVersions /\ v.cause = "cancel" /\ v.from = effective
  BY DEF Version, SubVersions
<1>2. /\ History(versions) /\ Exact(book) /\ NotClosed(book) /\ hi \in Int /\ effective \in Int
      /\ Consistent(book)
  BY DEF Balanced, SubInv
<1>3. f \in Int /\ f <= f
  BY <1>2, PricesOf
<1>4. /\ Consistent(e) /\ Charged(e) = Charged(book) - OwedFrom(book, effective) + Unearned(effective)
      /\ Charged(book) \in Int /\ OwedFrom(book, effective) \in Int /\ Unearned(effective) \in Int
  BY <1>2, EndedAmounts
<1>5. net \in Int
  BY <1>4
<1>6. Charged(book) = AgreedSum(versions, f, hi) /\ OwedFrom(book, effective) = AgreedSum(versions, m, hi)
  <2>1. Charged(book) = AgreedSum(versions, f, hi)
    BY <1>2, BalancedTotal
  <2> QED
    BY <1>2, <2>1 DEF Balanced
<1> HIDE DEF v, e
<1>7. FirstDayOf(ws) = f
  BY <1>1, <1>2, LastVersion
<1>8. AgreedSum(ws, f, hi) = AgreedSum(versions, f, hi) - AgreedSum(versions, Upper(f, v.from), hi)
  BY <1>1, <1>2, <1>3, AgreedClosure
<1> HIDE DEF ws, f, m
<1>9. Consistent(c) /\ Charged(c) = Charged(e) + net
  <2> HIDE DEF net
  <2>1. "CANCEL" \in {"CHANGE", "CANCEL"}
    OBVIOUS
  <2> QED
    BY <1>2, <1>4, <1>5, <2>1, OneMore
<1>10. AgreedSum(ws, FirstDayOf(ws), hi) = Charged(book) - OwedFrom(book, effective)
  BY <1>1, <1>6, <1>7, <1>8 DEF m
<1>11. Charged(c) = Charged(book) - OwedFrom(book, effective)
  BY <1>4, <1>9
<1>12. Consistent(c) /\ Charged(c) = AgreedSum(ws, FirstDayOf(ws), hi)
  BY <1>9, <1>10, <1>11
<1> QED
  BY <1>12 DEF c, e, ws, v

-----------------------------------------------------------------------------
(* Every step keeps it. *)

\* The head as it is where there is one.
LEMMA HeadThere ==
  ASSUME SubInv, sub.status # "none"
  PROVE  /\ sub \in SubHeads /\ sub.termEnd = sub.termStart + Term
         /\ sub.version \in Nat /\ sub.price \in Nat /\ sub.termStart \in Nat /\ sub.termEnd \in Nat
         /\ sub.customer \in Customers /\ sub.status \in SubStatuses /\ sub.prior \in SubStatuses
  BY DEF SubInv, HeadAgrees, SubHeads

LEMMA TypesOf ==
  ASSUME SubInv
  PROVE  /\ today \in Nat /\ mode \in Modes /\ switched \in BOOLEAN
         /\ versions \in Seq(SubVersions) /\ book \in Books
         /\ sub = [status |-> "none"] \/ sub \in SubHeads
         /\ draft = NoDraft \/ draft \in OpenDrafts
  BY DEF SubInv, SubTypeOK

\* Requests before the first schedule; the ledger is not touched.
LEMMA CreateStep ==
  ASSUME SubInv, NEW price \in Prices, NEW customer \in Customers, NEW start \in StartDays,
         Create(price, customer, start)
  PROVE  SubInv'
<1>1. price \in Nat /\ start \in Nat /\ Term \in Nat
  BY SubscriptionsAssumption
<1>2. /\ sub' = [status |-> "draft", prior |-> "draft", version |-> 1, price |-> price,
                 customer |-> customer, termStart |-> start, termEnd |-> start + Term]
      /\ versions' = << Version("create", start, price) >>
      /\ UNCHANGED << today, mode, draft, book, switched >> /\ sub.status = "none"
  BY DEF Create
<1>3. sub' \in SubHeads /\ sub'.termEnd = sub'.termStart + Term /\ sub'.status = "draft"
  BY <1>1, <1>2 DEF SubHeads, SubStatuses
<1>4. versions' \in Seq(SubVersions)
  <2>1. Version("create", start, price) \in SubVersions
    BY <1>1 DEF Version, SubVersions
  <2> QED
    BY <1>2, <2>1
<1>5. ~ draft.open
  BY <1>2 DEF SubInv, HeadAgrees
<1>6. SubTypeOK'
  BY <1>2, <1>3, <1>4 DEF SubInv, SubTypeOK
<1>7. HeadAgrees'
  BY <1>2, <1>3, <1>5 DEF HeadAgrees
<1> QED
  BY <1>2, <1>6, <1>7 DEF SubInv

LEMMA EditStep ==
  ASSUME SubInv, NEW price \in Prices, NEW start \in StartDays, Edit(price, start)
  PROVE  SubInv'
<1>1. price \in Nat /\ start \in Nat /\ Term \in Nat
  BY SubscriptionsAssumption
<1>2. /\ sub' = [sub EXCEPT !.price = price, !.termStart = start, !.termEnd = start + Term]
      /\ versions' = << Version("create", start, price) >>
      /\ UNCHANGED << today, mode, draft, book, switched >> /\ sub.status = "draft"
  BY DEF Edit
<1>3. sub' \in SubHeads /\ sub'.termEnd = sub'.termStart + Term /\ sub'.status = "draft"
  <2> DEFINE end == start + Term
  <2>1. end \in Nat /\ sub \in SubHeads
    BY <1>1, <1>2, HeadThere
  <2>2. sub' = [sub EXCEPT !.price = price, !.termStart = start, !.termEnd = end]
    BY <1>2
  <2>3. sub'.termEnd = end /\ sub'.termStart = start /\ sub'.status = "draft"
    BY <1>2, <2>1 DEF SubHeads
  <2> HIDE DEF end
  <2>4. sub' \in SubHeads
    BY <1>1, <2>1, <2>2 DEF SubHeads
  <2> QED
    BY <2>3, <2>4 DEF end
<1>4. versions' \in Seq(SubVersions)
  <2>1. Version("create", start, price) \in SubVersions
    BY <1>1 DEF Version, SubVersions
  <2> QED
    BY <1>2, <2>1
<1>5. ~ draft.open
  BY <1>2 DEF SubInv, HeadAgrees
<1>6. SubTypeOK'
  BY <1>2, <1>3, <1>4 DEF SubInv, SubTypeOK
<1>7. HeadAgrees'
  BY <1>2, <1>3, <1>5 DEF HeadAgrees
<1> QED
  BY <1>2, <1>6, <1>7 DEF SubInv

LEMMA SubmitStep ==
  ASSUME SubInv, Submit
  PROVE  SubInv'
<1>1. /\ sub' = [sub EXCEPT !.status = "pending_payment"] /\ sub.status = "draft"
      /\ UNCHANGED << today, mode, draft, versions, book, switched >>
  BY DEF Submit
<1>2. sub' \in SubHeads /\ sub'.termEnd = sub'.termStart + Term /\ sub'.status = "pending_payment"
  BY <1>1, HeadThere DEF SubHeads, SubStatuses
<1>3. ~ draft.open
  BY <1>1 DEF SubInv, HeadAgrees
<1>4. SubTypeOK'
  BY <1>1, <1>2 DEF SubInv, SubTypeOK
<1>5. HeadAgrees'
  BY <1>1, <1>2, <1>3 DEF HeadAgrees
<1> QED
  BY <1>1, <1>4, <1>5 DEF SubInv

\* The first term is scheduled.
LEMMA ConfirmStep ==
  ASSUME SubInv, Confirm
  PROVE  SubInv'
<1>1. /\ sub' = [sub EXCEPT !.status = "active"] /\ sub.status \in {"draft", "pending_payment"}
      /\ book' = Scheduled(book, mode, 1, "NEW", sub.termStart, sub.termEnd, sub.price)
      /\ UNCHANGED << today, mode, draft, versions, switched >>
  BY DEF Confirm
<1>2. sub' \in SubHeads /\ sub'.termEnd = sub'.termStart + Term /\ sub'.status = "active"
  BY <1>1, HeadThere DEF SubHeads, SubStatuses
<1>3. ~ draft.open
  BY <1>1 DEF SubInv, HeadAgrees
<1>4. Consistent(book') /\ Chained(book', mode')
  <2>1. /\ sub.termStart \in Int /\ sub.termEnd \in Int /\ sub.termStart <= sub.termEnd
        /\ sub.price \in Int /\ mode \in Modes /\ Consistent(book)
    BY <1>1, HeadThere, TypesOf, BookRows, SubscriptionsAssumption
  <2>2. Consistent(book') /\ Chained(book', mode)
    BY <1>1, <2>1, ScheduledBook
  <2> QED
    BY <1>1, <2>2
<1>5. SubTypeOK'
  BY <1>1, <1>2, <1>4 DEF SubInv, SubTypeOK, Consistent
<1>6. HeadAgrees'
  BY <1>1, <1>2, <1>3 DEF HeadAgrees
<1> QED
  BY <1>1, <1>4, <1>5, <1>6 DEF SubInv

\* Drafts.
LEMMA OpenDraftStep ==
  ASSUME SubInv, NEW kind \in DraftKinds, NEW effective \in EffectiveDays,
         NEW changes \in ChangeSets \union {NoChange}, OpenDraft(kind, effective, changes)
  PROVE  SubInv'
<1>1. /\ draft' = [kind |-> kind, open |-> TRUE, effective |-> effective, changes |-> changes,
                   accepted |-> FALSE]
      /\ sub' = [sub EXCEPT !.prior = sub.status, !.status = "changing"]
      /\ sub.status \in {"active", "renewed"} /\ (kind = "renew" => Renewable)
      /\ UNCHANGED << today, mode, versions, book, switched >>
  BY DEF OpenDraft
<1>2. /\ sub' \in SubHeads /\ sub'.termEnd = sub'.termStart + Term /\ sub'.status = "changing"
      /\ sub'.termEnd = sub.termEnd
  BY <1>1, HeadThere DEF SubHeads, SubStatuses
<1>3. draft' \in OpenDrafts /\ draft'.kind = kind
  <2>1. changes \in NamedChanges
    BY SubscriptionsAssumption DEF NoChange, NamedChanges
  <2> QED
    BY <1>1, <2>1 DEF OpenDrafts
<1>4. kind = "renew" => BookedBefore(book', sub'.termEnd)
  BY <1>1, <1>2 DEF Renewable, BookedBefore
<1>5. SubTypeOK'
  BY <1>1, <1>2, <1>3 DEF SubInv, SubTypeOK
<1>6. HeadAgrees'
  BY <1>1, <1>2, <1>3, <1>4 DEF HeadAgrees
<1> QED
  BY <1>1, <1>5, <1>6 DEF SubInv

LEMMA PatchDraftStep ==
  ASSUME SubInv, NEW effective \in EffectiveDays, NEW changes \in ChangeSets \union {NoChange},
         PatchDraft(effective, changes)
  PROVE  SubInv'
<1> DEFINE merged == [f \in DOMAIN draft.changes |->
                        IF changes[f] = Keep THEN draft.changes[f] ELSE changes[f]]
<1>1. /\ draft.open /\ draft' = [draft EXCEPT !.effective = effective, !.changes = merged]
      /\ UNCHANGED << today, mode, sub, versions, book, switched >>
  BY DEF PatchDraft
<1>2. sub \in SubHeads /\ draft \in OpenDrafts
  BY <1>1, Written
<1>3. merged \in NamedChanges
  <2>1. changes \in NamedChanges /\ draft.changes \in NamedChanges
    BY <1>2, SubscriptionsAssumption DEF NoChange, NamedChanges, OpenDrafts
  <2> QED
    BY <2>1 DEF NamedChanges
<1> HIDE DEF merged
<1>4. draft' \in OpenDrafts /\ draft'.kind = draft.kind
  BY <1>1, <1>2, <1>3 DEF OpenDrafts
<1>5. SubTypeOK'
  BY <1>1, <1>4 DEF SubInv, SubTypeOK
<1>6. HeadAgrees'
  BY <1>1, <1>4 DEF SubInv, HeadAgrees
<1> QED
  BY <1>1, <1>5, <1>6 DEF SubInv

LEMMA AcceptStep ==
  ASSUME SubInv, AcceptOwnership
  PROVE  SubInv'
<1>1. /\ draft.open /\ draft' = [draft EXCEPT !.accepted = TRUE]
      /\ UNCHANGED << today, mode, sub, versions, book, switched >>
  BY DEF AcceptOwnership
<1>2. draft' \in OpenDrafts /\ draft'.kind = draft.kind
  BY <1>1, Written DEF OpenDrafts
<1>3. SubTypeOK'
  BY <1>1, <1>2 DEF SubInv, SubTypeOK
<1>4. HeadAgrees'
  BY <1>1, <1>2 DEF SubInv, HeadAgrees
<1> QED
  BY <1>1, <1>3, <1>4 DEF SubInv

LEMMA DiscardStep ==
  ASSUME SubInv, DiscardDraft
  PROVE  SubInv'
<1>1. /\ draft.open /\ draft' = NoDraft /\ sub' = [sub EXCEPT !.status = sub.prior]
      /\ UNCHANGED << today, mode, versions, book, switched >>
  BY DEF DiscardDraft
<1>2. sub' \in SubHeads /\ sub'.termEnd = sub'.termStart + Term
  BY <1>1, Written DEF SubHeads
<1>3. ~ draft'.open
  BY <1>1 DEF NoDraft
<1>4. SubTypeOK'
  BY <1>1, <1>2 DEF SubInv, SubTypeOK
<1>5. HeadAgrees'
  BY <1>1, <1>2, <1>3 DEF HeadAgrees
<1> QED
  BY <1>1, <1>4, <1>5 DEF SubInv

\* What a confirmed draft leaves: no draft, a head, one version more and a book registered again.
LEMMA DraftClosed ==
  ASSUME SubInv, NEW b, Consistent(b), book' = Register(b, mode), UNCHANGED << today, mode, switched >>,
         draft' = NoDraft, sub' \in SubHeads, sub'.termEnd = sub'.termStart + Term,
         NEW v \in SubVersions, versions' = Append(versions, v)
  PROVE  SubInv'
<1>1. mode \in Modes /\ versions \in Seq(SubVersions)
  BY TypesOf
<1>2. Consistent(book') /\ Chained(book', mode)
  BY <1>1, RegisteredBook
<1>3. ~ draft'.open
  BY DEF NoDraft
<1>4. versions' \in Seq(SubVersions)
  BY <1>1
<1>5. SubTypeOK'
  BY <1>2, <1>4 DEF SubInv, SubTypeOK, Consistent
<1>6. HeadAgrees'
  BY <1>3 DEF HeadAgrees
<1> QED
  BY <1>2, <1>5, <1>6 DEF SubInv

LEMMA ConfirmChangeStep ==
  ASSUME SubInv, ConfirmChange
  PROVE  SubInv'
<1> DEFINE moved == draft.changes.start # Keep
           effective == Or(draft.changes.start, draft.effective)
           price == Or(draft.changes.price, sub.price)
           version == sub.version + 1
           customer == Or(draft.changes.customer, sub.customer)
           changed == [sub EXCEPT !.status = sub.prior, !.version = version, !.price = price,
                                  !.customer = customer]
           b == IF moved THEN MovedBook(effective, price, version)
                ELSE ChangedBook(effective, price, version)
           v == Version(IF moved THEN "move" ELSE "change", effective, price)
<1>1. /\ draft.open /\ draft' = NoDraft /\ UNCHANGED << today, mode, switched >>
      /\ moved => \A t \in TermTxs : book.txs[t].state # "BOOKED"
      /\ sub' = IF moved THEN [changed EXCEPT !.termStart = effective, !.termEnd = effective + Term]
                ELSE changed
      /\ book' = Register(b, mode) /\ versions' = Append(versions, v)
  BY DEF ConfirmChange
<1>2. /\ sub \in SubHeads /\ effective \in Nat /\ price \in Nat /\ version \in Nat
      /\ customer \in Customers /\ sub.prior \in SubStatuses
      /\ sub.termEnd = sub.termStart + Term
  BY <1>1, Written DEF SubHeads
<1> HIDE DEF moved, effective, price, version, customer
<1>3. Consistent(b)
  BY <1>1, <1>2, MovedIsConsistent, ChangedIsConsistent
<1>4. v \in SubVersions
  BY <1>2 DEF Version, SubVersions
<1>5. changed \in SubHeads /\ changed.termEnd = changed.termStart + Term
  BY <1>2 DEF SubHeads
<1>6. sub' \in SubHeads /\ sub'.termEnd = sub'.termStart + Term
  <2> HIDE DEF changed
  <2> DEFINE end == effective + Term
  <2>1. end \in Nat
    BY <1>2, SubscriptionsAssumption
  <2>2. CASE moved
    <3>1. sub' = [changed EXCEPT !.termStart = effective, !.termEnd = end]
      BY <1>1, <2>2
    <3>2. sub'.termEnd = end /\ sub'.termStart = effective
      BY <3>1, <1>5 DEF SubHeads
    <3> HIDE DEF end
    <3>3. sub' \in SubHeads
      BY <1>2, <1>5, <2>1, <3>1 DEF SubHeads
    <3> QED
      BY <3>2, <3>3 DEF end
  <2> QED
    BY <1>1, <1>5, <2>2
<1> HIDE DEF b, v
<1> QED
  BY <1>1, <1>3, <1>4, <1>6, DraftClosed

LEMMA ConfirmCancelStep ==
  ASSUME SubInv, ConfirmCancel
  PROVE  SubInv'
<1> DEFINE effective == draft.effective
           credit == Unearned(effective)
           end == Upper(sub.termEnd, effective)
           version == sub.version + 1
           until == IF end = effective THEN effective + Period ELSE end
           b == Add(EndedBook(effective), version, "CANCEL", effective, until, - credit)
           v == Version("cancel", effective, 0)
<1>1. /\ draft.open /\ draft' = NoDraft /\ UNCHANGED << today, mode, switched >>
      /\ sub' = [sub EXCEPT !.status = "cancelled", !.version = version]
      /\ book' = Register(b, mode) /\ versions' = Append(versions, v)
  BY DEF ConfirmCancel
<1>2. /\ sub \in SubHeads /\ effective \in Nat /\ version \in Nat
      /\ sub.termEnd = sub.termStart + Term /\ sub.termEnd \in Int
  BY <1>1, Written DEF SubHeads
<1>3. until \in Int /\ effective \in Int
  BY <1>2, PeriodAssumption DEF Upper
<1>4. - credit \in Int
  BY <1>2, CreditIsInteger
<1> HIDE DEF effective, version, credit, until
<1>5. Consistent(b)
  BY <1>2, <1>3, <1>4, EndedIsConsistent, AddedOne
<1>6. v \in SubVersions
  BY <1>2 DEF Version, SubVersions
<1>7. sub' \in SubHeads /\ sub'.termEnd = sub'.termStart + Term
  BY <1>1, <1>2 DEF SubHeads, SubStatuses
<1> HIDE DEF b, v
<1> QED
  BY <1>1, <1>5, <1>6, <1>7, DraftClosed

\* A renewal, of the draft or by the job.
LEMMA RenewedStep ==
  ASSUME SubInv, sub.status # "none", Renewed, draft' = NoDraft, UNCHANGED << today, mode, switched >>
  PROVE  SubInv'
<1> DEFINE price == sub.price + IndexBy
           version == sub.version + 1
           end == sub.termEnd + Term
           v == Version("renew", sub.termEnd, price)
<1>1. /\ sub' = [sub EXCEPT !.status = "renewed", !.version = version, !.price = price,
                            !.termStart = sub.termEnd, !.termEnd = end]
      /\ book' = Scheduled(book, mode, version, "RENEW", sub.termEnd, end, price)
      /\ versions' = Append(versions, v)
  BY DEF Renewed
<1>2. /\ sub \in SubHeads /\ price \in Nat /\ version \in Nat /\ sub.termEnd \in Nat /\ end \in Nat
      /\ sub.termEnd <= end
  BY HeadThere, SubscriptionsAssumption
<1>3. sub'.termEnd = sub'.termStart + Term
  BY <1>1, <1>2 DEF SubHeads
<1>4. v \in SubVersions
  BY <1>2 DEF Version, SubVersions
<1> HIDE DEF price, version, end, v
<1>5. sub' \in SubHeads
  BY <1>1, <1>2 DEF SubHeads, SubStatuses
<1>6. Consistent(book') /\ Chained(book', mode')
  <2>1. mode \in Modes /\ Consistent(book) /\ sub.termEnd \in Int /\ end \in Int /\ price \in Int
    BY <1>2, TypesOf, BookRows
  <2>2. Consistent(book') /\ Chained(book', mode)
    BY <1>1, <1>2, <2>1, ScheduledBook
  <2> QED
    BY <2>2
<1>7. versions' \in Seq(SubVersions)
  BY <1>1, <1>4, TypesOf
<1>8. ~ draft'.open
  BY DEF NoDraft
<1>9. SubTypeOK'
  BY <1>5, <1>6, <1>7 DEF SubInv, SubTypeOK, Consistent
<1>10. HeadAgrees'
  BY <1>3, <1>5, <1>8 DEF HeadAgrees
<1> QED
  BY <1>6, <1>9, <1>10 DEF SubInv

\* The scheduler: the book goes onwards.
LEMMA ScheduleStep ==
  ASSUME SubInv, Consistent(book'), Onwards(book, book'), Chained(book, mode) => Chained(book', mode),
         UNCHANGED << today, mode, sub, draft, versions, switched >>
  PROVE  SubInv'
<1>1. SubTypeOK'
  BY DEF SubInv, SubTypeOK, Consistent
<1>2. HeadAgrees'
  BY StillBookedBefore DEF SubInv, HeadAgrees
<1> QED
  BY <1>1, <1>2 DEF SubInv

LEMMA RunDueStep ==
  ASSUME SubInv, NEW until \in EffectiveDays, RunDue(until)
  PROVE  SubInv'
<1>1. mode \in Modes /\ Consistent(book) /\ until \in Int
  BY TypesOf, BookRows, SubscriptionsAssumption
<1>2. /\ Consistent(book') /\ Onwards(book, book')
      /\ Chained(book, mode) => Chained(book', mode)
  BY <1>1, DueBook DEF RunDue
<1> QED
  BY <1>2, ScheduleStep DEF RunDue

LEMMA RunNextStep ==
  ASSUME SubInv, RunNext
  PROVE  SubInv'
<1>1. mode \in Modes /\ Consistent(book) /\ With(book, "SCHEDULED") # {}
  BY TypesOf, BookRows DEF RunNext
<1>2. /\ Consistent(book') /\ Onwards(book, book')
      /\ Chained(book, mode) => Chained(book', mode)
  BY <1>1, NextBook DEF RunNext
<1> QED
  BY <1>2, ScheduleStep DEF RunNext

\* The mode and the clock: a switch before the first transaction breaks no chain.
LEMMA SetModeStep ==
  ASSUME SubInv, NEW m \in Modes, SetMode(m)
  PROVE  SubInv'
<1>1. mode' = m /\ switched' = (book.txs # << >>) /\ UNCHANGED << today, sub, draft, versions, book >>
  BY DEF SetMode
<1>2. ~ switched' => Chained(book', mode')
  BY <1>1, NothingWaits
<1>3. SubTypeOK'
  BY <1>1 DEF SubInv, SubTypeOK
<1>4. HeadAgrees'
  BY <1>1 DEF SubInv, HeadAgrees
<1> QED
  BY <1>1, <1>2, <1>3, <1>4 DEF SubInv

LEMMA SetClockStep ==
  ASSUME SubInv, NEW day \in 0 .. MaxDay, SetClock(day)
  PROVE  SubInv'
<1>1. SubTypeOK'
  BY SubscriptionsAssumption DEF SetClock, SubInv, SubTypeOK
<1>2. HeadAgrees'
  BY DEF SetClock, SubInv, HeadAgrees
<1> QED
  BY <1>1, <1>2 DEF SetClock, SubInv

LEMMA SubStep == SubInv /\ [Next]_vars => SubInv'
<1> SUFFICES ASSUME SubInv, [Next]_vars PROVE SubInv'
  OBVIOUS
<1>1. CASE Start
  BY <1>1, CreateStep, EditStep, SubmitStep, ConfirmStep DEF Start
<1>2. CASE Drafting
  <2>1. CASE ConfirmRenew
    <3>1. sub.status # "none"
      BY <2>1 DEF ConfirmRenew, SubInv, HeadAgrees
    <3> QED
      BY <2>1, <3>1, RenewedStep DEF ConfirmRenew
  <2> QED
    BY <1>2, <2>1, OpenDraftStep, PatchDraftStep, AcceptStep, DiscardStep, ConfirmChangeStep,
       ConfirmCancelStep DEF Drafting
<1>3. CASE Scheduling
  <2>1. CASE RunRenewals
    BY <2>1, RenewedStep DEF RunRenewals
  <2> QED
    BY <1>3, <2>1, RunDueStep, RunNextStep, SetModeStep, SetClockStep DEF Scheduling
<1>4. CASE UNCHANGED vars
  BY <1>4 DEF vars, SubInv, SubTypeOK, HeadAgrees
<1> QED
  BY <1>1, <1>2, <1>3, <1>4 DEF Next

-----------------------------------------------------------------------------
(* Every step keeps the balance. *)

Unscheduled == {"none", "draft", "pending_payment"}
Running == {"active", "renewed", "changing"}

\* Before the first schedule there is nothing in the book and one version; from then on, until a
\* closure, the book is balanced; after it, it is in all.
DraftAgrees ==
  /\ sub.status \in Unscheduled => book.txs = << >>
  /\ sub.status \in Unscheduled \ {"none"} => versions = << Version("create", sub.termStart, sub.price) >>
  /\ draft.open => sub.prior \in {"active", "renewed"}
BalanceAgrees ==
  OrderlyIn(versions) =>
    /\ sub.status \in Running => Balanced(book, versions, sub.termEnd, sub.price)
    /\ sub.status = "cancelled" => Charged(book) = AgreedSum(versions, FirstDayOf(versions), sub.termEnd)
PriceInv == DraftAgrees /\ BalanceAgrees

\* Before the subscription is created there is nothing.
LEMMA PriceInit == Init => PriceInv
  BY DEF Init, EmptyBook, NoDraft, PriceInv, DraftAgrees, BalanceAgrees, Unscheduled, Running

\* Where the subscription is.
LEMMA StatusOf ==
  ASSUME SubInv
  PROVE  /\ sub.status \in Unscheduled \cup Running \cup {"cancelled"}
         /\ sub.status \in Running \cup {"cancelled"} => sub.status # "none"
         /\ sub.status \notin {"changing"} => ~ draft.open
  BY DEF SubInv, SubTypeOK, HeadAgrees, SubHeads, SubStatuses, Unscheduled, Running

\* Requests before the first schedule: the book is empty and there is one version.
LEMMA PriceCreate ==
  ASSUME SubInv, PriceInv, NEW price \in Prices, NEW customer \in Customers, NEW start \in StartDays,
         Create(price, customer, start)
  PROVE  PriceInv'
<1>1. /\ sub' = [status |-> "draft", prior |-> "draft", version |-> 1, price |-> price,
                 customer |-> customer, termStart |-> start, termEnd |-> start + Term]
      /\ versions' = << Version("create", start, price) >>
      /\ UNCHANGED << draft, book >> /\ sub.status = "none"
  BY DEF Create
<1>2. sub'.status = "draft" /\ sub'.termStart = start /\ sub'.price = price
  BY <1>1
<1>3. ~ draft.open /\ book.txs = << >>
  BY <1>1, StatusOf DEF PriceInv, DraftAgrees, Unscheduled
<1>4. DraftAgrees'
  BY <1>1, <1>2, <1>3 DEF DraftAgrees, Unscheduled
<1>5. BalanceAgrees'
  BY <1>2 DEF BalanceAgrees, Running
<1> QED
  BY <1>4, <1>5 DEF PriceInv

LEMMA PriceEdit ==
  ASSUME SubInv, PriceInv, NEW price \in Prices, NEW start \in StartDays, Edit(price, start)
  PROVE  PriceInv'
<1>1. /\ sub' = [sub EXCEPT !.price = price, !.termStart = start, !.termEnd = start + Term]
      /\ versions' = << Version("create", start, price) >>
      /\ UNCHANGED << draft, book >> /\ sub.status = "draft"
  BY DEF Edit
<1> DEFINE end == start + Term
<1>2. sub'.status = "draft" /\ sub'.termStart = start /\ sub'.price = price
  <2>1. sub \in SubHeads /\ sub' = [sub EXCEPT !.price = price, !.termStart = start, !.termEnd = end]
    BY <1>1, HeadThere
  <2> HIDE DEF end
  <2> QED
    BY <1>1, <2>1 DEF SubHeads
<1>3. ~ draft.open /\ book.txs = << >>
  BY <1>1, StatusOf DEF PriceInv, DraftAgrees, Unscheduled
<1>4. DraftAgrees'
  BY <1>1, <1>2, <1>3 DEF DraftAgrees, Unscheduled
<1>5. BalanceAgrees'
  BY <1>2 DEF BalanceAgrees, Running
<1> QED
  BY <1>4, <1>5 DEF PriceInv

LEMMA PriceSubmit ==
  ASSUME SubInv, PriceInv, Submit
  PROVE  PriceInv'
<1>1. /\ sub' = [sub EXCEPT !.status = "pending_payment"] /\ sub.status = "draft"
      /\ UNCHANGED << draft, versions, book >>
  BY DEF Submit
<1>2. /\ sub'.status = "pending_payment"
      /\ sub'.termStart = sub.termStart /\ sub'.price = sub.price
  BY <1>1, HeadThere DEF SubHeads
<1>3. /\ ~ draft.open /\ book.txs = << >>
      /\ versions = << Version("create", sub.termStart, sub.price) >>
  BY <1>1, StatusOf DEF PriceInv, DraftAgrees, Unscheduled
<1>4. DraftAgrees'
  BY <1>1, <1>2, <1>3 DEF DraftAgrees, Unscheduled
<1>5. BalanceAgrees'
  BY <1>2 DEF BalanceAgrees, Running
<1> QED
  BY <1>4, <1>5 DEF PriceInv

\* The first term is scheduled.
LEMMA PriceConfirm ==
  ASSUME SubInv, PriceInv, Confirm
  PROVE  PriceInv'
<1>1. /\ sub' = [sub EXCEPT !.status = "active"] /\ sub.status \in {"draft", "pending_payment"}
      /\ book' = Scheduled(book, mode, 1, "NEW", sub.termStart, sub.termEnd, sub.price)
      /\ UNCHANGED << draft, versions >>
  BY DEF Confirm
<1>2. /\ sub'.status = "active" /\ sub'.termEnd = sub.termEnd /\ sub'.price = sub.price
      /\ sub.termEnd = sub.termStart + Term /\ sub.termStart \in Nat /\ sub.price \in Nat
  BY <1>1, HeadThere DEF SubHeads
<1>3. /\ ~ draft.open /\ book.txs = << >>
      /\ versions = << Version("create", sub.termStart, sub.price) >>
      /\ Consistent(book) /\ mode \in Modes
  BY <1>1, StatusOf, BookRows, TypesOf DEF PriceInv, DraftAgrees, Unscheduled
<1>4. Balanced(book', versions', sub'.termEnd, sub'.price)
  BY <1>1, <1>2, <1>3, BalancedStart
<1>5. DraftAgrees'
  BY <1>1, <1>2, <1>3 DEF DraftAgrees, Unscheduled
<1>6. BalanceAgrees'
  BY <1>2, <1>4 DEF BalanceAgrees
<1> QED
  BY <1>5, <1>6 DEF PriceInv

\* A draft is opened, changed or discarded; the book and the versions are as they were.
LEMMA PriceStays ==
  ASSUME PriceInv, UNCHANGED << versions, book >>, sub.status \in Running, sub'.status \in Running,
         sub'.termEnd = sub.termEnd, sub'.price = sub.price,
         draft'.open => sub'.prior \in {"active", "renewed"}
  PROVE  PriceInv'
<1>1. DraftAgrees'
  BY DEF DraftAgrees, Unscheduled, Running
<1>2. BalanceAgrees'
  BY DEF PriceInv, BalanceAgrees, Running
<1> QED
  BY <1>1, <1>2 DEF PriceInv

\* The requests on a draft that write no version.
LEMMA PriceDrafting ==
  ASSUME SubInv, PriceInv,
         \/ \E kind, effective, changes : OpenDraft(kind, effective, changes)
         \/ \E effective, changes : PatchDraft(effective, changes)
         \/ AcceptOwnership
         \/ DiscardDraft
  PROVE  PriceInv'
<1>1. ASSUME NEW kind, NEW effective, NEW changes, OpenDraft(kind, effective, changes) PROVE PriceInv'
  <2>1. /\ sub' = [sub EXCEPT !.prior = sub.status, !.status = "changing"]
        /\ sub.status \in {"active", "renewed"} /\ UNCHANGED << versions, book >>
    BY <1>1 DEF OpenDraft
  <2>2. /\ sub'.status = "changing" /\ sub'.prior = sub.status
        /\ sub'.termEnd = sub.termEnd /\ sub'.price = sub.price
    BY <2>1, HeadThere DEF SubHeads
  <2> QED
    BY <2>1, <2>2, PriceStays DEF Running
<1>2. ASSUME \/ \E effective, changes : PatchDraft(effective, changes)
             \/ AcceptOwnership
      PROVE  PriceInv'
  <2>1. draft.open /\ UNCHANGED << sub, versions, book >>
    BY <1>2 DEF PatchDraft, AcceptOwnership
  <2>2. sub.status = "changing" /\ sub.prior \in {"active", "renewed"}
    BY <2>1, StatusOf DEF PriceInv, DraftAgrees
  <2> QED
    BY <2>1, <2>2, PriceStays DEF Running
<1>3. ASSUME DiscardDraft PROVE PriceInv'
  <2>1. draft.open /\ sub' = [sub EXCEPT !.status = sub.prior] /\ draft' = NoDraft /\ UNCHANGED << versions, book >>
    BY <1>3 DEF DiscardDraft
  <2>2. sub.status = "changing" /\ sub.prior \in {"active", "renewed"}
    BY <2>1, StatusOf DEF PriceInv, DraftAgrees
  <2>3. sub'.status = sub.prior /\ sub'.termEnd = sub.termEnd /\ sub'.price = sub.price
    BY <2>1, <2>2, HeadThere DEF SubHeads
  <2>4. ~ draft'.open
    BY <2>1 DEF NoDraft
  <2> QED
    BY <2>1, <2>2, <2>3, <2>4, PriceStays DEF Running
<1> QED
  BY <1>1, <1>2, <1>3

\* A draft is confirmed: with the version written the book is balanced, or it is closed.
LEMMA PriceWritten ==
  ASSUME PriceInv, draft' = NoDraft, sub'.status \in Running \cup {"cancelled"},
         OrderlyIn(versions') =>
           /\ sub'.status \in Running => Balanced(book', versions', sub'.termEnd, sub'.price)
           /\ sub'.status = "cancelled" =>
                Charged(book') = AgreedSum(versions', FirstDayOf(versions'), sub'.termEnd)
  PROVE  PriceInv'
<1>1. ~ draft'.open
  BY DEF NoDraft
<1>2. DraftAgrees'
  BY <1>1 DEF DraftAgrees, Unscheduled, Running
<1>3. BalanceAgrees'
  BY DEF BalanceAgrees
<1> QED
  BY <1>2, <1>3 DEF PriceInv

\* The versions up to the last are as orderly as with it.
LEMMA OrderlyBefore ==
  ASSUME SubInv, PriceInv, sub.status \in Running, NEW v \in SubVersions, OrderlyIn(Append(versions, v))
  PROVE  Balanced(book, versions, sub.termEnd, sub.price)
<1>1. OrderlyIn(versions)
  BY TypesOf, AppendedVersion
<1> QED
  BY <1>1 DEF PriceInv, BalanceAgrees

\* A change of the price, or of the start.
LEMMA PriceConfirmChange ==
  ASSUME SubInv, PriceInv, ConfirmChange
  PROVE  PriceInv'
<1> DEFINE moved == draft.changes.start # Keep
           effective == Or(draft.changes.start, draft.effective)
           price == Or(draft.changes.price, sub.price)
           version == sub.version + 1
           customer == Or(draft.changes.customer, sub.customer)
           changed == [sub EXCEPT !.status = sub.prior, !.version = version, !.price = price,
                                  !.customer = customer]
           b == IF moved THEN MovedBook(effective, price, version)
                ELSE ChangedBook(effective, price, version)
           v == Version(IF moved THEN "move" ELSE "change", effective, price)
           ws == Append(versions, v)
<1>1. /\ draft.open /\ draft' = NoDraft
      /\ moved => \A t \in TermTxs : book.txs[t].state # "BOOKED"
      /\ sub' = IF moved THEN [changed EXCEPT !.termStart = effective, !.termEnd = effective + Term]
                ELSE changed
      /\ book' = Register(b, mode) /\ versions' = ws
  BY DEF ConfirmChange
<1>2. /\ sub \in SubHeads /\ effective \in Nat /\ price \in Nat /\ version \in Nat
      /\ customer \in Customers /\ sub.prior \in SubStatuses /\ sub.termEnd \in Nat
  BY <1>1, Written DEF SubHeads
<1>3. sub.status = "changing" /\ sub.status \in Running /\ sub.prior \in {"active", "renewed"}
  BY <1>1, StatusOf DEF PriceInv, DraftAgrees, Running
<1>4. mode \in Modes /\ Consistent(book)
  BY TypesOf, BookRows
<1> HIDE DEF moved, effective, price, version, customer
<1>5. Consistent(b) /\ v \in SubVersions
  <2>1. Consistent(b)
    BY <1>1, <1>2, MovedIsConsistent, ChangedIsConsistent
  <2>2. v \in SubVersions
    BY <1>2 DEF Version, SubVersions
  <2> QED
    BY <2>1, <2>2
<1> DEFINE end == IF moved THEN effective + Term ELSE sub.termEnd
<1>6. sub'.status = sub.prior /\ sub'.price = price /\ sub'.termEnd = end
  <2>1. changed \in SubHeads /\ changed.status = sub.prior /\ changed.price = price /\ changed.termEnd = sub.termEnd
    BY <1>2 DEF SubHeads
  <2> HIDE DEF changed
  <2> QED
    BY <1>1, <2>1 DEF SubHeads
<1>7. ASSUME OrderlyIn(ws) PROVE Balanced(b, ws, end, price)
  <2>1. Balanced(book, versions, sub.termEnd, sub.price)
    BY <1>3, <1>5, <1>7, OrderlyBefore
  <2>2. CASE moved
    <3>1. OrderlyIn(Append(versions, Version("move", effective, price)))
      BY <1>7, <2>2
    <3>2. Balanced(MovedBook(effective, price, version),
                   Append(versions, Version("move", effective, price)), effective + Term, price)
      BY <1>1, <1>2, <2>1, <2>2, <3>1, BalancedMove
    <3> QED
      BY <2>2, <3>2
  <2>3. CASE ~ moved
    <3>1. OrderlyIn(Append(versions, Version("change", effective, price)))
      BY <1>7, <2>3
    <3>2. Balanced(ChangedBook(effective, price, version),
                   Append(versions, Version("change", effective, price)), sub.termEnd, price)
      BY <1>2, <2>1, <3>1, BalancedChange
    <3> QED
      BY <2>3, <3>2
  <2> QED
    BY <2>2, <2>3
<1>8. end \in Int
  BY <1>2, SubscriptionsAssumption
<1> HIDE DEF b, v, ws, end
<1>9. OrderlyIn(ws) => Balanced(Register(b, mode), ws, end, price)
  BY <1>4, <1>5, <1>7, <1>8, BalancedRegistered
<1>10. sub'.status \in Running /\ sub'.status # "cancelled"
  BY <1>3, <1>6 DEF Running
<1>11. OrderlyIn(versions') =>
         /\ sub'.status \in Running => Balanced(book', versions', sub'.termEnd, sub'.price)
         /\ sub'.status = "cancelled" =>
              Charged(book') = AgreedSum(versions', FirstDayOf(versions'), sub'.termEnd)
  BY <1>1, <1>6, <1>9, <1>10
<1> QED
  BY <1>1, <1>10, <1>11, PriceWritten

\* A closure.
LEMMA PriceConfirmCancel ==
  ASSUME SubInv, PriceInv, ConfirmCancel
  PROVE  PriceInv'
<1> DEFINE effective == draft.effective
           end == Upper(sub.termEnd, effective)
           version == sub.version + 1
           until == IF end = effective THEN effective + Period ELSE end
           b == Add(EndedBook(effective), version, "CANCEL", effective, until, - Unearned(effective))
           v == Version("cancel", effective, 0)
           ws == Append(versions, v)
<1>1. /\ draft.open /\ draft' = NoDraft
      /\ sub' = [sub EXCEPT !.status = "cancelled", !.version = version]
      /\ book' = Register(b, mode) /\ versions' = ws
  BY DEF ConfirmCancel
<1>2. /\ sub \in SubHeads /\ effective \in Nat /\ version \in Nat /\ sub.termEnd \in Nat
  BY <1>1, Written DEF SubHeads
<1>3. until \in Int
  BY <1>2, PeriodAssumption DEF Upper
<1>4. sub.status \in Running /\ mode \in Modes
  BY <1>1, StatusOf, TypesOf DEF Running
<1>5. v \in SubVersions
  BY <1>2 DEF Version, SubVersions
<1>6. sub'.status = "cancelled" /\ sub'.termEnd = sub.termEnd
  BY <1>1, <1>2 DEF SubHeads
<1> HIDE DEF effective, version, until
<1>7. ASSUME OrderlyIn(ws) PROVE Charged(Register(b, mode)) = AgreedSum(ws, FirstDayOf(ws), sub.termEnd)
  <2>1. Balanced(book, versions, sub.termEnd, sub.price)
    BY <1>4, <1>5, <1>7, OrderlyBefore
  <2>2. Consistent(b) /\ Charged(b) = AgreedSum(ws, FirstDayOf(ws), sub.termEnd)
    BY <1>2, <1>3, <2>1, ClosureTotal
  <2> HIDE DEF b, ws
  <2>3. b \in Books /\ Onwards(b, Register(b, mode))
    BY <1>4, <2>2, RegisteredBook DEF Consistent
  <2>4. Charged(Register(b, mode)) = Charged(b)
    BY <2>3, AmountsKept
  <2> QED
    BY <2>2, <2>4
<1> HIDE DEF b, v, ws
<1>8. OrderlyIn(versions') =>
         /\ sub'.status \in Running => Balanced(book', versions', sub'.termEnd, sub'.price)
         /\ sub'.status = "cancelled" =>
              Charged(book') = AgreedSum(versions', FirstDayOf(versions'), sub'.termEnd)
  BY <1>1, <1>6, <1>7 DEF Running
<1> QED
  BY <1>1, <1>6, <1>8, PriceWritten

\* A renewal, of the draft or by the job.
LEMMA PriceRenewed ==
  ASSUME SubInv, PriceInv, sub.status \in Running, BookedBefore(book, sub.termEnd), Renewed, draft' = NoDraft
  PROVE  PriceInv'
<1> DEFINE price == sub.price + IndexBy
           version == sub.version + 1
           hi == sub.termEnd
           end == hi + Term
           v == Version("renew", hi, price)
           ws == Append(versions, v)
           c == Scheduled(book, mode, version, "RENEW", hi, end, price)
<1>1. /\ sub' = [sub EXCEPT !.status = "renewed", !.version = version, !.price = price,
                            !.termStart = hi, !.termEnd = end]
      /\ book' = c /\ versions' = ws
  BY DEF Renewed
<1>2. /\ sub \in SubHeads /\ price \in Nat /\ version \in Nat /\ hi \in Nat /\ mode \in Modes
      /\ Consistent(book)
  BY HeadThere, TypesOf, BookRows, SubscriptionsAssumption DEF Running
<1>3. v \in SubVersions
  BY <1>2 DEF Version, SubVersions
<1> HIDE DEF price, version
<1>4. ASSUME OrderlyIn(ws) PROVE Balanced(c, ws, end, price)
  <2>1. Balanced(book, versions, hi, sub.price)
    BY <1>3, <1>4, OrderlyBefore
  <2> HIDE DEF hi
  <2> QED
    BY <1>2, <1>4, <2>1, BalancedRenewal DEF hi
<1> HIDE DEF end, v, ws, c, hi
<1>5. sub'.status = "renewed" /\ sub'.price = price /\ sub'.termEnd = end
  BY <1>1, <1>2 DEF SubHeads
<1>6. OrderlyIn(versions') =>
         /\ sub'.status \in Running => Balanced(book', versions', sub'.termEnd, sub'.price)
         /\ sub'.status = "cancelled" =>
              Charged(book') = AgreedSum(versions', FirstDayOf(versions'), sub'.termEnd)
  BY <1>1, <1>4, <1>5
<1> QED
  BY <1>1, <1>5, <1>6, PriceWritten DEF Running

\* Going onwards adds no transaction.
LEMMA StaysEmpty ==
  ASSUME NEW b \in Books, NEW c \in Books, Onwards(b, c), b.txs = << >>
  PROVE  c.txs = << >>
<1>1. DOMAIN c.txs = {}
  BY DEF Onwards
<1>2. c.txs \in Seq(Transaction) /\ Len(c.txs) \in Nat /\ DOMAIN c.txs = 1 .. Len(c.txs)
  BY Tables
<1>3. 1 \notin DOMAIN c.txs
  BY <1>1
<1>4. Len(c.txs) = 0
  BY <1>2, <1>3
<1> QED
  BY <1>2, <1>4, EmptySeq

\* The scheduler goes onwards, in order.
LEMMA PriceOnwards ==
  ASSUME SubInv, PriceInv, Consistent(book'), Onwards(book, book'), InOrder(book) => InOrder(book'),
         UNCHANGED << sub, draft, versions >>
  PROVE  PriceInv'
<1>1. book \in Books /\ book' \in Books
  BY DEF SubInv, Consistent
<1>2. book.txs = << >> => book'.txs = << >>
  BY <1>1, StaysEmpty
<1>3. DraftAgrees'
  BY <1>2 DEF PriceInv, DraftAgrees
<1>4. Charged(book') = Charged(book)
  BY <1>1, AmountsKept
<1>5. Balanced(book, versions, sub.termEnd, sub.price) => Balanced(book', versions, sub.termEnd, sub.price)
  <2> SUFFICES ASSUME Balanced(book, versions, sub.termEnd, sub.price)
               PROVE  Balanced(book', versions, sub.termEnd, sub.price)
    OBVIOUS
  <2>1. InOrder(book')
    BY DEF Balanced
  <2> QED
    BY <1>1, <2>1, BalancedOnwards
<1>6. BalanceAgrees'
  BY <1>4, <1>5 DEF PriceInv, BalanceAgrees
<1> QED
  BY <1>3, <1>6 DEF PriceInv

\* Every request and every run of the scheduler keeps the balance.
LEMMA PriceStep == SubInv /\ PriceInv /\ [Next]_vars => PriceInv'
<1> SUFFICES ASSUME SubInv, PriceInv, [Next]_vars PROVE PriceInv'
  OBVIOUS
<1>1. CASE Start
  BY <1>1, PriceCreate, PriceEdit, PriceSubmit, PriceConfirm DEF Start
<1>2. CASE Drafting
  <2>1. CASE ConfirmRenew
    <3>1. BookedBefore(book, sub.termEnd) /\ sub.status \in Running /\ Renewed /\ draft' = NoDraft
      BY <2>1 DEF ConfirmRenew, SubInv, HeadAgrees, Running
    <3> QED
      BY <3>1, PriceRenewed
  <2> QED
    BY <1>2, <2>1, PriceDrafting, PriceConfirmChange, PriceConfirmCancel DEF Drafting
<1>3. CASE Scheduling
  <2>1. CASE RunRenewals
    <3>1. BookedBefore(book, sub.termEnd) /\ sub.status \in Running /\ Renewed /\ draft' = NoDraft
      BY <2>1 DEF RunRenewals, Renewable, BookedBefore, Running
    <3> QED
      BY <3>1, PriceRenewed
  <2>2. ASSUME NEW until \in EffectiveDays, RunDue(until) PROVE PriceInv'
    <3>1. mode \in Modes /\ Consistent(book) /\ until \in Int
      BY TypesOf, BookRows, SubscriptionsAssumption
    <3>2. Consistent(book') /\ Onwards(book, book') /\ (InOrder(book) => InOrder(book'))
      BY <2>2, <3>1, DueBook DEF RunDue
    <3> QED
      BY <2>2, <3>2, PriceOnwards DEF RunDue
  <2>3. CASE RunNext
    <3>1. mode \in Modes /\ Consistent(book) /\ With(book, "SCHEDULED") # {}
      BY <2>3, TypesOf, BookRows DEF RunNext
    <3>2. Consistent(book') /\ Onwards(book, book') /\ (InOrder(book) => InOrder(book'))
      BY <2>3, <3>1, NextBook DEF RunNext
    <3> QED
      BY <2>3, <3>2, PriceOnwards DEF RunNext
  <2>4. CASE (\E m \in Modes : SetMode(m)) \/ \E d \in 0 .. MaxDay : SetClock(d)
    BY <2>4 DEF SetMode, SetClock, PriceInv, DraftAgrees, BalanceAgrees
  <2> QED
    BY <1>3, <2>1, <2>2, <2>3, <2>4 DEF Scheduling
<1>4. CASE UNCHANGED vars
  BY <1>4 DEF vars, PriceInv, DraftAgrees, BalanceAgrees
<1> QED
  BY <1>1, <1>2, <1>3, <1>4 DEF Next

\* In every state of a subscription the variables have their types, its head, its draft and its
\* book agree, and the chain of a mode that was not switched holds.
THEOREM SubscriptionHolds == Spec => []SubInv
BY SubInit, SubStep, PTL DEF Spec

\* The variables of a subscription keep their types, whatever is requested in which order.
THEOREM SubTypeCorrect == Spec => []SubTypeOK
<1>1. SubInv => SubTypeOK
  BY DEF SubInv
<1> QED
  BY <1>1, SubscriptionHolds, PTL

\* Between the scheduled transactions and the pending jobs there is exactly one of each for the
\* other: no request and no run of the scheduler leaves a transaction to be booked twice, late or
\* never.
THEOREM JobsAlwaysMatch == Spec => []JobsMatch
<1>1. SubInv => JobsMatch
  <2> SUFFICES ASSUME SubInv PROVE JobsMatch
    OBVIOUS
  <2>1. JobsAgree(book) /\ book \in Books
    BY DEF SubInv, Consistent
  <2>2. ASSUME NEW t \in With(book, "SCHEDULED")
        PROVE  LET j == book.txs[t].job
               IN  /\ j \in DOMAIN book.jobs
                   /\ book.jobs[j] = [tx |-> t, state |-> "PENDING", due |-> book.txs[t].from]
    <3> DEFINE j == book.txs[t].job
    <3>1. /\ j \in DOMAIN book.jobs /\ book.jobs[j].tx = t
          /\ book.jobs[j].state = "PENDING" /\ book.jobs[j].due = book.txs[t].from
      BY <2>1 DEF With, JobsAgree
    <3>2. book.jobs[j] \in BookingJob
      BY <2>1, <3>1, Tables
    <3> HIDE DEF j
    <3>3. book.jobs[j] = [tx |-> t, state |-> "PENDING", due |-> book.txs[t].from]
      BY <3>1, <3>2 DEF BookingJob
    <3> QED
      BY <3>1, <3>3 DEF j
  <2> QED
    BY <2>1, <2>2 DEF JobsMatch, JobsAgree
<1> QED
  BY <1>1, SubscriptionHolds, PTL

\* A transaction has an invoice, exactly one and of its amount, when it is booked and only then.
THEOREM InvoicedExactlyOnce == Spec => []InvoicedOnce
<1>1. SubInv => InvoicedOnce
  <2> SUFFICES ASSUME SubInv, NEW t \in DOMAIN book.txs
               PROVE  LET invoices == {i \in DOMAIN book.invoices : book.invoices[i].tx = t}
                      IN  IF book.txs[t].state = "BOOKED"
                          THEN \E i \in invoices : invoices = {i} /\ book.invoices[i].net = book.txs[t].net
                          ELSE invoices = {}
    BY DEF InvoicedOnce
  <2>1. InvoicesAgree(book)
    BY DEF SubInv, Consistent
  <2>2. CASE book.txs[t].state = "BOOKED"
    <3>1. PICK i \in DOMAIN book.invoices : book.invoices[i].tx = t
      BY <2>1, <2>2 DEF InvoicesAgree
    <3>2. book.invoices[i].net = book.txs[t].net
      BY <2>1, <3>1 DEF InvoicesAgree
    <3>3. \A k \in DOMAIN book.invoices : book.invoices[k].tx = t => k = i
      BY <2>1, <3>1 DEF InvoicesAgree
    <3> QED
      BY <2>2, <3>1, <3>2, <3>3
  <2>3. CASE book.txs[t].state # "BOOKED"
    BY <2>1, <2>3 DEF InvoicesAgree
  <2> QED
    BY <2>2, <2>3
<1> QED
  BY <1>1, SubscriptionHolds, PTL

\* While the mode is not switched nothing waits without a job but behind one that has one.
THEOREM ChainAlwaysContinues == Spec => []ChainContinues
<1>1. SubInv => ChainContinues
  BY DEF SubInv, ChainContinues, Chained
<1> QED
  BY <1>1, SubscriptionHolds, PTL

\* A renewal is confirmed only over a term that is booked: nothing between the opening of its
\* draft and its confirmation brings back an earlier charge.
THEOREM RenewedOnlyWhenBooked == Spec => RenewedWhenBooked
<1> DEFINE Grown(cause) == versions'[Len(versions')].cause = cause
           Done == Len(versions') > Len(versions) /\ Grown("renew")
                   => BookedBefore(book, sub.termEnd)
<1>1. SubInv /\ [Next]_vars => Done
  <2> SUFFICES ASSUME SubInv, [Next]_vars, Len(versions') > Len(versions), Grown("renew")
               PROVE  BookedBefore(book, sub.termEnd)
    OBVIOUS
  <2>1. versions \in Seq(SubVersions) /\ Len(versions) \in Nat
    BY TypesOf
  <2>2. versions' # versions
    BY <2>1
  <2>3. CASE Start
    <3>1. PICK from, price : versions' = << Version("create", from, price) >>
      BY <2>2, <2>3 DEF Start, Create, Edit, Submit, Confirm
    <3>2. Grown("create")
      BY <3>1 DEF Version
    <3> QED
      BY <3>2
  <2>4. CASE ConfirmChange
    <3>1. PICK cause, from, price :
            cause \in {"move", "change"} /\ versions' = Append(versions, Version(cause, from, price))
      BY <2>4 DEF ConfirmChange
    <3>2. Grown(cause)
      BY <2>1, <3>1 DEF Version
    <3> QED
      BY <3>1, <3>2
  <2>5. CASE ConfirmCancel
    <3>1. PICK from : versions' = Append(versions, Version("cancel", from, 0))
      BY <2>5 DEF ConfirmCancel
    <3>2. Grown("cancel")
      BY <2>1, <3>1 DEF Version
    <3> QED
      BY <3>2
  <2>6. CASE ConfirmRenew
    BY <2>6 DEF ConfirmRenew, SubInv, HeadAgrees
  <2>7. CASE RunRenewals
    BY <2>7 DEF RunRenewals, Renewable, BookedBefore
  <2> QED
    BY <2>2, <2>3, <2>4, <2>5, <2>6, <2>7 DEF Next, Drafting, Scheduling, OpenDraft, PatchDraft,
       AcceptOwnership, DiscardDraft, RunDue, RunNext, SetMode, SetClock, vars
<1>2. Done => (Len(versions') > Len(versions) /\ versions'[Len(versions')].cause = "renew" =>
                 \A t \in Live(book) : book.txs[t].from < sub.termEnd => book.txs[t].state = "BOOKED")
  BY DEF BookedBefore
<1> QED
  BY <1>1, <1>2, SubscriptionHolds, PTL DEF Spec, RenewedWhenBooked

\* What is charged in all is what was agreed day by day.
THEOREM AlwaysChargedAsAgreed == Spec => []ChargedAsAgreed
<1>1. SubInv /\ PriceInv => ChargedAsAgreed
  <2> SUFFICES ASSUME SubInv, PriceInv, book.txs # << >>, Orderly
               PROVE  SumFunction([t \in Live(book) |-> book.txs[t].net])
                        = SumFunction([day \in FirstDay .. sub.termEnd - 1 |-> Agreed(day)])
    BY DEF ChargedAsAgreed
  <2>1. OrderlyIn(versions) /\ FirstDay = FirstDayOf(versions)
    BY DEF Orderly, OrderlyIn, Closures, ClosuresOf, FirstDay, FirstDayOf, Starts
  <2>2. \A day : Agreed(day) = PriceOn(versions, day)
    BY DEF Agreed, Closed, Closures, PriceOn, ClosuresOf, UpTo
  <2>3. SumFunction([day \in FirstDay .. sub.termEnd - 1 |-> Agreed(day)])
          = AgreedSum(versions, FirstDayOf(versions), sub.termEnd)
    BY <2>1, <2>2 DEF AgreedSum
  <2>4. Charged(book) = AgreedSum(versions, FirstDayOf(versions), sub.termEnd)
    <3>1. sub.status \in Running \cup {"cancelled"}
      BY StatusOf DEF PriceInv, DraftAgrees
    <3>2. CASE sub.status = "cancelled"
      BY <2>1, <3>2 DEF PriceInv, BalanceAgrees
    <3>3. CASE sub.status \in Running
      <4>1. Balanced(book, versions, sub.termEnd, sub.price) /\ Consistent(book) /\ sub.termEnd \in Int
        BY <2>1, <3>1, <3>3, StatusOf, HeadThere, BookRows DEF PriceInv, BalanceAgrees
      <4> QED
        BY <4>1, BalancedTotal
    <3> QED
      BY <3>1, <3>2, <3>3
  <2> QED
    BY <2>3, <2>4 DEF Charged
<1>2. Init => SubInv /\ PriceInv
  BY SubInit, PriceInit
<1>3. (SubInv /\ PriceInv) /\ [Next]_vars => (SubInv /\ PriceInv)'
  BY SubStep, PriceStep
<1> QED
  BY <1>1, <1>2, <1>3, PTL DEF Spec
=============================================================================
