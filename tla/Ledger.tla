------------------------------- MODULE Ledger -------------------------------
(***************************************************************************)
(* The ledger of one subscription of the demo application                  *)
(* (demo_sut/billing.py, demo_sut/scheduler.py): its transactions, the     *)
(* booking jobs they are registered under, and the invoices.  A book is a  *)
(* record of the three tables, a row's id is its position.                 *)
(*                                                                         *)
(* Days are numbers and a billing period is Period days, so that a price   *)
(* per day makes every pro-rata share exact: calendars, day counts and     *)
(* rounding to the cent are left out, and tax and fees with them.          *)
(***************************************************************************)
EXTENDS Integers, Sequences, FiniteSets, FiniteSetsExt, Functions

CONSTANT Period \* the days of a billing period

ASSUME PeriodAssumption == Period \in Nat \ {0}

Modes == {"all", "one_at_a_time"}
NoJob == 0

Transaction == [kind : {"NEW", "RENEW", "CHANGE", "CANCEL"}, version : Nat,
                state : {"INITIAL", "SCHEDULED", "BOOKED", "VOID"},
                from : Int, to : Int, net : Int, job : Nat]
BookingJob == [tx : Nat, state : {"PENDING", "DONE", "CANCELLED"}, due : Int]
Invoice == [tx : Nat, net : Int] \* what was booked

Books == [txs : Seq(Transaction), jobs : Seq(BookingJob), invoices : Seq(Invoice)]
EmptyBook == [txs |-> << >>, jobs |-> << >>, invoices |-> << >>]

Lower(a, b) == IF a < b THEN a ELSE b
Upper(a, b) == IF a > b THEN a ELSE b

\* share_of: the part of an amount for some of the days it covers.
ShareOf(amount, part, whole) ==
  IF part <= 0 \/ whole <= 0 THEN 0 ELSE (amount * part) \div whole

\* periods: from start up to end, the last one clipped.
Periods(start, end) ==
  [i \in 1 .. (end - start + Period - 1) \div Period |->
     << start + (i - 1) * Period, Lower(start + i * Period, end) >>]

With(book, state) == { t \in DOMAIN book.txs : book.txs[t].state = state }
Live(book) == DOMAIN book.txs \ With(book, "VOID")
Pending(book) == With(book, "INITIAL") \union With(book, "SCHEDULED")

\* The first of some rows: by their day, then by their id.
Earliest(day) ==
  CHOOSE r \in DOMAIN day :
    \A q \in DOMAIN day \ {r} : day[r] < day[q] \/ (day[r] = day[q] /\ r < q)

\* transactions: by the start of the period.
First(book, S) == Earliest([t \in S |-> book.txs[t].from])

-----------------------------------------------------------------------------
\* add.
NewTx(version, kind, from, to, net) ==
  [kind |-> kind, version |-> version, state |-> "INITIAL", from |-> from, to |-> to, net |-> net,
   job |-> NoJob]
Added(book, txs) == [book EXCEPT !.txs = @ \o txs]
Add(book, version, kind, from, to, net) == Added(book, << NewTx(version, kind, from, to, net) >>)

\* _attach_job: a booking job, due when the period starts.
AttachJob(book, t) ==
  [book EXCEPT
     !.jobs = Append(@, [tx |-> t, state |-> "PENDING", due |-> book.txs[t].from]),
     !.txs[t] = [book.txs[t] EXCEPT !.state = "SCHEDULED", !.job = Len(book.jobs) + 1]]

\* register: every waiting transaction, or only the first one and only if none has a job.
AllAttached(book) ==
  LET n == Cardinality(With(book, "INITIAL"))
      attached[i \in 0 .. n] ==
        IF i = 0 THEN book
        ELSE AttachJob(attached[i - 1], First(attached[i - 1], With(attached[i - 1], "INITIAL")))
  IN  attached[n]

Register(book, mode) ==
  IF mode = "all" THEN AllAttached(book)
  ELSE IF With(book, "SCHEDULED") # {} \/ Pending(book) = {} THEN book
  ELSE AttachJob(book, First(book, Pending(book)))

\* schedule: one transaction per period of a term at a price per day.
Scheduled(book, mode, version, kind, start, end, price) ==
  LET periods == Periods(start, end)
      TxOf(p) == NewTx(version, kind, p[1], p[2], price * (p[2] - p[1]))
  IN  Register(Added(book, [i \in DOMAIN periods |-> TxOf(periods[i])]), mode)

\* void, of some: with the jobs that were to book them.  (FaultyVoid leaves the jobs pending.)
VoidTxs(book, S) ==
  [t \in DOMAIN book.txs |->
     IF t \in S THEN [book.txs[t] EXCEPT !.state = "VOID"] ELSE book.txs[t]]
FaultyVoid(book, S) == [book EXCEPT !.txs = VoidTxs(book, S)]
Void(book, S) ==
  LET cancelled == { j \in { book.txs[t].job : t \in S } \ {NoJob} : book.jobs[j].state = "PENDING" }
  IN  [book EXCEPT
         !.txs = VoidTxs(book, S),
         !.jobs = [j \in DOMAIN @ |-> IF j \in cancelled
                                      THEN [book.jobs[j] EXCEPT !.state = "CANCELLED"]
                                      ELSE book.jobs[j]]]

\* book: once; the invoice, then the next of a one-at-a-time chain.  (FaultyInvoiced leaves
\* the next one to whoever registers again.)
Billed(book, t) ==
  LET j == book.txs[t].job
  IN  [book EXCEPT
         !.txs[t] = [book.txs[t] EXCEPT !.state = "BOOKED"],
         !.jobs = IF j = NoJob THEN @ ELSE [@ EXCEPT ![j] = [book.jobs[j] EXCEPT !.state = "DONE"]],
         !.invoices = Append(@, [tx |-> t, net |-> book.txs[t].net])]

FaultyInvoiced(book, mode, t) == Billed(book, t)
Invoiced(book, mode, t) ==
  IF mode = "one_at_a_time" THEN Register(Billed(book, t), mode) ELSE Billed(book, t)

Book(book, mode, t) == IF book.txs[t].state = "BOOKED" THEN book ELSE Invoiced(book, mode, t)

-----------------------------------------------------------------------------
\* run_due: rounds over the jobs due until a day, in the order of their days, until none is
\* left: the jobs a round registers run in the next one.  A transaction is booked by one job at
\* most, and each round books one.
Due(book, until) ==
  { j \in DOMAIN book.jobs : book.jobs[j].state = "PENDING" /\ book.jobs[j].due <= until }

RunJob(book, mode, j) ==
  LET t == book.jobs[j].tx
  IN  IF book.txs[t].state \in {"BOOKED", "VOID"}
      THEN [book EXCEPT !.jobs[j] = [book.jobs[j] EXCEPT !.state = "CANCELLED"]]
      ELSE Book(book, mode, t)

\* A step of run_due: the next job of the round, or the next round.
Ran(s, mode, until) ==
  LET j == Earliest([i \in s.left |-> s.book.jobs[i].due])
  IN  IF s.left = {} THEN [left |-> Due(s.book, until), book |-> s.book]
      ELSE [left |-> s.left \ {j}, book |-> RunJob(s.book, mode, j)]

AfterDue(book, mode, until) ==
  LET n == 2 * Len(book.txs)
      ran[i \in 0 .. n] ==
        IF i = 0 THEN [left |-> {}, book |-> book] ELSE Ran(ran[i - 1], mode, until)
  IN  ran[n].book

\* run_next: the first scheduled transaction, whatever its day.  (FaultyAfterNext does not
\* claim it, as the fault run_next_rebooks_claimed_job: the next call books it again.)
FaultyAfterNext(book, mode) ==
  IF With(book, "BOOKED") # {} THEN Billed(book, First(book, With(book, "BOOKED")))
  ELSE Book(book, mode, First(book, With(book, "SCHEDULED")))
AfterNext(book, mode) == Book(book, mode, First(book, With(book, "SCHEDULED")))
=============================================================================
