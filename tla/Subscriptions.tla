---------------------------- MODULE Subscriptions ----------------------------
(***************************************************************************)
(* The life of one subscription of the demo application                    *)
(* (demo_sut/subscriptions.py) over its ledger: it is drafted, submitted   *)
(* and confirmed, then changed, renewed or cancelled through drafts, while *)
(* the scheduler books and the clock moves (demo_sut/scheduler.py,         *)
(* clock.py).  The server takes one request at a time (demo_sut/app.py     *)
(* holds a lock for each), so every request is one action.                 *)
(***************************************************************************)
EXTENDS Ledger

CONSTANTS
  Term,        \* the days of a term
  Window,      \* renewal_window_days
  IndexBy,     \* what a renewal's indexation adds to a price per day
  Prices,      \* the prices per day a request names
  Customers,   \* the customers
  Payees,      \* those with an account a credit can be paid to
  EffectiveDays, \* the days a request names
  StartDays,   \* the days it names as a start
  ChangeSets,  \* what it changes
  MaxDay,      \* a bound: the last day
  MaxVersions, \* a bound: the versions of the subscription
  Keep         \* a field a draft does not change

ASSUME SubscriptionsAssumption ==
  /\ Term \in Nat \ {0}
  /\ Window \in Nat /\ IndexBy \in Nat /\ MaxDay \in Nat /\ MaxVersions \in Nat
  /\ Prices \subseteq Nat /\ EffectiveDays \subseteq Nat
  /\ Payees \subseteq Customers
  /\ StartDays \subseteq Nat
  /\ Keep \notin Prices \union Customers \union StartDays
  /\ ChangeSets \subseteq [price : Prices \union {Keep}, customer : Customers \union {Keep},
                           start : StartDays \union {Keep}]

VARIABLES
  today,    \* the clock
  mode,     \* scheduler_mode
  sub,      \* the head: none, draft, pending_payment, active, renewed, changing or cancelled
  draft,    \* the open draft on it
  versions, \* the versions written, by number
  book,     \* the ledger
  switched  \* auxiliary: the mode was set after the first transaction

vars == << today, mode, sub, draft, versions, book, switched >>

DraftKinds == {"change", "cancel", "renew"}
NoChange == [price |-> Keep, customer |-> Keep, start |-> Keep]

\* No open draft: one that is confirmed or discarded refuses everything.
NoDraft == [open |-> FALSE]

Init ==
  /\ today = 0
  /\ mode \in Modes
  /\ sub = [status |-> "none"]
  /\ draft = NoDraft
  /\ versions = << >>
  /\ book = EmptyBook
  /\ switched = FALSE

\* _write_version.
Version(cause, from, price) == [cause |-> cause, from |-> from, price |-> price]

-----------------------------------------------------------------------------
(* Up to the first schedule. *)

\* create, in status draft.
Create(price, customer, start) ==
  /\ sub.status = "none"
  /\ sub' = [status |-> "draft", prior |-> "draft", version |-> 1, price |-> price,
             customer |-> customer, termStart |-> start, termEnd |-> start + Term]
  /\ versions' = << Version("create", start, price) >>
  /\ UNCHANGED << today, mode, draft, book, switched >>

\* patch: version 1 is replaced.
Edit(price, start) ==
  /\ sub.status = "draft"
  /\ sub' = [sub EXCEPT !.price = price, !.termStart = start, !.termEnd = start + Term]
  /\ versions' = << Version("create", start, price) >>
  /\ UNCHANGED << today, mode, draft, book, switched >>

\* submit.
Submit ==
  /\ sub.status = "draft"
  /\ sub' = [sub EXCEPT !.status = "pending_payment"]
  /\ UNCHANGED << today, mode, draft, versions, book, switched >>

\* confirm, which create calls itself for a subscription to activate at once: the term is
\* scheduled.
Confirm ==
  /\ sub.status \in {"draft", "pending_payment"}
  /\ sub' = [sub EXCEPT !.status = "active"]
  /\ book' = Scheduled(book, mode, 1, "NEW", sub.termStart, sub.termEnd, sub.price)
  /\ UNCHANGED << today, mode, draft, versions, switched >>

-----------------------------------------------------------------------------
(* Drafts: one at a time. *)

\* _check_renewable.  (FaultyRenewable looks at the first term's transactions only.)
FaultyRenewable ==
  /\ sub.termEnd - today <= Window
  /\ \A t \in Live(book) : book.txs[t].kind = "NEW" => book.txs[t].state = "BOOKED"
Renewable ==
  /\ sub.termEnd - today <= Window
  /\ \A t \in Live(book) : book.txs[t].from < sub.termEnd => book.txs[t].state = "BOOKED"

\* open_draft.
OpenDraft(kind, effective, changes) ==
  /\ sub.status \in {"active", "renewed"}
  /\ sub.version < MaxVersions
  /\ kind = "renew" => Renewable
  /\ kind # "change" => changes = NoChange \* they are not read
  /\ draft' = [kind |-> kind, open |-> TRUE, effective |-> effective, changes |-> changes,
               accepted |-> FALSE]
  /\ sub' = [sub EXCEPT !.prior = sub.status, !.status = "changing"]
  /\ UNCHANGED << today, mode, versions, book, switched >>

\* patch_draft: what is named replaces what was there; the acceptance stays.
PatchDraft(effective, changes) ==
  /\ draft.open
  /\ draft.kind # "change" => changes = NoChange
  /\ draft' = [draft EXCEPT
                 !.effective = effective,
                 !.changes = [f \in DOMAIN @ |-> IF changes[f] = Keep THEN @[f] ELSE changes[f]]]
  /\ UNCHANGED << today, mode, sub, versions, book, switched >>

\* accept_ownership: whatever the draft changes.
AcceptOwnership ==
  /\ draft.open
  /\ draft' = [draft EXCEPT !.accepted = TRUE]
  /\ UNCHANGED << today, mode, sub, versions, book, switched >>

\* discard_draft: the subscription is as before.
DiscardDraft ==
  /\ draft.open
  /\ draft' = NoDraft
  /\ sub' = [sub EXCEPT !.status = sub.prior]
  /\ UNCHANGED << today, mode, versions, book, switched >>

-----------------------------------------------------------------------------
(* _confirm_change.  A transaction of a period that is booked or has begun on the effective *)
(* day keeps its amount, and one CHANGE transaction carries the difference from that day on; *)
(* later periods take the new price. *)

TermTxs == { t \in Live(book) : book.txs[t].kind \in {"NEW", "RENEW"} }
Overlaps(t, effective) == book.txs[t].to > effective
\* (FaultySettled leaves out the period the effective day falls in.)
FaultySettled(effective) ==
  { t \in TermTxs : Overlaps(t, effective) /\ book.txs[t].state = "BOOKED" }
Settled(effective) ==
  { t \in TermTxs : /\ Overlaps(t, effective)
                    /\ \/ book.txs[t].state = "BOOKED"
                       \/ book.txs[t].from <= effective }

Repriced(effective, price, version) ==
  LET later == { t \in TermTxs : Overlaps(t, effective) } \ Settled(effective)
      Priced(tx) == [tx EXCEPT !.net = price * (tx.to - tx.from), !.version = version]
  IN  [book EXCEPT !.txs =
         [t \in DOMAIN @ |-> IF t \in later THEN Priced(book.txs[t]) ELSE book.txs[t]]]

ChangeNet(effective, delta) ==
  SumFunction([t \in Settled(effective) |->
                 delta * (book.txs[t].to - Upper(book.txs[t].from, effective))])
ChangeEnd(effective) ==
  IF Settled(effective) = {} THEN effective + Period
  ELSE Max({ book.txs[t].to : t \in Settled(effective) })

Or(field, value) == IF field = Keep THEN value ELSE field
NeedsAcceptance == draft.changes.customer \notin {Keep, sub.customer}

\* A change of the start day voids the schedule and makes a new one.
MovedBook(start, price, version) ==
  LET again == Scheduled(Void(book, TermTxs), mode, version, "NEW", start, start + Term, price)
  IN  Add(again, version, "CHANGE", start, start + Period, 0)

ChangedBook(effective, price, version) ==
  Add(Repriced(effective, price, version), version, "CHANGE", effective,
      ChangeEnd(effective), ChangeNet(effective, price - sub.price))

ConfirmChange ==
  LET moved == draft.changes.start # Keep
      effective == Or(draft.changes.start, draft.effective)
      price == Or(draft.changes.price, sub.price)
      version == sub.version + 1
      changed == [sub EXCEPT !.status = sub.prior, !.version = version, !.price = price,
                             !.customer = Or(draft.changes.customer, @)]
  IN  /\ draft.open /\ draft.kind = "change"
      /\ NeedsAcceptance => draft.accepted
      /\ moved => \A t \in TermTxs : book.txs[t].state # "BOOKED"
      /\ sub' = IF moved THEN [changed EXCEPT !.termStart = effective, !.termEnd = effective + Term]
                ELSE changed
      /\ book' = Register(IF moved THEN MovedBook(effective, price, version)
                          ELSE ChangedBook(effective, price, version), mode)
      /\ versions' = Append(versions, Version(IF moved THEN "move" ELSE "change", effective, price))
      /\ draft' = NoDraft
      /\ UNCHANGED << today, mode, switched >>

-----------------------------------------------------------------------------
(* _confirm_cancel *)

\* _unearned: of what is booked, the days from the effective one on.
Unearned(effective) ==
  SumFunction([t \in { u \in With(book, "BOOKED") : book.txs[u].kind # "CANCEL" } |->
                 ShareOf(book.txs[t].net, book.txs[t].to - Upper(book.txs[t].from, effective),
                         book.txs[t].to - book.txs[t].from)])

\* What is not booked ends on the effective day.
Clipped(tx, effective) ==
  [tx EXCEPT !.net = ShareOf(tx.net, effective - tx.from, tx.to - tx.from), !.to = effective]
EndedBook(effective) ==
  LET later == { t \in Pending(book) : book.txs[t].from >= effective }
      during == { t \in Pending(book) : book.txs[t].from < effective /\ effective < book.txs[t].to }
  IN  Void([book EXCEPT !.txs =
              [t \in DOMAIN @ |-> IF t \in during THEN Clipped(book.txs[t], effective)
                                  ELSE book.txs[t]]],
           later)

ConfirmCancel ==
  LET effective == draft.effective
      credit == Unearned(effective)
      end == Upper(sub.termEnd, effective)
      version == sub.version + 1
  IN  /\ draft.open /\ draft.kind = "cancel"
      /\ credit # 0 => sub.customer \in Payees
      /\ sub' = [sub EXCEPT !.status = "cancelled", !.version = version]
      /\ book' = Register(Add(EndedBook(effective), version, "CANCEL", effective,
                              IF end = effective THEN effective + Period ELSE end, - credit), mode)
      /\ versions' = Append(versions, Version("cancel", effective, 0))
      /\ draft' = NoDraft
      /\ UNCHANGED << today, mode, switched >>

-----------------------------------------------------------------------------
(* _confirm_renew, of a draft or by the renewal job, which opens one and confirms it. *)

Renewed ==
  LET price == sub.price + IndexBy
      version == sub.version + 1
  IN  /\ sub' = [sub EXCEPT !.status = "renewed", !.version = version, !.price = price,
                            !.termStart = sub.termEnd, !.termEnd = sub.termEnd + Term]
      /\ book' = Scheduled(book, mode, version, "RENEW", sub.termEnd, sub.termEnd + Term, price)
      /\ versions' = Append(versions, Version("renew", sub.termEnd, price))

ConfirmRenew ==
  /\ draft.open /\ draft.kind = "renew"
  /\ Renewed
  /\ draft' = NoDraft
  /\ UNCHANGED << today, mode, switched >>

\* run_renewals.
RunRenewals ==
  /\ sub.status \in {"active", "renewed"}
  /\ sub.version < MaxVersions
  /\ Renewable
  /\ Renewed
  /\ draft' = NoDraft
  /\ UNCHANGED << today, mode, switched >>

-----------------------------------------------------------------------------
(* The scheduler and the clock. *)

RunDue(until) ==
  /\ book' = AfterDue(book, mode, until)
  /\ UNCHANGED << today, mode, sub, draft, versions, switched >>

RunNext ==
  /\ With(book, "SCHEDULED") # {}
  /\ book' = AfterNext(book, mode)
  /\ UNCHANGED << today, mode, sub, draft, versions, switched >>

SetMode(m) ==
  /\ m # mode
  /\ mode' = m
  /\ switched' = (book.txs # << >>)
  /\ UNCHANGED << today, sub, draft, versions, book >>

\* DemoClock.freeze and shift: to any day, also an earlier one.
SetClock(day) ==
  /\ today' = day
  /\ UNCHANGED << mode, sub, draft, versions, book, switched >>

Start ==
  \/ \E p \in Prices, c \in Customers, d \in StartDays : Create(p, c, d)
  \/ \E p \in Prices, d \in StartDays : Edit(p, d)
  \/ Submit
  \/ Confirm
Drafting ==
  \/ \E k \in DraftKinds, d \in EffectiveDays, c \in ChangeSets \union {NoChange} : OpenDraft(k, d, c)
  \/ \E d \in EffectiveDays, c \in ChangeSets \union {NoChange} : PatchDraft(d, c)
  \/ AcceptOwnership
  \/ DiscardDraft
  \/ ConfirmChange
  \/ ConfirmCancel
  \/ ConfirmRenew
Scheduling ==
  \/ RunRenewals
  \/ \E d \in EffectiveDays : RunDue(d)
  \/ RunNext
  \/ \E m \in Modes : SetMode(m)
  \/ \E d \in 0 .. MaxDay : SetClock(d)

Next == Start \/ Drafting \/ Scheduling
Spec == Init /\ [][Next]_vars

-----------------------------------------------------------------------------
(* Properties. *)

\* The kinds of values the variables take.
SubStatuses == {"draft", "pending_payment", "active", "renewed", "changing", "cancelled"}
SubHeads == [status : SubStatuses, prior : SubStatuses, version : Nat, price : Nat,
             customer : Customers, termStart : Nat, termEnd : Nat]
NamedChanges == [price : Prices \union {Keep}, customer : Customers \union {Keep},
                 start : StartDays \union {Keep}]
OpenDrafts == [kind : DraftKinds, open : {TRUE}, effective : EffectiveDays, changes : NamedChanges,
               accepted : BOOLEAN]
SubVersions == [cause : {"create", "move", "change", "cancel", "renew"}, from : Nat, price : Nat]
SubTypeOK ==
  /\ today \in Nat /\ mode \in Modes /\ switched \in BOOLEAN
  /\ sub \in {[status |-> "none"]} \union SubHeads
  /\ draft \in {NoDraft} \union OpenDrafts
  /\ versions \in Seq(SubVersions)
  /\ book \in Books

\* A scheduled transaction has exactly one pending job, due when its period starts, and a
\* pending job is a scheduled transaction's: through voiding, ending, rescheduling, changes of
\* the mode and the chain, no transaction is left to be booked twice, late or never.
JobsMatch ==
  /\ \A t \in With(book, "SCHEDULED") :
       LET j == book.txs[t].job
       IN  /\ j \in DOMAIN book.jobs
           /\ book.jobs[j] = [tx |-> t, state |-> "PENDING", due |-> book.txs[t].from]
  /\ \A j \in DOMAIN book.jobs :
       book.jobs[j].state = "PENDING" =>
         /\ book.txs[book.jobs[j].tx].state = "SCHEDULED"
         /\ book.txs[book.jobs[j].tx].job = j

\* A transaction is invoiced once when it is booked, and never otherwise; what was invoiced is
\* still its amount, whatever is changed, ended or renewed later.
InvoicedOnce ==
  \A t \in DOMAIN book.txs :
    LET invoices == { i \in DOMAIN book.invoices : book.invoices[i].tx = t }
    IN  IF book.txs[t].state = "BOOKED"
        THEN \E i \in invoices : invoices = {i} /\ book.invoices[i].net = book.txs[t].net
        ELSE invoices = {}

\* The price per day agreed for a day: the latest version in effect on it; nothing from the
\* day the subscription is ended on.
Closures == { v \in DOMAIN versions : versions[v].cause = "cancel" }
Closed(day) == \E v \in Closures : versions[v].from <= day
Agreed(day) ==
  IF Closed(day) THEN 0
  ELSE versions[Max({ v \in DOMAIN versions \ Closures : versions[v].from <= day })].price

\* The versions took effect in the order they were made, and the start was not moved after a
\* change.
Orderly ==
  \A v, w \in DOMAIN versions \ Closures :
    v < w => /\ versions[v].from <= versions[w].from \/ versions[w].cause = "move"
             /\ versions[w].cause = "move" => versions[v].cause \in {"create", "move"}

\* What is charged in all, booked or to be booked, is what was agreed day by day: the CHANGE
\* transactions, the repriced periods, the credit of a closure and the indexed terms add up,
\* whenever the scheduler booked what, and whenever the closure takes effect.
FirstDay == versions[Max({ v \in DOMAIN versions : versions[v].cause \in {"create", "move"} })].from
ChargedAsAgreed ==
  book.txs # << >> /\ Orderly =>
    SumFunction([t \in Live(book) |-> book.txs[t].net])
      = SumFunction([day \in FirstDay .. sub.termEnd - 1 |-> Agreed(day)])

\* A renewal finds everything before the term's end booked: nothing that happens between the
\* check, when the draft is opened, and its confirmation leaves an earlier charge behind.
RenewedWhenBooked ==
  [][Len(versions') > Len(versions) /\ versions'[Len(versions')].cause = "renew" =>
       \A t \in Live(book) : book.txs[t].from < sub.termEnd => book.txs[t].state = "BOOKED"]_vars

\* While the mode is not switched, the chain does not stall: a transaction that waits without a
\* job waits for one that has one, though the one before it may be booked, voided or ended.
ChainContinues ==
  ~ switched /\ With(book, "INITIAL") # {} => With(book, "SCHEDULED") # {}
=============================================================================
