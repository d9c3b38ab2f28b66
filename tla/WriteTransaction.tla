-------------------------- MODULE WriteTransaction --------------------------
(***************************************************************************)
(* The write transaction of the results platform: PlatformService._write   *)
(* around SqliteResultsStore.transaction, by several processes on one      *)
(* SQLite file.                                                            *)
(*                                                                         *)
(* BEGIN IMMEDIATE takes the file's write lock or waits for it, up to the  *)
(* busy timeout.  Inside, the handler's body makes its changes through     *)
(* store methods that open transactions of their own, which join the open  *)
(* one; then audit.record reads the head of the project's chain, builds    *)
(* the row and appends it; then COMMIT.  What an open transaction has      *)
(* written is seen by nobody else.  An exception rolls it back, and so     *)
(* does the database when the process is gone.                             *)
(*                                                                         *)
(* A definition named Faulty... is what a mistake in the code would make   *)
(* of the one below it; no action uses it.                                 *)
(***************************************************************************)
EXTENDS AuditLog, FiniteSets

CONSTANTS
  Projects,
  Processes,
  Nobody,     \* no process holds the lock
  NoProject,  \* no write under way
  NoRow       \* no audit row built yet

ASSUME WriteAssumption == Nobody \notin Processes /\ NoProject \notin Projects

VARIABLES
  data,     \* committed: what was done to each project, table by table
  audit,    \* committed: the audit log
  lock,     \* the process that holds the write lock
  phase,    \* where each process is in _write
  target,   \* the project each process writes to
  mydata,   \* data as an open transaction sees it ...
  myaudit,  \* ... and the audit log
  row       \* the audit row built, not yet appended

vars == << data, audit, lock, phase, target, mydata, myaudit, row >>

\* A change touches two tables (a binding and tokens, test cases and results); data counts
\* what was done to each of them.
Data == [Projects -> [first : Nat, second : Nat]]
First(d, p) == [d EXCEPT ![p].first = @ + 1]
Second(d, p) == [d EXCEPT ![p].second = @ + 1]
NoData == [p \in Projects |-> [first |-> 0, second |-> 0]]

Open == {"begun", "half", "changed", "built", "audited", "replayed"}
Phases == {"idle", "waiting"} \cup Open

TypeOK ==
  /\ data \in Data
  /\ lock \in Processes \cup {Nobody}
  /\ phase \in [Processes -> Phases]
  /\ target \in [Processes -> Projects \cup {NoProject}]
  /\ mydata \in [Processes -> Data]

Init ==
  /\ data = NoData
  /\ audit = << >>
  /\ lock = Nobody
  /\ phase = [s \in Processes |-> "idle"]
  /\ target = [s \in Processes |-> NoProject]
  /\ mydata = [s \in Processes |-> NoData]
  /\ myaudit = [s \in Processes |-> << >>]
  /\ row = [s \in Processes |-> NoRow]

-----------------------------------------------------------------------------
Goto(s, there) == phase' = [phase EXCEPT ![s] = there]

\* A handler has passed its checks and enters the transaction.
Enter(s, p) ==
  /\ phase[s] = "idle"
  /\ Goto(s, "waiting")
  /\ target' = [target EXCEPT ![s] = p]
  /\ UNCHANGED << data, audit, lock, mydata, myaudit, row >>

\* BEGIN IMMEDIATE.
Begin(s) ==
  /\ phase[s] = "waiting" /\ lock = Nobody
  /\ lock' = s
  /\ mydata' = [mydata EXCEPT ![s] = data]
  /\ myaudit' = [myaudit EXCEPT ![s] = audit]
  /\ Goto(s, "begun")
  /\ UNCHANGED << data, audit, target, row >>

\* The busy timeout passes while another process holds the lock.
FaultyBusyTimeout(s) == FALSE /\ UNCHANGED vars
BusyTimeout(s) ==
  /\ phase[s] = "waiting" /\ lock # Nobody
  /\ Goto(s, "idle")
  /\ target' = [target EXCEPT ![s] = NoProject]
  /\ UNCHANGED << data, audit, lock, mydata, myaudit, row >>

\* The body's first store call, whose own transaction joins the open one ...
FirstChange(s) ==
  /\ phase[s] = "begun"
  /\ mydata' = [mydata EXCEPT ![s] = First(mydata[s], target[s])]
  /\ Goto(s, "half")
  /\ UNCHANGED << data, audit, lock, target, myaudit, row >>

\* ... and its second.
SecondChange(s) ==
  /\ phase[s] = "half"
  /\ mydata' = [mydata EXCEPT ![s] = Second(mydata[s], target[s])]
  /\ Goto(s, "changed")
  /\ UNCHANGED << data, audit, lock, target, myaudit, row >>

\* The body finds the write already done: it leaves diff empty, and there is no row.
Replay(s) ==
  /\ phase[s] = "begun"
  /\ Goto(s, "replayed")
  /\ UNCHANGED << data, audit, lock, target, mydata, myaudit, row >>

\* audit.record reads the head and the next number inside the transaction ...
BuildRow(s) ==
  /\ phase[s] = "changed"
  /\ row' = [row EXCEPT ![s] = NewRow(NextSeq(myaudit[s]), AuditHead(myaudit[s], target[s]),
                                      target[s], s, "token", "write", "diff")]
  /\ Goto(s, "built")
  /\ UNCHANGED << data, audit, lock, target, mydata, myaudit >>

\* ... and inserts the row.
AppendRow(s) ==
  /\ phase[s] = "built"
  /\ myaudit' = [myaudit EXCEPT ![s] = Append(myaudit[s], row[s])]
  /\ row' = [row EXCEPT ![s] = NoRow]
  /\ Goto(s, "audited")
  /\ UNCHANGED << data, audit, lock, target, mydata >>

Close(s) ==
  /\ lock' = Nobody
  /\ Goto(s, "idle")
  /\ target' = [target EXCEPT ![s] = NoProject]
  /\ row' = [row EXCEPT ![s] = NoRow]
  /\ mydata' = [mydata EXCEPT ![s] = NoData]
  /\ myaudit' = [myaudit EXCEPT ![s] = << >>]

\* COMMIT.
Commit(s) ==
  /\ phase[s] \in {"audited", "replayed"}
  /\ data' = mydata[s]
  /\ audit' = myaudit[s]
  /\ Close(s)

\* An exception in the body or in the audit row, or the process gone before COMMIT.
\* (FaultyRollback: the exception is swallowed, and what was done is committed.)
FaultyRollback(s) ==
  /\ phase[s] \in Open
  /\ data' = mydata[s]
  /\ audit' = myaudit[s]
  /\ Close(s)

Rollback(s) ==
  /\ phase[s] \in Open
  /\ Close(s)
  /\ UNCHANGED << data, audit >>

InTransaction(s) ==
  \/ FirstChange(s) \/ SecondChange(s) \/ Replay(s)
  \/ BuildRow(s) \/ AppendRow(s)
  \/ Commit(s)

Next ==
  \E s \in Processes :
    \/ \E p \in Projects : Enter(s, p)
    \/ Begin(s) \/ BusyTimeout(s)
    \/ InTransaction(s)
    \/ Rollback(s)

Spec == Init /\ [][Next]_vars

\* A process goes on with what it has begun, and a waiting one gets the lock or its timeout.
Fairness ==
  \A s \in Processes : WF_vars(InTransaction(s)) /\ WF_vars(Begin(s) \/ BusyTimeout(s))

FairSpec == Spec /\ Fairness

-----------------------------------------------------------------------------
\* "A change without its audit row cannot commit and an audit row without its change cannot
\* exist" (qaplatform/audit.py:3-5): the committed tables agree with each other and with
\* the number of rows of the project, whatever was rolled back and whoever wrote meanwhile.
OneRowPerChange ==
  \A p \in Projects :
    /\ data[p].first = data[p].second
    /\ data[p].first = Cardinality(RowsOf(audit, p, Len(audit)))

\* Every project's chain verifies as committed: two processes never chain two rows to the
\* same head, nor take the same number.
ChainsVerify == \A p \in Projects : VerifyChain(audit, p).ok

\* The detailed transaction implements the atomic one.
Abstract == INSTANCE AuditedStore
              WITH Actors <- Processes, audit <- audit,
                   changes <- [p \in Projects |-> data[p].second]
Atomic == Abstract!Spec

\* No process keeps the others out for ever, and every write ends, with or without success.
EveryWriteEnds == \A s \in Processes : phase[s] # "idle" ~> phase[s] = "idle"

=============================================================================
