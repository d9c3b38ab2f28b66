---------------------- MODULE WriteTransaction_proofs ----------------------
(***************************************************************************)
(* Proofs about WriteTransaction, for any number of processes and          *)
(* projects and any number of writes: an open transaction is its           *)
(* process's change of what is committed, so a commit changes a project    *)
(* and appends its row in one step, and the rest follows from that.        *)
(***************************************************************************)
EXTENDS WriteTransaction, FiniteSetTheorems, SequenceTheorems, TLAPS

\* What the two store calls of a body make of the tables, and the row that goes with it.
Both(d, p) == Second(First(d, p), p)
NextRow(log, p, s) == NewRow(NextSeq(log), AuditHead(log, p), p, s, "token", "write", "diff")

\* An open transaction sees what is committed and its own change so far, and the process
\* that has one holds the lock.
WorkOf(s) ==
  /\ phase[s] # "idle" => target[s] \in Projects
  /\ phase[s] \in Open <=> lock = s
  /\ phase[s] \in {"begun", "replayed"} => mydata[s] = data
  /\ phase[s] = "half" => mydata[s] = First(data, target[s])
  /\ phase[s] \in {"changed", "built", "audited"} => mydata[s] = Both(data, target[s])
  /\ phase[s] \in Open \ {"audited"} => myaudit[s] = audit
  /\ phase[s] = "built" => row[s] = NextRow(audit, target[s], s)
  /\ phase[s] = "audited" => myaudit[s] = Append(audit, NextRow(audit, target[s], s))

WorkInv ==
  /\ TypeOK
  /\ DOMAIN myaudit = Processes /\ myaudit = [s \in Processes |-> myaudit[s]]
  /\ DOMAIN row = Processes /\ row = [s \in Processes |-> row[s]]
  /\ \A s \in Processes : WorkOf(s)

LEMMA DataTypes ==
  ASSUME NEW d \in Data, NEW p \in Projects
  PROVE  /\ First(d, p) \in Data
         /\ Both(d, p) \in Data
<1>1. \A e \in Data : First(e, p) \in Data
  BY DEF Data, First
<1>2. \A e \in Data : Second(e, p) \in Data
  BY DEF Data, Second
<1> QED
  BY <1>1, <1>2 DEF Both

\* The changes of a write, project by project.
LEMMA BothAt ==
  ASSUME NEW d \in Data, NEW p \in Projects, NEW q \in Projects
  PROVE  /\ Both(d, p)[q].first = d[q].first + (IF p = q THEN 1 ELSE 0)
         /\ Both(d, p)[q].second = d[q].second + (IF p = q THEN 1 ELSE 0)
<1> DEFINE e == First(d, p)
<1>1. e \in Data
  BY DataTypes
<1>2. /\ e[q].first = d[q].first + (IF p = q THEN 1 ELSE 0)
      /\ e[q].second = d[q].second
  BY DEF Data, First
<1> HIDE DEF e
<1>3. /\ Second(e, p)[q].first = e[q].first
      /\ Second(e, p)[q].second = e[q].second + (IF p = q THEN 1 ELSE 0)
  BY <1>1 DEF Data, Second
<1>4. Both(d, p) = Second(e, p)
  BY DEF Both, e
<1> QED
  BY <1>2, <1>3, <1>4

LEMMA WorkInit == Init => WorkInv
  BY WriteAssumption DEF Init, WorkInv, TypeOK, WorkOf, Data, NoData, Open, Phases

\* The step of one process leaves the others' transactions as they are.
LEMMA WorkStep == WorkInv /\ [Next]_vars => WorkInv'
<1> SUFFICES ASSUME WorkInv, [Next]_vars PROVE WorkInv'
  OBVIOUS
<1> USE WriteAssumption DEF Open, Phases
<1>1. CASE UNCHANGED vars
  BY <1>1 DEF vars, WorkInv, WorkOf, TypeOK
<1>2. ASSUME NEW s \in Processes, NEW p \in Projects, Enter(s, p)
      PROVE  WorkInv'
  BY <1>2 DEF Enter, Goto, WorkInv, WorkOf, TypeOK
<1>3. ASSUME NEW s \in Processes, Begin(s)
      PROVE  WorkInv'
  BY <1>3 DEF Begin, Goto, WorkInv, WorkOf, TypeOK
<1>4. ASSUME NEW s \in Processes, BusyTimeout(s)
      PROVE  WorkInv'
  BY <1>4 DEF BusyTimeout, Goto, WorkInv, WorkOf, TypeOK
<1>5. ASSUME NEW s \in Processes, FirstChange(s)
      PROVE  WorkInv'
  <2>1. target[s] \in Projects /\ data \in Data /\ mydata[s] = data
    BY <1>5 DEF FirstChange, WorkInv, WorkOf, TypeOK
  <2>2. mydata' = [mydata EXCEPT ![s] = First(data, target[s])]
    BY <1>5, <2>1 DEF FirstChange
  <2>3. First(data, target[s]) \in Data
    BY <2>1, DataTypes
  <2> QED
    BY <1>5, <2>2, <2>3 DEF FirstChange, Goto, WorkInv, WorkOf, TypeOK
<1>6. ASSUME NEW s \in Processes, SecondChange(s)
      PROVE  WorkInv'
  <2>1. target[s] \in Projects /\ data \in Data /\ mydata[s] = First(data, target[s])
    BY <1>6 DEF SecondChange, WorkInv, WorkOf, TypeOK
  <2>2. mydata' = [mydata EXCEPT ![s] = Both(data, target[s])]
    BY <1>6, <2>1 DEF SecondChange, Both
  <2>3. Both(data, target[s]) \in Data
    BY <2>1, DataTypes
  <2> QED
    BY <1>6, <2>2, <2>3 DEF SecondChange, Goto, WorkInv, WorkOf, TypeOK
<1>7. ASSUME NEW s \in Processes, Replay(s)
      PROVE  WorkInv'
  BY <1>7 DEF Replay, Goto, WorkInv, WorkOf, TypeOK
<1>8. ASSUME NEW s \in Processes, BuildRow(s)
      PROVE  WorkInv'
  <2>1. row' = [row EXCEPT ![s] = NextRow(audit, target[s], s)]
    BY <1>8 DEF BuildRow, NextRow, WorkInv, WorkOf
  <2> QED
    BY <1>8, <2>1 DEF BuildRow, Goto, WorkInv, WorkOf, TypeOK
<1>9. ASSUME NEW s \in Processes, AppendRow(s)
      PROVE  WorkInv'
  <2>1. myaudit' = [myaudit EXCEPT ![s] = Append(audit, NextRow(audit, target[s], s))]
    BY <1>9 DEF AppendRow, WorkInv, WorkOf
  <2> QED
    BY <1>9, <2>1 DEF AppendRow, Goto, WorkInv, WorkOf, TypeOK
<1>10. ASSUME NEW s \in Processes, Commit(s)
       PROVE  WorkInv'
  <2>1. \A r \in Processes \ {s} : phase[r] \notin Open
    BY <1>10 DEF Commit, WorkInv, WorkOf
  <2>2. mydata[s] \in Data /\ NoData \in Data
    BY DEF WorkInv, TypeOK, NoData, Data
  <2> QED
    BY <1>10, <2>1, <2>2 DEF Commit, Close, Goto, WorkInv, WorkOf, TypeOK
<1>11. ASSUME NEW s \in Processes, Rollback(s)
       PROVE  WorkInv'
  <2>1. NoData \in Data
    BY DEF NoData, Data
  <2> QED
    BY <1>11, <2>1 DEF Rollback, Close, Goto, WorkInv, WorkOf, TypeOK
<1> QED
  BY <1>1, <1>2, <1>3, <1>4, <1>5, <1>6, <1>7, <1>8, <1>9, <1>10, <1>11
  DEF Next, InTransaction

THEOREM WorkCorrect == Spec => []WorkInv
  BY WorkInit, WorkStep, PTL DEF Spec

\* Every variable has its type in every reachable state.
THEOREM TypeCorrect == Spec => []TypeOK
<1>1. WorkInv => TypeOK
  BY DEF WorkInv
<1> QED
  BY <1>1, WorkCorrect, PTL

\* A step commits nothing, or one change with its row.
LEMMA CommitEffect ==
  ASSUME WorkInv, [Next]_vars
  PROVE  \/ UNCHANGED << data, audit >>
         \/ \E p \in Projects, s \in Processes :
              /\ data' = Both(data, p)
              /\ audit' = Append(audit, NextRow(audit, p, s))
<1>1. ASSUME NEW s \in Processes, Commit(s), phase[s] = "replayed"
      PROVE  UNCHANGED << data, audit >>
  BY <1>1 DEF Commit, WorkInv, WorkOf, Open
<1>2. ASSUME NEW s \in Processes, Commit(s), phase[s] = "audited"
      PROVE  /\ target[s] \in Projects
             /\ data' = Both(data, target[s])
             /\ audit' = Append(audit, NextRow(audit, target[s], s))
  BY <1>2 DEF Commit, WorkInv, WorkOf
<1> QED
  BY <1>1, <1>2
  DEF Next, InTransaction, vars, Enter, Begin, BusyTimeout, FirstChange, SecondChange, Replay,
      BuildRow, AppendRow, Commit, Rollback

-----------------------------------------------------------------------------
\* The detailed transaction implements the atomic one.

\* The write of several steps, interrupted and repeated as may be, is the atomic write of
\* AuditedStore: a change appears in the step that appends its row, or not at all.
THEOREM Refinement == Spec => Atomic
<1>1. Init => Abstract!Init
  BY DEF Init, Abstract!Init, NoData
<1>2. WorkInv /\ [Next]_vars => [Abstract!Next]_<< [p \in Projects |-> data[p].second], audit >>
  <2> SUFFICES ASSUME WorkInv, [Next]_vars
               PROVE  [Abstract!Next]_<< [p \in Projects |-> data[p].second], audit >>
    OBVIOUS
  <2>1. CASE UNCHANGED << data, audit >>
    BY <2>1
  <2>2. ASSUME NEW p \in Projects, NEW s \in Processes, data' = Both(data, p),
               audit' = Append(audit, NextRow(audit, p, s))
        PROVE  Abstract!Next
    <3>1. [q \in Projects |-> data'[q].second]
            = [[q \in Projects |-> data[q].second] EXCEPT ![p] = @ + 1]
      <4>1. data \in Data
        BY DEF WorkInv, TypeOK
      <4>2. \A q \in Projects : data'[q].second = data[q].second + (IF p = q THEN 1 ELSE 0)
        BY <4>1, <2>2, BothAt
      <4>3. \A q \in Projects : data[q].second \in Nat
        BY <4>1 DEF Data
      <4> DEFINE f == [q \in Projects |-> data[q].second]
      <4>4. [f EXCEPT ![p] = @ + 1] = [q \in Projects |-> IF p = q THEN f[q] + 1 ELSE f[q]]
        OBVIOUS
      <4>5. \A q \in Projects : data'[q].second = (IF p = q THEN f[q] + 1 ELSE f[q])
        BY <4>2, <4>3
      <4> HIDE DEF f
      <4>6. [q \in Projects |-> data'[q].second] = [f EXCEPT ![p] = @ + 1]
        BY <4>4, <4>5
      <4> QED
        BY <4>6 DEF f
    <3>2. Abstract!Change(p, s)
      BY <2>2, <3>1
      DEF Abstract!Change, Abstract!Record, Abstract!NewRow, Abstract!NextSeq,
          Abstract!AuditHead, Abstract!HashAt, Abstract!RowsOf, Abstract!RowHash,
          Abstract!GENESIS, NextRow, NewRow, NextSeq, AuditHead, HashAt, RowsOf, RowHash, GENESIS
    <3> QED
      BY <3>2 DEF Abstract!Next
  <2> QED
    BY <2>1, <2>2, CommitEffect
<1> QED
  BY <1>1, <1>2, WorkCorrect, PTL DEF Spec, Atomic, Abstract!Spec

-----------------------------------------------------------------------------
\* The log: its rows are numbered 1, 2, ... and each is chained to the newest earlier row
\* of its project; MaxOf says that there is such a newest row.  (That a nonempty set of
\* positions has a largest element is carried along as an invariant of the log.)

IsLog(log) == \E S : log \in Seq(S)

MaxOf(own) == own # {} => \E m \in own : \A j \in own : j <= m

LogInv(log) ==
  /\ IsLog(log)
  /\ \A p \in Projects, n \in 0 .. Len(log) : MaxOf(RowsOf(log, p, n))
  /\ \A i \in 1 .. Len(log) :
       /\ log[i].seq = i
       /\ log[i].prev_hash = HashAt(log, log[i].project, i - 1)
       /\ log[i].row_hash = RowHash(log[i])
       /\ log[i].project \in Projects

\* Appending a row leaves the earlier ones, and what is chained to them, as they are.
LEMMA AppendKeeps ==
  ASSUME NEW log, LogInv(log), NEW r, NEW p \in Projects, NEW n \in 0 .. Len(log)
  PROVE  /\ Len(Append(log, r)) = Len(log) + 1
         /\ Append(log, r)[Len(log) + 1] = r
         /\ \A i \in 1 .. Len(log) : Append(log, r)[i] = log[i]
         /\ IsLog(Append(log, r))
         /\ RowsOf(Append(log, r), p, n) = RowsOf(log, p, n)
         /\ HashAt(Append(log, r), p, n) = HashAt(log, p, n)
<1> DEFINE longer == Append(log, r)
<1>1. PICK S : log \in Seq(S)
  BY DEF LogInv, IsLog
<1>2. log \in Seq(S \cup {r})
  BY <1>1, SeqMonotonic, S \subseteq S \cup {r}
<1>3. /\ longer \in Seq(S \cup {r})
      /\ Len(longer) = Len(log) + 1
      /\ longer[Len(log) + 1] = r
      /\ \A i \in 1 .. Len(log) : longer[i] = log[i]
  BY <1>2
<1>4. Len(log) \in Nat
  BY <1>1
<1>5. RowsOf(longer, p, n) = RowsOf(log, p, n)
  BY <1>3, <1>4 DEF RowsOf
<1>6. HashAt(longer, p, n) = HashAt(log, p, n)
  <2> DEFINE own == RowsOf(log, p, n)
  <2>1. CASE own = {}
    BY <1>5, <2>1 DEF HashAt
  <2>2. CASE own # {}
    <3>1. MaxOf(own)
      BY DEF LogInv
    <3>2. (CHOOSE i \in own : \A j \in own : j <= i) \in own
      BY <2>2, <3>1 DEF MaxOf
    <3>3. own \subseteq 1 .. Len(log)
      BY <1>4 DEF RowsOf
    <3> HIDE DEF own
    <3>4. longer[CHOOSE i \in own : \A j \in own : j <= i]
            = log[CHOOSE i \in own : \A j \in own : j <= i]
      BY <1>3, <3>2, <3>3
    <3> QED
      BY <1>5, <2>2, <3>4 DEF HashAt, own
  <2> QED
    BY <2>1, <2>2
<1> QED
  BY <1>3, <1>5, <1>6 DEF IsLog

\* The row built for a project has the number and the link the log calls for.
LEMMA NextRowFits ==
  ASSUME NEW log, LogInv(log), NEW p \in Projects, NEW s
  PROVE  /\ NextRow(log, p, s).seq = Len(log) + 1
         /\ NextRow(log, p, s).project = p
         /\ NextRow(log, p, s).prev_hash = HashAt(log, p, Len(log))
         /\ NextRow(log, p, s).row_hash = RowHash(NextRow(log, p, s))
<1>1. PICK S : log \in Seq(S)
  BY DEF LogInv, IsLog
<1>2. NextSeq(log) = Len(log) + 1
  <2>1. CASE log = << >>
    BY <2>1 DEF NextSeq
  <2>2. CASE log # << >>
    <3>1. Len(log) \in 1 .. Len(log)
      BY <1>1, <2>2, EmptySeq
    <3> QED
      BY <2>2, <3>1 DEF NextSeq, LogInv
  <2> QED
    BY <2>1, <2>2
<1> QED
  BY <1>2 DEF NextRow, NewRow, RowHash, AuditHead

LEMMA LogStep ==
  ASSUME NEW log, LogInv(log), NEW p \in Projects, NEW s
  PROVE  LogInv(Append(log, NextRow(log, p, s)))
<1> DEFINE r == NextRow(log, p, s)
          longer == Append(log, r)
<1> HIDE DEF r
<1>0. Len(log) \in Nat
  BY DEF LogInv, IsLog
<1>1. /\ r.seq = Len(log) + 1 /\ r.project = p
      /\ r.prev_hash = HashAt(log, p, Len(log)) /\ r.row_hash = RowHash(r)
  BY NextRowFits DEF r
<1>2. /\ Len(longer) = Len(log) + 1 /\ longer[Len(log) + 1] = r
      /\ \A i \in 1 .. Len(log) : longer[i] = log[i]
      /\ IsLog(longer)
  BY <1>0, AppendKeeps
<1>3. \A q \in Projects, n \in 0 .. Len(log) :
        RowsOf(longer, q, n) = RowsOf(log, q, n) /\ HashAt(longer, q, n) = HashAt(log, q, n)
  BY AppendKeeps
<1> HIDE DEF longer
<1>4. ASSUME NEW q \in Projects, NEW n \in 0 .. Len(longer)
      PROVE  MaxOf(RowsOf(longer, q, n))
  <2>1. CASE n \in 0 .. Len(log)
    BY <1>3, <2>1 DEF LogInv
  <2>2. CASE n = Len(log) + 1 /\ q = p
    <3>1. n \in RowsOf(longer, q, n)
      BY <1>0, <1>1, <1>2, <2>2 DEF RowsOf
    <3>2. \A j \in RowsOf(longer, q, n) : j <= n
      BY <1>0, <2>2 DEF RowsOf
    <3> QED
      BY <3>1, <3>2 DEF MaxOf
  <2>3. CASE n = Len(log) + 1 /\ q # p
    <3>1. RowsOf(longer, q, n) = RowsOf(longer, q, Len(log))
      BY <1>0, <1>1, <1>2, <2>3 DEF RowsOf
    <3> QED
      BY <1>0, <1>3, <3>1 DEF LogInv
  <2> QED
    BY <1>0, <1>2, <2>1, <2>2, <2>3
<1>5. ASSUME NEW i \in 1 .. Len(longer)
      PROVE  /\ longer[i].seq = i
             /\ longer[i].prev_hash = HashAt(longer, longer[i].project, i - 1)
             /\ longer[i].row_hash = RowHash(longer[i])
             /\ longer[i].project \in Projects
  <2>1. CASE i \in 1 .. Len(log)
    <3>1. i - 1 \in 0 .. Len(log) /\ longer[i] = log[i] /\ log[i].project \in Projects
      BY <1>0, <1>2, <2>1 DEF LogInv
    <3>2. HashAt(longer, log[i].project, i - 1) = HashAt(log, log[i].project, i - 1)
      BY <1>3, <3>1
    <3> QED
      BY <2>1, <3>1, <3>2 DEF LogInv
  <2>2. CASE i = Len(log) + 1
    <3>1. longer[i] = r /\ i - 1 = Len(log)
      BY <1>0, <1>2, <2>2
    <3>2. HashAt(longer, p, Len(log)) = HashAt(log, p, Len(log))
      BY <1>0, <1>3
    <3> QED
      BY <1>1, <2>2, <3>1, <3>2
  <2> QED
    BY <1>0, <1>2, <2>1, <2>2
<1>6. LogInv(longer)
  BY <1>2, <1>4, <1>5 DEF LogInv
<1> QED
  BY <1>6 DEF longer, r

LEMMA EmptyLog == LogInv(<< >>)
<1>1. IsLog(<< >>) /\ Len(<< >>) = 0
  BY EmptySeq DEF IsLog
<1>2. \A p \in Projects, n \in 0 .. Len(<< >>) : RowsOf(<< >>, p, n) = {}
  BY <1>1 DEF RowsOf
<1> QED
  BY <1>1, <1>2 DEF LogInv, MaxOf

THEOREM LogCorrect == Spec => []LogInv(audit)
<1>1. Init => LogInv(audit)
  BY EmptyLog DEF Init
<1>2. WorkInv /\ LogInv(audit) /\ [Next]_vars => LogInv(audit)'
  <2> SUFFICES ASSUME WorkInv, LogInv(audit), [Next]_vars PROVE LogInv(audit')
    BY DEF LogInv, IsLog, RowsOf, HashAt, RowHash
  <2> QED
    BY CommitEffect, LogStep
<1> QED
  BY <1>1, <1>2, WorkCorrect, PTL DEF Spec

\* The chain of every project verifies in every reachable state: no two processes chain a
\* row to the same head or take the same number.
THEOREM ChainsAlwaysVerify == Spec => []ChainsVerify
<1>1. LogInv(audit) => ChainsVerify
  <2> SUFFICES ASSUME LogInv(audit), NEW p \in Projects, NEW i \in RowsOf(audit, p, Len(audit))
               PROVE  ~RowIsBad(audit, p, i)
    BY DEF ChainsVerify, VerifyChain, BadRows
  <2>1. Len(audit) \in Nat
    BY DEF LogInv, IsLog
  <2>2. i \in 1 .. Len(audit) /\ audit[i].project = p /\ i - 1 \in 0 .. Len(audit)
    BY <2>1 DEF RowsOf
  <2>3. SeqAt(audit, p, i - 1) \in 0 .. (i - 1)
    <3> DEFINE own == RowsOf(audit, p, i - 1)
    <3>1. CASE own = {}
      BY <2>1, <2>2, <3>1 DEF SeqAt
    <3>2. CASE own # {}
      <4>1. MaxOf(own)
        BY <2>2 DEF LogInv
      <4>2. PICK m \in own : m = CHOOSE k \in own : \A j \in own : j <= k
        BY <3>2, <4>1 DEF MaxOf
      <4>3. m \in 1 .. (i - 1)
        BY DEF RowsOf
      <4>4. SeqAt(audit, p, i - 1) = audit[m].seq
        BY <3>2, <4>2 DEF SeqAt
      <4>5. audit[m].seq = m
        BY <2>1, <2>2, <4>3 DEF LogInv
      <4> QED
        BY <2>2, <4>3, <4>4, <4>5
    <3> QED
      BY <3>1, <3>2
  <2>4. /\ audit[i].seq = i
        /\ audit[i].prev_hash = HashAt(audit, p, i - 1)
        /\ audit[i].row_hash = RowHash(audit[i])
    BY <2>2 DEF LogInv
  <2>5. ~(audit[i].seq <= SeqAt(audit, p, i - 1))
    BY <2>2, <2>3, <2>4
  <2> QED
    BY <2>4, <2>5 DEF RowIsBad
<1> QED
  BY <1>1, LogCorrect, PTL

-----------------------------------------------------------------------------
\* Appending a project's row adds one to its rows and none to another project's.
LEMMA CountRows ==
  ASSUME NEW log, LogInv(log), NEW p \in Projects, NEW q \in Projects, NEW s
  PROVE  LET longer == Append(log, NextRow(log, p, s))
         IN  /\ Cardinality(RowsOf(longer, q, Len(longer)))
                  = Cardinality(RowsOf(log, q, Len(log))) + (IF p = q THEN 1 ELSE 0)
             /\ Cardinality(RowsOf(log, q, Len(log))) \in Nat
<1> DEFINE r == NextRow(log, p, s)
          longer == Append(log, r)
          own == RowsOf(log, q, Len(log))
<1>0. Len(log) \in Nat
  BY DEF LogInv, IsLog
<1>1. r.project = p
  BY NextRowFits
<1>2. Len(longer) = Len(log) + 1 /\ longer[Len(log) + 1] = r
      /\ \A i \in 1 .. Len(log) : longer[i] = log[i]
  BY <1>0, AppendKeeps
<1> HIDE DEF r, longer
<1>3. RowsOf(longer, q, Len(longer)) = IF p = q THEN own \cup {Len(log) + 1} ELSE own
  BY <1>0, <1>1, <1>2 DEF RowsOf
<1>4. own \in SUBSET (1 .. Len(log))
  BY DEF RowsOf
<1>5. IsFiniteSet(1 .. Len(log))
  BY <1>0, FS_Interval
<1>6. IsFiniteSet(own) /\ Len(log) + 1 \notin own
  BY <1>0, <1>4, <1>5, FS_Subset
<1>7. Cardinality(own) \in Nat
  BY <1>6, FS_CardinalityType
<1>8. Cardinality(own \cup {Len(log) + 1}) = Cardinality(own) + 1
  BY <1>6, FS_AddElement
<1> QED
  BY <1>3, <1>7, <1>8 DEF r, longer

\* A committed change has exactly one row, and a row its change: the tables a write touches
\* agree with each other and with the number of rows in every reachable state.
THEOREM OneRowForEachChange == Spec => []OneRowPerChange
<1>1. Init => OneRowPerChange
  <2>1. ASSUME NEW p \in Projects PROVE Cardinality(RowsOf(<< >>, p, Len(<< >>))) = 0
    <3>1. RowsOf(<< >>, p, Len(<< >>)) = {}
      BY EmptySeq DEF RowsOf
    <3> QED
      BY <3>1, FS_EmptySet
  <2> QED
    BY <2>1 DEF Init, OneRowPerChange, NoData
<1>2. WorkInv /\ LogInv(audit) /\ OneRowPerChange /\ [Next]_vars => OneRowPerChange'
  <2> SUFFICES ASSUME WorkInv, LogInv(audit), OneRowPerChange, [Next]_vars
               PROVE  OneRowPerChange'
    OBVIOUS
  <2>1. CASE UNCHANGED << data, audit >>
    BY <2>1 DEF OneRowPerChange, RowsOf
  <2>2. ASSUME NEW p \in Projects, NEW s \in Processes, data' = Both(data, p),
               audit' = Append(audit, NextRow(audit, p, s))
        PROVE  OneRowPerChange'
    <3> SUFFICES ASSUME NEW q \in Projects
                 PROVE  /\ data'[q].first = data'[q].second
                        /\ data'[q].first = Cardinality(RowsOf(audit', q, Len(audit')))
      BY DEF OneRowPerChange, RowsOf
    <3>1. /\ data'[q].first = data[q].first + (IF p = q THEN 1 ELSE 0)
          /\ data'[q].second = data[q].second + (IF p = q THEN 1 ELSE 0)
      BY <2>2, BothAt DEF WorkInv, TypeOK
    <3>2. Cardinality(RowsOf(audit', q, Len(audit')))
            = Cardinality(RowsOf(audit, q, Len(audit))) + (IF p = q THEN 1 ELSE 0)
      BY <2>2, CountRows
    <3> QED
      BY <3>1, <3>2 DEF OneRowPerChange
  <2> QED
    BY <2>1, <2>2, CommitEffect
<1> QED
  BY <1>1, <1>2, WorkCorrect, LogCorrect, PTL DEF Spec

=============================================================================
