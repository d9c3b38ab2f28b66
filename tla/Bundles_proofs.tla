--------------------------- MODULE Bundles_proofs ---------------------------
(***************************************************************************)
(* Proofs about Bundles, for any jobs, tests, selections and bounds: of    *)
(* the recorder, over any number of sessions that end, crash, fail to      *)
(* write or fail to start, and of the platform, over any imports.          *)
(***************************************************************************)
EXTENDS Bundles, FiniteLemmas, SequenceTheorems

-----------------------------------------------------------------------------
(* The invariant. *)

IsRow(r) ==
  /\ r.test \in Tests /\ r.attempt \in Nat /\ r.inv \in Nat
  /\ r.told[2] \in Nat

IsRun(run) ==
  /\ DOMAIN run = {"status", "invocations", "results"}
  /\ Seqs(run) \subseteq Nat /\ IsFiniteSet(Seqs(run))
  /\ IsFiniteSet(run.results)
  /\ \A r \in run.results : IsRow(r) /\ r.inv \in Seqs(run)

\* An attempt of a test is stored once.
Unique(rows) ==
  \A r, s \in rows : r.test = s.test /\ r.attempt = s.attempt => r = s

\* What is stored or buffered, while the invocation seq has made attempts[t] attempts of each
\* test, and there were offsets[t] before it: its rows are numbered from there without a gap.
Numbered(rows, seq, offsets, attempts) ==
  /\ Unique(rows)
  /\ \A r \in rows :
       IF r.inv = seq
       THEN r.told[2] \in 1 .. attempts[r.test] /\ r.attempt = offsets[r.test] + r.told[2]
       ELSE r.attempt <= offsets[r.test]
  /\ \A t \in Tests : \A n \in 1 .. attempts[t] :
       \E r \in rows : r.test = t /\ r.inv = seq /\ r.told[2] = n

IsSession(run, rec) ==
  /\ rec.seq \in Seqs(run)
  /\ rec.selected \subseteq Tests /\ rec.running \subseteq rec.selected
  /\ rec.offsets \in [Tests -> Nat] /\ rec.attempts \in [Tests -> Nat]
  /\ IsFiniteSet(rec.buffer)
  /\ \A r \in rec.buffer : IsRow(r) /\ r.inv = rec.seq /\ r \notin run.results
  /\ Numbered(run.results \cup rec.buffer, rec.seq, rec.offsets, rec.attempts)

IsRecorder(rec) ==
  DOMAIN rec = {"open", "seq", "selected", "offsets", "running", "attempts", "buffer"}

Whole(run, seq, t) ==
  LET rows == { r \in Of(run, t) : r.inv = seq }
  IN  /\ MaxAttempt(run, t) \in { r.attempt : r \in rows }
      /\ { r.told[2] : r \in rows } = 1 .. Cardinality(rows)

JobInv(run, rec) ==
  /\ IsRun(run) /\ IsRecorder(rec) /\ rec.open \in BOOLEAN
  /\ Unique(run.results)
  /\ rec.open => IsSession(run, rec) /\ run.status = "running"
  /\ run.status = "finished" => \A t \in rec.selected : Whole(run, rec.seq, t)

BundlesInv ==
  /\ store = [j \in Jobs |-> store[j]] /\ recorder = [j \in Jobs |-> recorder[j]]
  /\ \A j \in Jobs : JobInv(store[j], recorder[j])

-----------------------------------------------------------------------------
(* What the helpers of Bundles return. *)

LEMMA LargestOf ==
  ASSUME NEW S \in SUBSET Nat, IsFiniteSet(S)
  PROVE  /\ Largest(S) \in Nat /\ Largest(S) \in S \cup {0}
         /\ \A x \in S : x <= Largest(S)
<1> DEFINE T == S \cup {0}
<1>1. IsFiniteSet(T) /\ T \in SUBSET Int /\ T # {}
  BY FS_AddElement
<1>2. T \subseteq Nat /\ S \subseteq T
  OBVIOUS
<1> HIDE DEF T
<1>3. Max(T) \in T /\ \A x \in T : x <= Max(T)
  BY <1>1, MaxAndMin
<1>4. Largest(S) = Max(T)
  BY DEF Largest, T
<1> QED
  BY <1>2, <1>3, <1>4 DEF T

LEMMA LastAttempt ==
  ASSUME NEW run, IsRun(run), NEW t
  PROVE  /\ MaxAttempt(run, t) \in Nat
         /\ MaxAttempt(run, t) \in { r.attempt : r \in Of(run, t) } \cup {0}
         /\ \A r \in Of(run, t) : r.attempt <= MaxAttempt(run, t)
<1> DEFINE A == { r.attempt : r \in Of(run, t) }
<1>1. A \subseteq Nat
  BY DEF IsRun, IsRow, Of
<1>2. IsFiniteSet(A)
  <2>1. IsFiniteSet(Of(run, t))
    BY FS_Subset DEF IsRun, Of
  <2> DEFINE f == [r \in Of(run, t) |-> r.attempt]
  <2>2. f \in Surjection(Of(run, t), A)
    BY DEF Surjection
  <2> QED
    BY <2>1, <2>2, FS_Surjection
<1>3. MaxAttempt(run, t) = Largest(A)
  BY DEF MaxAttempt
<1>4. \A r \in Of(run, t) : r.attempt \in A
  OBVIOUS
<1> HIDE DEF A
<1>5. Largest(A) \in Nat /\ Largest(A) \in A \cup {0} /\ \A x \in A : x <= Largest(A)
  BY <1>1, <1>2, LargestOf
<1> QED
  BY <1>3, <1>4, <1>5 DEF A

LEMMA NewSeq ==
  ASSUME NEW run, IsRun(run)
  PROVE  NextSeq(run) \in Nat /\ NextSeq(run) \notin Seqs(run)
  BY LargestOf DEF IsRun, NextSeq

\* Nothing stands in the way of rows with keys of their own.
LEMMA AllAreStored ==
  ASSUME NEW run, IsRun(run), NEW rows, \A r \in rows : IsRow(r),
         Unique(run.results \cup rows), rows \cap run.results = {}
  PROVE  Stored(run, rows) = [run EXCEPT !.results = run.results \cup rows]
<1>1. \A r \in rows : Free(run, r)
  BY DEF Free, Of, Unique
<1>2. { r \in rows : Free(run, r) } = rows
  BY <1>1
<1> QED
  BY <1>2 DEF Stored

-----------------------------------------------------------------------------
(* The numbering. *)

\* The next row of some tests.
NextRows(U, seq, start, offsets, attempts) ==
  { [test |-> t, attempt |-> offsets[t] + (attempts[t] + 1), inv |-> seq,
     told |-> << start, attempts[t] + 1 >>] : t \in U }

LEMMA RowsAreFew ==
  ASSUME NEW U \in SUBSET Tests, NEW seq, NEW start, NEW offsets, NEW attempts
  PROVE  IsFiniteSet(NextRows(U, seq, start, offsets, attempts))
<1> DEFINE f == [t \in U |-> [test |-> t, attempt |-> offsets[t] + (attempts[t] + 1), inv |-> seq,
                              told |-> << start, attempts[t] + 1 >>]]
<1>1. IsFiniteSet(U)
  BY FS_Subset, BundlesAssumption
<1>2. f \in Surjection(U, NextRows(U, seq, start, offsets, attempts))
  BY DEF Surjection, NextRows
<1> QED
  BY <1>1, <1>2, FS_Surjection

LEMMA RowsAreNew ==
  ASSUME NEW rows, NEW seq \in Nat, NEW start, NEW offsets \in [Tests -> Nat], NEW attempts \in [Tests -> Nat],
         \A r \in rows : IsRow(r),
         Numbered(rows, seq, offsets, attempts), NEW U \in SUBSET Tests,
         NEW new, new = NextRows(U, seq, start, offsets, attempts)
  PROVE  /\ \A r \in new : IsRow(r) /\ r.inv = seq /\ r \notin rows
         /\ \A r \in new : \E t \in U : r.test = t
         /\ \A t \in U : \E r \in new :
              /\ r.test = t /\ r.told[2] = attempts[t] + 1
              /\ r.attempt = offsets[t] + attempts[t] + 1
              /\ \A q \in new : q.test = t => q = r
<1> DEFINE row(t) == [test |-> t, attempt |-> offsets[t] + (attempts[t] + 1), inv |-> seq,
                      told |-> << start, attempts[t] + 1 >>]
<1>1. \A r \in new : \E t \in U : r = row(t)
  BY DEF NextRows
<1>2. ASSUME NEW t \in U
      PROVE  /\ row(t) \in new /\ row(t).test = t /\ row(t).inv = seq
             /\ row(t).attempt = offsets[t] + attempts[t] + 1
             /\ row(t).told[2] = attempts[t] + 1 /\ IsRow(row(t))
  <2>1. row(t) \in new
    BY DEF NextRows
  <2>2. /\ row(t).test = t /\ row(t).inv = seq
        /\ row(t).attempt = offsets[t] + (attempts[t] + 1)
        /\ row(t).told = << start, attempts[t] + 1 >>
    OBVIOUS
  <2>3. attempts[t] \in Nat /\ offsets[t] \in Nat /\ t \in Tests
    OBVIOUS
  <2> HIDE DEF row
  <2> QED
    BY <2>1, <2>2, <2>3 DEF IsRow
<1> HIDE DEF row
<1>3. \A r \in rows : r.test \in Tests /\ r.attempt \in Nat /\ r.attempt <= offsets[r.test] + attempts[r.test]
  BY DEF Numbered, IsRow
<1>4. \A r \in new : IsRow(r) /\ r.inv = seq /\ r \notin rows
  BY <1>1, <1>2, <1>3
<1>5. \A r \in new : \E t \in U : r.test = t
  BY <1>1, <1>2
<1>6. ASSUME NEW t \in U
      PROVE  \E r \in new :
               /\ r.test = t /\ r.told[2] = attempts[t] + 1
               /\ r.attempt = offsets[t] + attempts[t] + 1
               /\ \A q \in new : q.test = t => q = r
  BY <1>1, <1>2
<1> QED
  BY <1>4, <1>5, <1>6

LEMMA NumberedFurther ==
  ASSUME NEW rows, NEW seq \in Nat, NEW start, NEW offsets \in [Tests -> Nat], NEW attempts \in [Tests -> Nat],
         \A r \in rows : IsRow(r),
         Numbered(rows, seq, offsets, attempts), NEW U \in SUBSET Tests,
         NEW new, new = NextRows(U, seq, start, offsets, attempts),
         NEW then, \A t \in Tests : then[t] = IF t \in U THEN attempts[t] + 1 ELSE attempts[t]
  PROVE  Numbered(rows \cup new, seq, offsets, then)
<1>1. /\ \A r \in new : IsRow(r) /\ r.inv = seq /\ r.test \in U
      /\ \A t \in U : \E r \in new :
           /\ r.test = t /\ r.told[2] = attempts[t] + 1
           /\ r.attempt = offsets[t] + attempts[t] + 1
           /\ \A q \in new : q.test = t => q = r
  BY RowsAreNew
<1>2. /\ \A r \in new : /\ r.attempt = offsets[r.test] + attempts[r.test] + 1
                         /\ r.told[2] = attempts[r.test] + 1
      /\ \A q, r \in new : q.test = r.test => q = r
  BY <1>1
<1>3. \A r \in rows : /\ r.test \in Tests /\ r.attempt \in Nat /\ r.told[2] \in Nat
                      /\ r.attempt <= offsets[r.test] + attempts[r.test]
                      /\ r.inv = seq => r.attempt = offsets[r.test] + r.told[2]
                      /\ r.inv = seq => r.told[2] \in 1 .. attempts[r.test]
                      /\ r.inv # seq => r.attempt <= offsets[r.test]
  BY DEF Numbered, IsRow
<1>4. Unique(rows \cup new)
  <2>1. Unique(rows)
    BY DEF Numbered
  <2> QED
    BY <1>1, <1>2, <1>3, <2>1 DEF Unique
<1>5. ASSUME NEW r \in rows \cup new
      PROVE  IF r.inv = seq
             THEN r.told[2] \in 1 .. then[r.test] /\ r.attempt = offsets[r.test] + r.told[2]
             ELSE r.attempt <= offsets[r.test]
  <2>1. CASE r \in rows
    BY <1>3, <2>1
  <2>2. CASE r \in new
    BY <1>1, <1>2, <2>2
  <2> QED
    BY <2>1, <2>2
<1>6. ASSUME NEW t \in Tests, NEW n \in 1 .. then[t]
      PROVE  \E r \in rows \cup new : r.test = t /\ r.inv = seq /\ r.told[2] = n
  <2>1. CASE n \in 1 .. attempts[t]
    BY <2>1 DEF Numbered
  <2>2. CASE n \notin 1 .. attempts[t]
    <3>1. t \in U /\ n = attempts[t] + 1
      BY <2>2
    <3> QED
      BY <3>1, <1>1
  <2> QED
    BY <2>1, <2>2
<1> QED
  BY <1>4, <1>5, <1>6 DEF Numbered

\* All rows of a session with attempts from 1 on, the last of them the last of the test.
LEMMA NumberedIsWhole ==
  ASSUME NEW run, IsRun(run), NEW seq, NEW offsets \in [Tests -> Nat], NEW attempts \in [Tests -> Nat],
         Numbered(run.results, seq, offsets, attempts), NEW t \in Tests, attempts[t] > 0
  PROVE  Whole(run, seq, t)
<1> DEFINE rows == { r \in Of(run, t) : r.inv = seq }
<1>1. \A r \in Of(run, t) : r \in run.results /\ r.test = t /\ IsRow(r)
  BY DEF Of, IsRun
<1>2. \A r \in rows : /\ r \in Of(run, t) /\ r.told[2] \in 1 .. attempts[t]
                      /\ r.attempt = offsets[t] + r.told[2]
  BY <1>1 DEF Numbered
<1>3. \A n \in 1 .. attempts[t] : \E r \in rows : r.told[2] = n
  BY DEF Numbered, Of
<1>4. \A r \in Of(run, t) : r.attempt <= offsets[t] + attempts[t]
  BY <1>1 DEF Numbered, IsRow
<1>5. PICK last \in rows : last.told[2] = attempts[t]
  BY <1>3
<1>6. MaxAttempt(run, t) = last.attempt
  <2>1. last \in Of(run, t) /\ last.attempt = offsets[t] + attempts[t]
    BY <1>2, <1>5
  <2> QED
    BY <2>1, <1>4, LastAttempt, <1>1 DEF IsRow
<1>7. { r.told[2] : r \in rows } = 1 .. attempts[t]
  BY <1>2, <1>3
<1>8. Cardinality(rows) = attempts[t]
  <2> DEFINE f == [r \in rows |-> r.told[2]]
  <2>1. f \in Surjection(rows, 1 .. attempts[t])
    BY <1>2, <1>3 DEF Surjection
  <2>2. f \in Injection(rows, 1 .. attempts[t])
    <3>1. \A r, s \in rows : r.told[2] = s.told[2] => r = s
      BY <1>1, <1>2 DEF Numbered, Unique
    <3> QED
      BY <1>2, <3>1 DEF Injection, IsInjective
  <2>3. IsFiniteSet(1 .. attempts[t]) /\ Cardinality(1 .. attempts[t]) = attempts[t]
    BY FS_Interval
  <2> HIDE DEF f
  <2> QED
    BY <2>1, <2>2, <2>3, FS_Injection
<1> QED
  BY <1>5, <1>6, <1>7, <1>8 DEF Whole

-----------------------------------------------------------------------------
(* The steps of one job. *)

LEMMA SessionStarted ==
  ASSUME NEW run, NEW rec, JobInv(run, rec), NEW selected \in SUBSET Tests, NEW start
  PROVE  LET seq == NextSeq(run)
         IN  JobInv([BeginRun(run) EXCEPT !.invocations = Extended(run.invocations, seq, start)],
                    [NoSession EXCEPT !.open = TRUE, !.seq = seq, !.selected = selected,
                                      !.offsets = [t \in Tests |-> MaxAttempt(run, t)],
                                      !.attempts = [t \in Tests |-> 0]])
<1> DEFINE seq == NextSeq(run)
           offsets == [t \in Tests |-> MaxAttempt(run, t)]
           none == [t \in Tests |-> 0]
           run2 == [BeginRun(run) EXCEPT !.invocations = Extended(run.invocations, seq, start)]
           rec2 == [NoSession EXCEPT !.open = TRUE, !.seq = seq, !.selected = selected,
                                     !.offsets = offsets, !.attempts = none]
<1>1. IsRun(run) /\ Unique(run.results)
  BY DEF JobInv
<1>2. seq \in Nat /\ seq \notin Seqs(run)
  BY <1>1, NewSeq
<1>3. /\ DOMAIN run2 = {"status", "invocations", "results"}
      /\ run2.status = "running" /\ run2.results = run.results
      /\ run2.invocations = Extended(run.invocations, seq, start)
  BY <1>1 DEF BeginRun, IsRun
<1>4. Seqs(run2) = Seqs(run) \cup {seq}
  BY <1>3 DEF Seqs, Extended
<1>5. /\ IsRecorder(rec2) /\ rec2.open = TRUE
      /\ rec2.seq = seq /\ rec2.selected = selected /\ rec2.offsets = offsets /\ rec2.running = {}
      /\ rec2.attempts = none /\ rec2.buffer = {}
  BY DEF NoSession, IsRecorder
<1>6. offsets \in [Tests -> Nat] /\ none \in [Tests -> Nat]
  BY <1>1, LastAttempt
<1>7. Numbered(run.results, seq, offsets, none)
  <2>1. \A r \in run.results : r.test \in Tests /\ r.inv # seq /\ r \in Of(run, r.test)
    BY <1>1, <1>2 DEF IsRun, IsRow, Of
  <2>2. \A r \in run.results : r.attempt <= offsets[r.test]
    BY <2>1, <1>1, LastAttempt
  <2> HIDE DEF offsets
  <2> QED
    BY <2>1, <2>2, <1>1 DEF Numbered
<1>8. IsRun(run2)
  <2>1. IsFiniteSet(Seqs(run2))
    BY <1>1, <1>4, FS_AddElement DEF IsRun
  <2> HIDE DEF run2, seq
  <2> QED
    BY <1>1, <1>2, <1>3, <1>4, <2>1 DEF IsRun
<1> HIDE DEF seq, offsets, none, run2, rec2
<1>9. IsSession(run2, rec2)
  <2>1. run2.results \cup rec2.buffer = run.results
    BY <1>3, <1>5
  <2>2. IsFiniteSet(rec2.buffer)
    BY <1>5, FS_EmptySet
  <2> QED
    BY <2>1, <2>2, <1>4, <1>5, <1>6, <1>7 DEF IsSession
<1>10. JobInv(run2, rec2)
  BY <1>1, <1>3, <1>5, <1>8, <1>9 DEF JobInv
<1> QED
  BY <1>10 DEF seq, offsets, none, run2, rec2

LEMMA StartFailed ==
  ASSUME NEW run, NEW rec, JobInv(run, rec), ~ rec.open
  PROVE  JobInv(BeginRun(run), rec)
<1>1. IsRun(run) /\ IsRecorder(rec) /\ rec.open = FALSE /\ Unique(run.results)
  BY DEF JobInv
<1> DEFINE run2 == BeginRun(run)
<1>2. /\ DOMAIN run2 = {"status", "invocations", "results"}
      /\ run2.status = "running" /\ run2.results = run.results /\ run2.invocations = run.invocations
  BY <1>1 DEF BeginRun, IsRun
<1> HIDE DEF run2
<1>3. IsRun(run2)
  BY <1>1, <1>2 DEF IsRun, Seqs
<1>4. JobInv(run2, rec)
  BY <1>1, <1>2, <1>3 DEF JobInv
<1> QED
  BY <1>4 DEF run2

LEMMA AttemptBegun ==
  ASSUME NEW run, NEW rec, JobInv(run, rec), rec.open, NEW t \in rec.selected
  PROVE  JobInv(run, [rec EXCEPT !.running = rec.running \cup {t}])
<1> DEFINE rec2 == [rec EXCEPT !.running = rec.running \cup {t}]
<1>1. /\ IsRecorder(rec2) /\ rec2.running = rec.running \cup {t}
      /\ rec2.open = rec.open /\ rec2.seq = rec.seq /\ rec2.selected = rec.selected
      /\ rec2.offsets = rec.offsets /\ rec2.attempts = rec.attempts /\ rec2.buffer = rec.buffer
  BY DEF JobInv, IsRecorder
<1> HIDE DEF rec2
<1>2. IsSession(run, rec2)
  BY <1>1 DEF IsSession, JobInv
<1>3. JobInv(run, rec2)
  BY <1>1, <1>2 DEF JobInv
<1> QED
  BY <1>3 DEF rec2

\* The session makes a row of the next attempt of some tests: all are stored, and number on.
Making(run, rec, U, start, rows) ==
  /\ JobInv(run, rec) /\ rec.open /\ U \subseteq Tests
  /\ rows = rec.buffer \cup NextRows(U, rec.seq, start, rec.offsets, rec.attempts)
Made(run, rec, U, rows) ==
  /\ IsFiniteSet(rows)
  /\ \A r \in rows : IsRow(r) /\ r.inv = rec.seq /\ r \notin run.results
  /\ \E made \in [Tests -> Nat] :
       /\ \A t \in Tests : made[t] = IF t \in U THEN rec.attempts[t] + 1 ELSE rec.attempts[t]
       /\ Numbered(run.results \cup rows, rec.seq, rec.offsets, made)
  /\ Stored(run, rows) = [run EXCEPT !.results = run.results \cup rows]

LEMMA RowsMade ==
  ASSUME NEW run, NEW rec, NEW U, NEW start, NEW rows, Making(run, rec, U, start, rows)
  PROVE  Made(run, rec, U, rows)
<1> USE DEF Making
<1> DEFINE new == NextRows(U, rec.seq, start, rec.offsets, rec.attempts)
           made == [t \in Tests |-> IF t \in U THEN rec.attempts[t] + 1 ELSE rec.attempts[t]]
           old == run.results \cup rec.buffer
<1>1. IsRun(run) /\ IsSession(run, rec)
  BY DEF JobInv
<1>2. /\ rec.seq \in Nat /\ rec.offsets \in [Tests -> Nat] /\ rec.attempts \in [Tests -> Nat]
      /\ \A r \in old : IsRow(r)
      /\ Numbered(old, rec.seq, rec.offsets, rec.attempts)
  BY <1>1 DEF IsSession, IsRun
<1>3. /\ rows = rec.buffer \cup new
      /\ new = NextRows(U, rec.seq, start, rec.offsets, rec.attempts)
      /\ made \in [Tests -> Nat]
      /\ \A t \in Tests : made[t] = IF t \in U THEN rec.attempts[t] + 1 ELSE rec.attempts[t]
  BY <1>2
<1> HIDE DEF old, new, made
<1>4. \A r \in new : IsRow(r) /\ r.inv = rec.seq /\ r \notin old
  BY <1>2, <1>3, RowsAreNew
<1>5. Numbered(old \cup new, rec.seq, rec.offsets, made)
  BY <1>2, <1>3, NumberedFurther
<1>6. IsFiniteSet(rows)
  <2>1. IsFiniteSet(new)
    BY <1>3, RowsAreFew
  <2>2. IsFiniteSet(rec.buffer)
    BY <1>1 DEF IsSession
  <2>3. IsFiniteSet(rec.buffer \cup new)
    BY <2>1, <2>2, FS_Union
  <2> QED
    BY <1>3, <2>3
<1>7. \A r \in rows : IsRow(r) /\ r.inv = rec.seq /\ r \notin run.results
  BY <1>1, <1>3, <1>4 DEF IsSession, old
<1>8. old \cup new = run.results \cup rows
  BY <1>3 DEF old
<1>9. Unique(run.results \cup rows) /\ rows \cap run.results = {}
  BY <1>5, <1>7, <1>8 DEF Numbered
<1>10. Stored(run, rows) = [run EXCEPT !.results = run.results \cup rows]
  BY <1>1, <1>7, <1>9, AllAreStored
<1> QED
  BY <1>3, <1>5, <1>6, <1>7, <1>8, <1>10 DEF Made

\* What is stored and buffered stays typed when rows are added.
LEMMA MoreResults ==
  ASSUME NEW run, IsRun(run), NEW rows, IsFiniteSet(rows),
         \A r \in rows : IsRow(r) /\ r.inv \in Seqs(run),
         NEW run2, DOMAIN run2 = {"status", "invocations", "results"},
         run2.invocations = run.invocations, run2.results = run.results \cup rows
  PROVE  IsRun(run2)
<1>1. IsFiniteSet(run2.results)
  <2>1. IsFiniteSet(run.results)
    BY DEF IsRun
  <2>2. IsFiniteSet(run.results \cup rows)
    BY <2>1, FS_Union
  <2> QED
    BY <2>2
<1>2. Seqs(run2) = Seqs(run)
  BY DEF Seqs
<1> QED
  BY <1>1, <1>2 DEF IsRun

LEMMA AttemptClosed ==
  ASSUME NEW run, NEW rec, JobInv(run, rec), rec.open, NEW t \in rec.running, NEW start,
         NEW flush \in BOOLEAN, NEW rows,
         rows = rec.buffer \cup NextRows({t}, rec.seq, start, rec.offsets, rec.attempts)
  PROVE  JobInv(IF flush THEN Stored(run, rows) ELSE run,
                [rec EXCEPT !.running = rec.running \ {t},
                            !.attempts = [rec.attempts EXCEPT ![t] = rec.attempts[t] + 1],
                            !.buffer = IF flush THEN {} ELSE rows])
<1> DEFINE run2 == IF flush THEN Stored(run, rows) ELSE run
           attempts == [rec.attempts EXCEPT ![t] = rec.attempts[t] + 1]
           rec2 == [rec EXCEPT !.running = rec.running \ {t}, !.attempts = attempts,
                               !.buffer = IF flush THEN {} ELSE rows]
<1>1. IsRun(run) /\ IsSession(run, rec) /\ IsRecorder(rec) /\ rec.open = TRUE
  BY DEF JobInv
<1>2. Made(run, rec, {t}, rows)
  <2>1. Making(run, rec, {t}, start, rows)
    BY <1>1 DEF IsSession, Making
  <2> QED
    BY <2>1, RowsMade
<1>3. /\ IsFiniteSet(rows)
      /\ \A r \in rows : IsRow(r) /\ r.inv = rec.seq /\ r \notin run.results
      /\ Stored(run, rows) = [run EXCEPT !.results = run.results \cup rows]
  BY <1>2 DEF Made
<1>4. attempts \in [Tests -> Nat] /\ Numbered(run.results \cup rows, rec.seq, rec.offsets, attempts)
  <2>1. PICK made \in [Tests -> Nat] :
          /\ \A s \in Tests : made[s] = IF s \in {t} THEN rec.attempts[s] + 1 ELSE rec.attempts[s]
          /\ Numbered(run.results \cup rows, rec.seq, rec.offsets, made)
    BY <1>2 DEF Made
  <2>2. attempts = made
    BY <1>1, <2>1 DEF IsSession
  <2> QED
    BY <2>1, <2>2
<1>5. /\ IsRecorder(rec2) /\ rec2.open = TRUE
      /\ rec2.seq = rec.seq /\ rec2.selected = rec.selected /\ rec2.offsets = rec.offsets
      /\ rec2.running = rec.running \ {t} /\ rec2.attempts = attempts
      /\ rec2.buffer = IF flush THEN {} ELSE rows
  BY <1>1 DEF IsRecorder
<1>6. /\ DOMAIN run2 = {"status", "invocations", "results"}
      /\ run2.status = run.status /\ run2.invocations = run.invocations
      /\ run2.results = run.results \cup (IF flush THEN rows ELSE {})
  BY <1>1, <1>3 DEF IsRun
<1> HIDE DEF run2, attempts, rec2
<1>7. IsRun(run2) /\ Seqs(run2) = Seqs(run)
  <2>1. CASE flush
    BY <1>1, <1>3, <1>6, <2>1, MoreResults DEF IsSession, Seqs
  <2>2. CASE ~ flush
    BY <1>1, <1>6, <2>2 DEF IsRun, Seqs
  <2> QED
    BY <2>1, <2>2
<1>8. run2.results \cup rec2.buffer = run.results \cup rows
  BY <1>5, <1>6
<1>9. IsSession(run2, rec2)
  <2>1. IsFiniteSet(rec2.buffer)
    BY <1>3, <1>5, FS_EmptySet
  <2>2. \A r \in rec2.buffer : IsRow(r) /\ r.inv = rec2.seq /\ r \notin run2.results
    BY <1>3, <1>5, <1>6
  <2>3. Numbered(run2.results \cup rec2.buffer, rec2.seq, rec2.offsets, rec2.attempts)
    BY <1>3, <1>4, <1>5, <1>8
  <2> QED
    BY <1>1, <1>4, <1>5, <1>7, <2>1, <2>2, <2>3 DEF IsSession
<1>10. Unique(run2.results)
  BY <1>9 DEF IsSession, Numbered, Unique
<1>11. run2.status = "running"
  BY <1>1, <1>6 DEF JobInv
<1>12. JobInv(run2, rec2)
  BY <1>5, <1>7, <1>9, <1>10, <1>11 DEF JobInv
<1> QED
  BY <1>12 DEF run2, attempts, rec2

LEMMA SessionFinished ==
  ASSUME NEW run, NEW rec, JobInv(run, rec), rec.open, NEW start, NEW status, NEW rows,
         rows = rec.buffer \cup NextRows(Untold(rec), rec.seq, start, rec.offsets, rec.attempts)
  PROVE  JobInv([Stored(run, rows) EXCEPT !.status = status],
                [rec EXCEPT !.open = FALSE, !.running = {}, !.buffer = {},
                            !.attempts = [t \in Tests |-> 0]])
<1> DEFINE U == Untold(rec)
           run2 == [Stored(run, rows) EXCEPT !.status = status]
           rec2 == [rec EXCEPT !.open = FALSE, !.running = {}, !.buffer = {},
                               !.attempts = [t \in Tests |-> 0]]
<1>1. IsRun(run) /\ IsSession(run, rec) /\ IsRecorder(rec)
  BY DEF JobInv
<1>2. /\ \A t \in rec.selected : t \in U \/ rec.attempts[t] # 0
      /\ Made(run, rec, U, rows)
  <2>1. U \subseteq Tests /\ \A t \in rec.selected : t \in U \/ rec.attempts[t] # 0
    BY <1>1 DEF IsSession, Untold
  <2>2. Making(run, rec, U, start, rows)
    BY <2>1 DEF Making
  <2> QED
    BY <2>1, <2>2, RowsMade
<1>3. /\ IsFiniteSet(rows)
      /\ \A r \in rows : IsRow(r) /\ r.inv = rec.seq
      /\ Stored(run, rows) = [run EXCEPT !.results = run.results \cup rows]
  BY <1>2 DEF Made
<1>4. PICK made \in [Tests -> Nat] :
        /\ \A t \in Tests : made[t] = IF t \in U THEN rec.attempts[t] + 1 ELSE rec.attempts[t]
        /\ Numbered(run.results \cup rows, rec.seq, rec.offsets, made)
  BY <1>2 DEF Made
<1>5. /\ IsRecorder(rec2) /\ rec2.open = FALSE
      /\ rec2.seq = rec.seq /\ rec2.selected = rec.selected
  BY <1>1 DEF IsRecorder
<1>6. /\ DOMAIN run2 = {"status", "invocations", "results"}
      /\ run2.invocations = run.invocations /\ run2.results = run.results \cup rows
  BY <1>1, <1>3 DEF IsRun
<1>a. \A t \in rec.selected : t \in Tests /\ made[t] > 0
  BY <1>1, <1>2, <1>4 DEF IsSession
<1> HIDE DEF run2, rec2, U
<1>7. IsRun(run2)
  BY <1>1, <1>3, <1>6, MoreResults DEF IsSession
<1>8. Unique(run2.results)
  BY <1>4, <1>6 DEF Numbered
<1>9. ASSUME NEW t \in rec2.selected PROVE Whole(run2, rec2.seq, t)
  <2>1. Numbered(run2.results, rec.seq, rec.offsets, made)
    BY <1>4, <1>6
  <2> QED
    BY <2>1, <1>1, <1>a, <1>5, <1>7, NumberedIsWhole DEF IsSession
<1>10. JobInv(run2, rec2)
  BY <1>5, <1>7, <1>8, <1>9 DEF JobInv
<1> QED
  BY <1>10 DEF run2, rec2

LEMMA SessionLost ==
  ASSUME NEW run, NEW rec, JobInv(run, rec), rec.open
  PROVE  JobInv(run, NoSession)
  BY DEF JobInv, NoSession, IsRecorder

-----------------------------------------------------------------------------
(* The steps of all. *)

LEMMA BundlesStart == Init => BundlesInv
<1> SUFFICES ASSUME Init, NEW j \in Jobs PROVE JobInv(NoRun, NoSession)
  BY DEF Init, BundlesInv
<1>1. /\ DOMAIN NoRun = {"status", "invocations", "results"}
      /\ NoRun.status = "none" /\ NoRun.results = {} /\ DOMAIN NoRun.invocations = {}
  BY DEF NoRun
<1>2. IsRun(NoRun)
  BY <1>1, FS_EmptySet DEF IsRun, Seqs
<1>3. IsRecorder(NoSession) /\ NoSession.open = FALSE
  BY DEF NoSession, IsRecorder
<1> QED
  BY <1>1, <1>2, <1>3 DEF JobInv, Unique

\* A step of one job leaves the others alone.
LEMMA OneJobSteps ==
  ASSUME BundlesInv, NEW j \in Jobs, NEW run, NEW rec, JobInv(run, rec),
         store' = [store EXCEPT ![j] = run], recorder' = [recorder EXCEPT ![j] = rec]
  PROVE  BundlesInv'
<1>1. \A k \in Jobs : store'[k] = (IF k = j THEN run ELSE store[k])
                      /\ recorder'[k] = (IF k = j THEN rec ELSE recorder[k])
  BY DEF BundlesInv
<1>2. ASSUME NEW k \in Jobs PROVE JobInv(store'[k], recorder'[k])
  BY <1>1 DEF BundlesInv
<1> QED
  BY <1>2 DEF BundlesInv

LEMMA BundlesStep == BundlesInv /\ [Next]_vars => BundlesInv'
<1> SUFFICES ASSUME BundlesInv, [Next]_vars PROVE BundlesInv'
  OBVIOUS
<1>t. /\ \A j \in Jobs : JobInv(store[j], recorder[j])
      /\ store = [j \in Jobs |-> store[j]] /\ recorder = [j \in Jobs |-> recorder[j]]
  BY DEF BundlesInv
<1>r. ASSUME NEW j \in Jobs, NEW U
      PROVE  { Row(j, t) : t \in U }
               = NextRows(U, recorder[j].seq, store[j].invocations[recorder[j].seq],
                          recorder[j].offsets, recorder[j].attempts)
  BY DEF Row, NextRows
<1>1. ASSUME NEW j \in Jobs, NEW selected \in Selections[j], SessionStart(j, selected)
      PROVE  BundlesInv'
  <2> DEFINE seq == NextSeq(store[j])
             run == [BeginRun(store[j]) EXCEPT
                       !.invocations = Extended(store[j].invocations, seq, << j, seq >>)]
             rec == [NoSession EXCEPT !.open = TRUE, !.seq = seq, !.selected = selected,
                                      !.offsets = [t \in Tests |-> MaxAttempt(store[j], t)],
                                      !.attempts = [t \in Tests |-> 0]]
  <2>1. selected \in SUBSET Tests
    BY BundlesAssumption
  <2>2. JobInv(run, rec)
    BY <1>t, <2>1, SessionStarted
  <2>3. store' = [store EXCEPT ![j] = run]
    BY <1>1 DEF SessionStart
  <2>4. recorder' = [recorder EXCEPT ![j] = rec]
    BY <1>1 DEF SessionStart
  <2> QED
    BY <2>2, <2>3, <2>4, OneJobSteps
<1>2. ASSUME NEW j \in Jobs, StartFails(j) PROVE BundlesInv'
  <2>1. JobInv(BeginRun(store[j]), recorder[j])
    BY <1>2, <1>t, StartFailed DEF StartFails
  <2>2. store' = [store EXCEPT ![j] = BeginRun(store[j])]
        /\ recorder' = [recorder EXCEPT ![j] = recorder[j]]
    BY <1>2, <1>t DEF StartFails
  <2> QED
    BY <2>1, <2>2, OneJobSteps
<1>3. ASSUME NEW j \in Jobs, NEW t \in Tests, Begin(j, t) PROVE BundlesInv'
  <2> DEFINE rec == [recorder[j] EXCEPT !.running = recorder[j].running \cup {t}]
  <2>1. JobInv(store[j], rec)
    BY <1>3, <1>t, AttemptBegun DEF Begin
  <2>2. store' = [store EXCEPT ![j] = store[j]] /\ recorder' = [recorder EXCEPT ![j] = rec]
    BY <1>3, <1>t DEF Begin
  <2> QED
    BY <2>1, <2>2, OneJobSteps
<1>4. ASSUME NEW j \in Jobs, NEW t \in Tests, NEW flush \in BOOLEAN, Close(j, t, flush)
      PROVE  BundlesInv'
  <2> DEFINE rows == recorder[j].buffer \cup {Row(j, t)}
             run == IF flush THEN Stored(store[j], rows) ELSE store[j]
             rec == [recorder[j] EXCEPT
                       !.running = recorder[j].running \ {t},
                       !.attempts = [recorder[j].attempts EXCEPT ![t] = recorder[j].attempts[t] + 1],
                       !.buffer = IF flush THEN {} ELSE rows]
  <2>1. rows = recorder[j].buffer
                 \cup NextRows({t}, recorder[j].seq, store[j].invocations[recorder[j].seq],
                               recorder[j].offsets, recorder[j].attempts)
    <3>1. {Row(j, t)} = { Row(j, s) : s \in {t} }
      OBVIOUS
    <3> QED
      BY <3>1, <1>r
  <2>2. JobInv(run, rec)
    <3> DEFINE start == store[j].invocations[recorder[j].seq]
    <3>1. JobInv(store[j], recorder[j]) /\ recorder[j].open /\ t \in recorder[j].running
      BY <1>4, <1>t DEF Close
    <3>2. rows = recorder[j].buffer
                   \cup NextRows({t}, recorder[j].seq, start, recorder[j].offsets, recorder[j].attempts)
      BY <2>1
    <3> HIDE DEF rows, start
    <3> QED
      BY <3>1, <3>2, AttemptClosed
  <2>3. store' = [store EXCEPT ![j] = run]
    BY <1>4, <1>t DEF Close
  <2>4. recorder' = [recorder EXCEPT ![j] = rec]
    BY <1>4, <1>t DEF Close
  <2> QED
    BY <2>2, <2>3, <2>4, OneJobSteps
<1>5. ASSUME NEW j \in Jobs, NEW status \in {"running", "finished"}, Finish(j, status)
      PROVE  BundlesInv'
  <2> DEFINE rows == recorder[j].buffer \cup { Row(j, t) : t \in Untold(recorder[j]) }
             run == [Stored(store[j], rows) EXCEPT !.status = status]
             rec == [recorder[j] EXCEPT !.open = FALSE, !.running = {}, !.buffer = {},
                                        !.attempts = [t \in Tests |-> 0]]
  <2>1. rows = recorder[j].buffer
                 \cup NextRows(Untold(recorder[j]), recorder[j].seq,
                               store[j].invocations[recorder[j].seq],
                               recorder[j].offsets, recorder[j].attempts)
    BY <1>r
  <2>2. JobInv(run, rec)
    <3> HIDE DEF rows
    <3> QED
      BY <1>5, <1>t, <2>1, SessionFinished DEF Finish
  <2>3. store' = [store EXCEPT ![j] = run]
    BY <1>5, <1>t DEF Finish
  <2>4. recorder' = [recorder EXCEPT ![j] = rec]
    BY <1>5, <1>t DEF Finish
  <2> QED
    BY <2>2, <2>3, <2>4, OneJobSteps
<1>6. ASSUME NEW j \in Jobs, Lose(j) PROVE BundlesInv'
  <2>1. JobInv(store[j], NoSession)
    BY <1>6, <1>t, SessionLost DEF Lose
  <2>2. store' = [store EXCEPT ![j] = store[j]] /\ recorder' = [recorder EXCEPT ![j] = NoSession]
    BY <1>6, <1>t DEF Lose
  <2> QED
    BY <2>1, <2>2, OneJobSteps
<1>7. ASSUME UNCHANGED << store, recorder >> PROVE BundlesInv'
  BY <1>7 DEF BundlesInv
<1>8. ASSUME NEW j \in Jobs, Export(j) PROVE BundlesInv'
  BY <1>7, <1>8 DEF Export
<1>9. ASSUME NEW j \in Jobs, NEW b \in bundles[j], Import(b) PROVE BundlesInv'
  BY <1>7, <1>9 DEF Import
<1>10. CASE UNCHANGED vars
  BY <1>7, <1>10 DEF vars
<1> QED
  BY <1>1, <1>2, <1>3, <1>4, <1>5, <1>6, <1>8, <1>9, <1>10 DEF Next

\* Whichever sessions of a job crashed, lost their buffer or failed to start before: when its run
\* is finished, every test the last session selected has all its rows of that session, and its
\* last attempt is among them.
THEOREM FinishedRunsAreComplete == Spec => []CompleteWhenFinished
<1>1. BundlesInv => CompleteWhenFinished
  BY DEF BundlesInv, JobInv, CompleteWhenFinished, Whole
<1> QED
  BY <1>1, BundlesStart, BundlesStep, PTL DEF Spec

-----------------------------------------------------------------------------
(* The run of a job as a log: its invocations are numbered from 1, the     *)
(* attempts of a test too and in the order of the invocations, and so are  *)
(* those of a test in an invocation.                                       *)

Earlier(p, q) == \/ p[1][2] < q[1][2]
                 \/ p[1][2] = q[1][2] /\ p[2] < q[2]

IsRowOf(j, r) ==
  /\ r = [test |-> r.test, attempt |-> r.attempt, inv |-> r.inv,
          told |-> << << j, r.inv >>, r.told[2] >>]
  /\ r.attempt >= 1 /\ r.told[2] >= 1

InvocationsOf(j, n) == [k \in 1 .. n |-> << j, k >>]

IsLog(j, run) ==
  /\ \E n \in Nat : run.invocations = InvocationsOf(j, n)
  /\ \A r \in run.results :
       /\ IsRowOf(j, r)
       /\ \A a \in 1 .. r.attempt : \E q \in Of(run, r.test) : q.attempt = a
       /\ \A n \in 1 .. r.told[2] :
            \E q \in Of(run, r.test) : q.inv = r.inv /\ q.told[2] = n
       /\ \A q \in Of(run, r.test) : q.attempt < r.attempt => Earlier(q.told, r.told)

\* The rows that an open session has in mind continue the log.
Appended(j, run, rec, rows, attempts) ==
  /\ \A r \in rows : IsRow(r) /\ IsRowOf(j, r) /\ r.inv = rec.seq
  /\ Numbered(run.results \cup rows, rec.seq, rec.offsets, attempts)
  /\ \A t \in Tests : \A a \in 1 .. rec.offsets[t] + attempts[t] :
       \E r \in run.results \cup rows : r.test = t /\ r.attempt = a
  /\ \A r \in run.results, q \in rows : r.test = q.test => r.attempt < q.attempt

SessionLog(j, run, rec) ==
  /\ \A k \in Seqs(run) : k <= rec.seq
  /\ Appended(j, run, rec, rec.buffer, rec.attempts)

\* An earlier state of the same run.
Leads(p, run) ==
  /\ Seqs(p) \subseteq Seqs(run) /\ p.results \subseteq run.results
  /\ \A r \in run.results \ p.results, q \in p.results :
       r.test = q.test => q.attempt < r.attempt

IsBundle(j, p) == IsRun(p) /\ Unique(p.results) /\ IsLog(j, p)

LogInv ==
  /\ bundles = [j \in Jobs |-> bundles[j]]
  /\ \A j \in Jobs :
       /\ IsLog(j, store[j])
       /\ recorder[j].open => SessionLog(j, store[j], recorder[j])
       /\ \A p \in bundles[j] : IsBundle(j, p) /\ Leads(p, store[j])
       /\ \A p, q \in bundles[j] : Leads(p, q) \/ Leads(q, p)

LEMMA LeadsFurther ==
  ASSUME NEW p, NEW q, NEW run, Leads(p, q), Leads(q, run)
  PROVE  Leads(p, run)
  BY DEF Leads

LEMMA NextOfAll ==
  ASSUME NEW run, NEW n \in Nat, Seqs(run) = 1 .. n
  PROVE  NextSeq(run) = n + 1
<1>1. 1 .. n \in SUBSET Nat /\ IsFiniteSet(1 .. n)
  BY FS_Interval
<1> DEFINE m == Largest(1 .. n)
<1>2. m \in Nat /\ m \in (1 .. n) \cup {0} /\ \A x \in 1 .. n : x <= m
  BY <1>1, LargestOf
<1>3. NextSeq(run) = m + 1
  BY DEF NextSeq
<1> HIDE DEF m
<1>4. CASE n = 0
  BY <1>2, <1>3, <1>4
<1>5. CASE n # 0
  <2>1. n \in 1 .. n
    BY <1>5
  <2> QED
    BY <1>2, <1>3, <2>1
<1> QED
  BY <1>4, <1>5

LEMMA NumbersOfLog ==
  ASSUME NEW j, NEW run, NEW n \in Nat, run.invocations = InvocationsOf(j, n)
  PROVE  /\ Seqs(run) = 1 .. n /\ NextSeq(run) = n + 1
         /\ \A k \in 1 .. n : run.invocations[k] = << j, k >>
<1>1. Seqs(run) = 1 .. n /\ \A k \in 1 .. n : run.invocations[k] = << j, k >>
  BY DEF Seqs, InvocationsOf
<1> QED
  BY <1>1, NextOfAll

\* An open session makes a row of the next attempt of some tests.
MakingLog(j, run, rec, U, rows) ==
  /\ IsLog(j, run) /\ SessionLog(j, run, rec)
  /\ Making(run, rec, U, run.invocations[rec.seq], rows)
MadeLog(j, run, rec, U, rows) ==
  \E made \in [Tests -> Nat] :
    /\ \A t \in Tests : made[t] = IF t \in U THEN rec.attempts[t] + 1 ELSE rec.attempts[t]
    /\ Appended(j, run, rec, rows, made)

LEMMA AppendedFurther ==
  ASSUME NEW j, NEW run, NEW rec, NEW U, NEW rows, MakingLog(j, run, rec, U, rows)
  PROVE  MadeLog(j, run, rec, U, rows)
<1> USE DEF MakingLog, Making
<1> DEFINE start == run.invocations[rec.seq]
           new == NextRows(U, rec.seq, start, rec.offsets, rec.attempts)
           old == run.results \cup rec.buffer
<1>1. IsRun(run) /\ IsSession(run, rec)
  BY DEF JobInv
<1>2. /\ rec.seq \in Nat /\ rec.offsets \in [Tests -> Nat] /\ rec.attempts \in [Tests -> Nat]
      /\ \A r \in old : IsRow(r)
      /\ Numbered(old, rec.seq, rec.offsets, rec.attempts)
  BY <1>1 DEF IsSession, IsRun
<1>3. Made(run, rec, U, rows)
  <2>1. Making(run, rec, U, start, rows)
    OBVIOUS
  <2> QED
    BY <2>1, RowsMade
<1>4. PICK made \in [Tests -> Nat] :
        /\ \A t \in Tests : made[t] = IF t \in U THEN rec.attempts[t] + 1 ELSE rec.attempts[t]
        /\ Numbered(run.results \cup rows, rec.seq, rec.offsets, made)
  BY <1>3 DEF Made
<1>5. start = << j, rec.seq >>
  <2>1. PICK n \in Nat : run.invocations = InvocationsOf(j, n)
    BY DEF IsLog
  <2>2. rec.seq \in 1 .. n
    BY <1>1, <2>1, NumbersOfLog DEF IsSession
  <2> QED
    BY <2>1, <2>2, NumbersOfLog
<1>6. \A r \in new : IsRowOf(j, r)
  <2>1. ASSUME NEW t \in U,
               NEW r, r = [test |-> t, attempt |-> rec.offsets[t] + (rec.attempts[t] + 1),
                           inv |-> rec.seq, told |-> << start, rec.attempts[t] + 1 >>]
        PROVE  IsRowOf(j, r)
    <3>1. /\ r.test = t /\ r.attempt = rec.offsets[t] + (rec.attempts[t] + 1) /\ r.inv = rec.seq
          /\ r.told[2] = rec.attempts[t] + 1
      BY <2>1
    <3>2. rec.offsets[t] \in Nat /\ rec.attempts[t] \in Nat
      BY <1>2
    <3>3. r.attempt >= 1 /\ r.told[2] >= 1
      BY <3>1, <3>2
    <3> QED
      BY <2>1, <3>1, <3>3, <1>5 DEF IsRowOf
  <2> QED
    BY <2>1 DEF NextRows
<1>7. /\ rows = rec.buffer \cup new
      /\ new = NextRows(U, rec.seq, start, rec.offsets, rec.attempts)
  OBVIOUS
<1> HIDE DEF start, new, old
<1>8. /\ \A r \in new : IsRow(r) /\ r.inv = rec.seq
      /\ \A r \in new : \E t \in U : r.test = t
      /\ \A t \in U : \E r \in new :
           /\ r.test = t /\ r.told[2] = rec.attempts[t] + 1
           /\ r.attempt = rec.offsets[t] + rec.attempts[t] + 1
           /\ \A q \in new : q.test = t => q = r
  BY <1>2, <1>7, RowsAreNew
<1>9. \A r \in rows : IsRow(r) /\ IsRowOf(j, r) /\ r.inv = rec.seq
  BY <1>6, <1>7, <1>8 DEF SessionLog, Appended
<1>10. ASSUME NEW t \in Tests, NEW a \in 1 .. rec.offsets[t] + made[t]
       PROVE  \E r \in run.results \cup rows : r.test = t /\ r.attempt = a
  <2>1. CASE a \in 1 .. rec.offsets[t] + rec.attempts[t]
    BY <2>1, <1>7 DEF SessionLog, Appended
  <2>2. CASE a \notin 1 .. rec.offsets[t] + rec.attempts[t]
    <3>1. t \in U /\ a = rec.offsets[t] + rec.attempts[t] + 1
      BY <2>2, <1>2, <1>4
    <3> QED
      BY <3>1, <1>7, <1>8
  <2> QED
    BY <2>1, <2>2
<1>11. ASSUME NEW r \in run.results, NEW q \in rows, r.test = q.test
       PROVE  r.attempt < q.attempt
  <2>1. CASE q \in rec.buffer
    BY <2>1, <1>11 DEF SessionLog, Appended
  <2>2. CASE q \in new
    <3>1. q.test \in U /\ q.attempt = rec.offsets[q.test] + rec.attempts[q.test] + 1
      BY <2>2, <1>8
    <3>2. IsRow(r) /\ r.attempt <= rec.offsets[r.test] + rec.attempts[r.test]
      BY <1>2 DEF Numbered, IsRow, old
    <3>3. r.attempt \in Nat /\ rec.offsets[r.test] \in Nat /\ rec.attempts[r.test] \in Nat
      BY <1>2, <3>2 DEF IsRow
    <3> QED
      BY <3>1, <3>2, <3>3, <1>11
  <2> QED
    BY <2>1, <2>2, <1>7
<1> QED
  BY <1>4, <1>9, <1>10, <1>11 DEF Appended, MadeLog

\* A session that continues the log of its job by rows.
ExtendsLog(j, run, rec, rows, attempts) ==
  /\ IsLog(j, run) /\ SessionLog(j, run, rec) /\ JobInv(run, rec) /\ rec.open
  /\ attempts \in [Tests -> Nat] /\ Appended(j, run, rec, rows, attempts)

LEMMA AppendedIsLog ==
  ASSUME NEW j, NEW run, NEW rec, NEW rows, NEW attempts, ExtendsLog(j, run, rec, rows, attempts),
         NEW run2, run2.invocations = run.invocations, run2.results = run.results \cup rows
  PROVE  IsLog(j, run2) /\ Leads(run, run2)
<1> DEFINE all == run.results \cup rows
<1>s. /\ IsLog(j, run) /\ SessionLog(j, run, rec) /\ JobInv(run, rec) /\ rec.open
      /\ attempts \in [Tests -> Nat] /\ Appended(j, run, rec, rows, attempts)
  BY DEF ExtendsLog
<1> USE <1>s
<1>1. /\ IsRun(run) /\ rec.seq \in Nat /\ rec.offsets \in [Tests -> Nat]
      /\ Numbered(all, rec.seq, rec.offsets, attempts)
  BY DEF JobInv, IsSession, IsRun, Appended
<1>2. \A r \in all :
        /\ IsRow(r) /\ IsRowOf(j, r)
        /\ r.test \in Tests /\ r.attempt \in Nat /\ r.inv \in Nat /\ r.told[2] \in Nat
        /\ r.told[1][2] = r.inv
  <2>1. \A r \in all : IsRow(r) /\ IsRowOf(j, r)
    BY <1>1 DEF IsRun, IsLog, Appended
  <2>2. ASSUME NEW r \in all PROVE r.told[1][2] = r.inv
    <3>1. r.told = << << j, r.inv >>, r.told[2] >>
      BY <2>1 DEF IsRowOf
    <3> QED
      BY <3>1
  <2> QED
    BY <2>1, <2>2 DEF IsRow
<1>3. \A r \in all : rec.offsets[r.test] \in Nat /\ attempts[r.test] \in Nat
  BY <1>1, <1>2
<1>4. \A r \in all :
        /\ r.inv = rec.seq => r.told[2] \in 1 .. attempts[r.test]
                                /\ r.attempt = rec.offsets[r.test] + r.told[2]
        /\ r.inv # rec.seq => r.attempt <= rec.offsets[r.test] /\ r \in run.results /\ r.inv < rec.seq
  <2>1. \A r \in rows : r.inv = rec.seq
    BY DEF Appended
  <2>2. \A r \in run.results : r.inv <= rec.seq
    BY <1>1 DEF IsRun, SessionLog
  <2>3. ASSUME NEW r \in all, r.inv = rec.seq
        PROVE  r.told[2] \in 1 .. attempts[r.test] /\ r.attempt = rec.offsets[r.test] + r.told[2]
    BY <1>1, <2>3 DEF Numbered
  <2>4. ASSUME NEW r \in all, r.inv # rec.seq PROVE r.attempt <= rec.offsets[r.test]
    BY <1>1, <2>4 DEF Numbered
  <2>5. ASSUME NEW r \in all, r.inv # rec.seq PROVE r \in run.results /\ r.inv < rec.seq
    <3>1. r \in run.results
      BY <2>1, <2>5
    <3> QED
      BY <3>1, <1>1, <1>2, <2>2, <2>5
  <2> QED
    BY <2>3, <2>4, <2>5
<1>5. ASSUME NEW t PROVE Of(run2, t) = { r \in all : r.test = t }
  BY DEF Of
<1>6. ASSUME NEW r \in all, NEW a \in 1 .. r.attempt
      PROVE  \E q \in Of(run2, r.test) : q.attempt = a
  <2>1. a \in 1 .. rec.offsets[r.test] + attempts[r.test]
    BY <1>2, <1>3, <1>4
  <2> QED
    BY <2>1, <1>2, <1>5 DEF Appended
<1>7. ASSUME NEW r \in all, NEW n \in 1 .. r.told[2]
      PROVE  \E q \in Of(run2, r.test) : q.inv = r.inv /\ q.told[2] = n
  <2>1. CASE r.inv = rec.seq
    <3>1. n \in 1 .. attempts[r.test]
      BY <1>2, <1>3, <1>4, <2>1
    <3>2. \E q \in all : q.test = r.test /\ q.inv = rec.seq /\ q.told[2] = n
      BY <1>1, <1>2, <3>1 DEF Numbered
    <3> QED
      BY <2>1, <3>2, <1>5
  <2>2. CASE r.inv # rec.seq
    <3>1. \E q \in Of(run, r.test) : q.inv = r.inv /\ q.told[2] = n
      BY <2>2, <1>4 DEF IsLog
    <3> QED
      BY <3>1, <1>5 DEF Of
  <2> QED
    BY <2>1, <2>2
<1>8. ASSUME NEW r \in all, NEW q \in Of(run2, r.test), q.attempt < r.attempt
      PROVE  Earlier(q.told, r.told)
  <2>1. q \in all /\ q.test = r.test
    BY <1>5
  <2>2. CASE r.inv = rec.seq /\ q.inv = rec.seq
    BY <2>1, <2>2, <1>2, <1>3, <1>4, <1>8 DEF Earlier
  <2>3. CASE r.inv = rec.seq /\ q.inv # rec.seq
    BY <2>1, <2>3, <1>2, <1>4 DEF Earlier
  <2>4. CASE r.inv # rec.seq /\ q.inv = rec.seq
    BY <2>1, <2>4, <1>2, <1>3, <1>4, <1>8
  <2>5. CASE r.inv # rec.seq /\ q.inv # rec.seq
    BY <2>1, <2>5, <1>4, <1>8 DEF IsLog, Of
  <2> QED
    BY <2>2, <2>3, <2>4, <2>5
<1>9. \E n \in Nat : run2.invocations = InvocationsOf(j, n)
  BY DEF IsLog
<1>10. IsLog(j, run2)
  BY <1>2, <1>6, <1>7, <1>8, <1>9 DEF IsLog
<1>11. Leads(run, run2)
  <2>1. \A q \in run.results, r \in rows : r.test = q.test => q.attempt < r.attempt
    BY DEF Appended
  <2> QED
    BY <2>1 DEF Leads, Seqs
<1> QED
  BY <1>10, <1>11

LEMMA SameLog ==
  ASSUME NEW j, NEW run, IsLog(j, run), NEW run2,
         run2.invocations = run.invocations, run2.results = run.results
  PROVE  IsLog(j, run2) /\ Leads(run, run2)
<1>1. Seqs(run2) = Seqs(run) /\ \A t : Of(run2, t) = Of(run, t)
  BY DEF Seqs, Of
<1> QED
  BY <1>1 DEF IsLog, Leads

LEMMA LogStart == Init => LogInv
<1>1. ASSUME NEW j PROVE NoRun.invocations = InvocationsOf(j, 0)
  <2>1. 1 .. 0 = {}
    OBVIOUS
  <2>2. << >> = [k \in {} |-> << j, k >>]
    OBVIOUS
  <2>3. NoRun.invocations = << >>
    BY DEF NoRun
  <2> QED
    BY <2>1, <2>2, <2>3 DEF InvocationsOf
<1>2. ASSUME NEW j PROVE IsLog(j, NoRun)
  <2>1. NoRun.results = {}
    BY DEF NoRun
  <2> QED
    BY <1>1, <2>1 DEF IsLog
<1>3. NoSession.open = FALSE
  BY DEF NoSession
<1>4. ASSUME Init PROVE LogInv
  <2>1. /\ store = [i \in Jobs |-> NoRun] /\ recorder = [i \in Jobs |-> NoSession]
        /\ bundles = [i \in Jobs |-> {}]
    BY <1>4 DEF Init
  <2>2. \A i \in Jobs : store[i] = NoRun /\ recorder[i].open = FALSE /\ bundles[i] = {}
    BY <1>3, <2>1
  <2>3. bundles = [i \in Jobs |-> bundles[i]]
    BY <2>1, <2>2
  <2> QED
    BY <1>2, <2>2, <2>3 DEF LogInv
<1> QED
  BY <1>4

LEMMA OneLogSteps ==
  ASSUME BundlesInv, LogInv, NEW j \in Jobs, NEW run, NEW rec,
         IsLog(j, run), Leads(store[j], run), rec.open => SessionLog(j, run, rec),
         store' = [store EXCEPT ![j] = run], recorder' = [recorder EXCEPT ![j] = rec],
         bundles' = bundles
  PROVE  LogInv'
<1>1. \A i \in Jobs : store'[i] = (IF i = j THEN run ELSE store[i])
                      /\ recorder'[i] = (IF i = j THEN rec ELSE recorder[i])
  BY DEF BundlesInv
<1>2. ASSUME NEW i \in Jobs
      PROVE  /\ IsLog(i, store'[i])
             /\ recorder'[i].open => SessionLog(i, store'[i], recorder'[i])
             /\ \A p \in bundles[i] : IsBundle(i, p) /\ Leads(p, store'[i])
  <2>1. CASE i = j
    <3>1. store'[i] = run /\ recorder'[i] = rec
      BY <1>1, <2>1
    <3>2. \A p \in bundles[i] : Leads(p, run)
      BY <2>1, LeadsFurther DEF LogInv
    <3> QED
      BY <2>1, <3>1, <3>2 DEF LogInv
  <2>2. CASE i # j
    BY <2>2, <1>1 DEF LogInv
  <2> QED
    BY <2>1, <2>2
<1> QED
  BY <1>2 DEF LogInv

LEMMA SessionStartedLog ==
  ASSUME NEW j, NEW run, NEW rec, JobInv(run, rec), IsLog(j, run), NEW selected \in SUBSET Tests,
         NEW run2, NEW rec2,
         run2 = [BeginRun(run) EXCEPT
                   !.invocations = Extended(run.invocations, NextSeq(run), << j, NextSeq(run) >>)],
         rec2 = [NoSession EXCEPT !.open = TRUE, !.seq = NextSeq(run), !.selected = selected,
                                  !.offsets = [t \in Tests |-> MaxAttempt(run, t)],
                                  !.attempts = [t \in Tests |-> 0]]
  PROVE  IsLog(j, run2) /\ Leads(run, run2) /\ SessionLog(j, run2, rec2)
<1>1. IsRun(run)
  BY DEF JobInv
<1>2. PICK n \in Nat : run.invocations = InvocationsOf(j, n)
  BY DEF IsLog
<1>3. Seqs(run) = 1 .. n /\ NextSeq(run) = n + 1 /\ \A k \in 1 .. n : run.invocations[k] = << j, k >>
  BY <1>2, NumbersOfLog
<1>4. /\ run2.results = run.results
      /\ run2.invocations = Extended(run.invocations, n + 1, << j, n + 1 >>)
  BY <1>1, <1>3 DEF BeginRun, IsRun
<1>5. run2.invocations = InvocationsOf(j, n + 1)
  <2>1. (1 .. n) \cup {n + 1} = 1 .. (n + 1)
    OBVIOUS
  <2>2. DOMAIN run.invocations = 1 .. n
    BY <1>3 DEF Seqs
  <2> QED
    BY <1>3, <1>4, <2>1, <2>2 DEF Extended, InvocationsOf
<1>6. Seqs(run2) = 1 .. (n + 1)
  <2>1. n + 1 \in Nat
    OBVIOUS
  <2> QED
    BY <2>1, <1>5, NumbersOfLog
<1>7. IsLog(j, run2)
  <2>1. \A t : Of(run2, t) = Of(run, t)
    BY <1>4 DEF Of
  <2> QED
    BY <2>1, <1>4, <1>5 DEF IsLog
<1>8. Leads(run, run2)
  BY <1>3, <1>4, <1>6 DEF Leads
<1>9. /\ rec2.seq = n + 1 /\ rec2.buffer = {} /\ rec2.open
      /\ rec2.offsets = [t \in Tests |-> MaxAttempt(run, t)]
      /\ rec2.attempts = [t \in Tests |-> 0]
  BY <1>3 DEF NoSession
<1>10. Numbered(run2.results \cup rec2.buffer, rec2.seq, rec2.offsets, rec2.attempts)
  <2>1. JobInv(run2, rec2)
    BY SessionStarted
  <2> QED
    BY <2>1, <1>9 DEF JobInv, IsSession
<1>11. ASSUME NEW t \in Tests, NEW a \in 1 .. rec2.offsets[t] + rec2.attempts[t]
       PROVE  \E r \in run2.results \cup rec2.buffer : r.test = t /\ r.attempt = a
  <2>1. /\ MaxAttempt(run, t) \in Nat
        /\ MaxAttempt(run, t) \in { r.attempt : r \in Of(run, t) } \cup {0}
    BY <1>1, LastAttempt
  <2>2. rec2.offsets[t] = MaxAttempt(run, t) /\ rec2.attempts[t] = 0
    BY <1>9
  <2>3. a \in 1 .. MaxAttempt(run, t)
    BY <2>1, <2>2
  <2>4. PICK r \in Of(run, t) : r.attempt = MaxAttempt(run, t)
    BY <2>1, <2>3
  <2>5. r \in run.results /\ r.test = t
    BY DEF Of
  <2>6. \E q \in Of(run, t) : q.attempt = a
    BY <2>3, <2>4, <2>5 DEF IsLog
  <2> QED
    BY <2>6, <1>4 DEF Of
<1>12. SessionLog(j, run2, rec2)
  BY <1>6, <1>9, <1>10, <1>11 DEF SessionLog, Appended
<1> QED
  BY <1>7, <1>8, <1>12

LEMMA AttemptClosedLog ==
  ASSUME NEW j, NEW run, NEW rec, JobInv(run, rec), IsLog(j, run), SessionLog(j, run, rec), rec.open,
         NEW t \in rec.running, NEW flush \in BOOLEAN, NEW rows, NEW run2, NEW rec2,
         rows = rec.buffer \cup NextRows({t}, rec.seq, run.invocations[rec.seq], rec.offsets, rec.attempts),
         run2 = (IF flush THEN Stored(run, rows) ELSE run),
         rec2 = [rec EXCEPT !.running = rec.running \ {t},
                            !.attempts = [rec.attempts EXCEPT ![t] = rec.attempts[t] + 1],
                            !.buffer = IF flush THEN {} ELSE rows]
  PROVE  IsLog(j, run2) /\ Leads(run, run2) /\ SessionLog(j, run2, rec2)
<1> DEFINE start == run.invocations[rec.seq]
<1>1. IsRun(run) /\ IsSession(run, rec) /\ IsRecorder(rec)
  BY DEF JobInv
<1>2. {t} \subseteq Tests
  BY <1>1 DEF IsSession
<1>m. MakingLog(j, run, rec, {t}, rows)
  BY <1>2 DEF MakingLog, Making
<1>3. PICK made \in [Tests -> Nat] :
        /\ \A s \in Tests : made[s] = IF s \in {t} THEN rec.attempts[s] + 1 ELSE rec.attempts[s]
        /\ Appended(j, run, rec, rows, made)
  <2>1. MadeLog(j, run, rec, {t}, rows)
    BY <1>m, AppendedFurther
  <2> QED
    BY <2>1 DEF MadeLog
<1>4. /\ rec2.seq = rec.seq /\ rec2.offsets = rec.offsets /\ rec2.attempts = made
      /\ rec2.buffer = IF flush THEN {} ELSE rows
  <2>1. made = [rec.attempts EXCEPT ![t] = rec.attempts[t] + 1]
    BY <1>1, <1>3 DEF IsSession
  <2> QED
    BY <2>1, <1>1 DEF IsRecorder
<1>5. /\ run2.invocations = run.invocations
      /\ run2.results = run.results \cup (IF flush THEN rows ELSE {})
  <2>1. Made(run, rec, {t}, rows)
    <3>1. Making(run, rec, {t}, start, rows)
      BY <1>m DEF MakingLog
    <3> QED
      BY <3>1, RowsMade
  <2>2. Stored(run, rows) = [run EXCEPT !.results = run.results \cup rows]
    BY <2>1 DEF Made
  <2> QED
    BY <1>1, <2>2 DEF IsRun
<1>6. IsLog(j, run2) /\ Leads(run, run2)
  <2>1. CASE flush
    <3>1. run2.invocations = run.invocations /\ run2.results = run.results \cup rows
      BY <2>1, <1>5
    <3>2. ExtendsLog(j, run, rec, rows, made)
      BY <1>3 DEF ExtendsLog
    <3> QED
      BY <3>1, <3>2, AppendedIsLog
  <2>2. CASE ~ flush
    <3>1. run2.invocations = run.invocations /\ run2.results = run.results
      BY <2>2, <1>5
    <3> QED
      BY <3>1, SameLog
  <2> QED
    BY <2>1, <2>2
<1>7. run2.results \cup rec2.buffer = run.results \cup rows
  <2>1. CASE flush
    <3>1. rec2.buffer = {} /\ run2.results = run.results \cup rows
      BY <1>4, <1>5, <2>1
    <3> QED
      BY <3>1
  <2>2. CASE ~ flush
    <3>1. rec2.buffer = rows /\ run2.results = run.results
      BY <1>4, <1>5, <2>2
    <3> QED
      BY <3>1
  <2> QED
    BY <2>1, <2>2
<1>8. \A r \in run2.results, q \in rec2.buffer : r.test = q.test => r.attempt < q.attempt
  <2>1. CASE flush
    BY <1>4, <2>1
  <2>2. CASE ~ flush
    BY <1>3, <1>4, <1>5, <2>2 DEF Appended
  <2> QED
    BY <2>1, <2>2
<1>9. \A r \in rec2.buffer : IsRow(r) /\ IsRowOf(j, r) /\ r.inv = rec2.seq
  BY <1>3, <1>4 DEF Appended
<1>10. Appended(j, run2, rec2, rec2.buffer, rec2.attempts)
  <2>1. /\ Numbered(run2.results \cup rec2.buffer, rec2.seq, rec2.offsets, rec2.attempts)
        /\ \A s \in Tests : \A a \in 1 .. rec2.offsets[s] + rec2.attempts[s] :
             \E r \in run2.results \cup rec2.buffer : r.test = s /\ r.attempt = a
    <3>1. rec2.seq = rec.seq /\ rec2.offsets = rec.offsets /\ rec2.attempts = made
      BY <1>4
    <3>2. /\ Numbered(run.results \cup rows, rec.seq, rec.offsets, made)
          /\ \A s \in Tests : \A a \in 1 .. rec.offsets[s] + made[s] :
               \E r \in run.results \cup rows : r.test = s /\ r.attempt = a
      BY <1>3 DEF Appended
    <3>3. Numbered(run2.results \cup rec2.buffer, rec2.seq, rec2.offsets, rec2.attempts)
      BY <3>1, <3>2, <1>7
    <3>4. ASSUME NEW s \in Tests, NEW a \in 1 .. rec2.offsets[s] + rec2.attempts[s]
          PROVE  \E r \in run2.results \cup rec2.buffer : r.test = s /\ r.attempt = a
      <4>1. a \in 1 .. rec.offsets[s] + made[s]
        BY <3>1
      <4>2. \E r \in run.results \cup rows : r.test = s /\ r.attempt = a
        BY <3>2, <4>1
      <4> QED
        BY <4>2, <1>7
    <3> QED
      BY <3>3, <3>4
  <2> QED
    BY <2>1, <1>8, <1>9 DEF Appended
<1>11. SessionLog(j, run2, rec2)
  BY <1>4, <1>5, <1>10 DEF SessionLog, Seqs
<1> QED
  BY <1>6, <1>11

LEMMA SessionFinishedLog ==
  ASSUME NEW j, NEW run, NEW rec, JobInv(run, rec), IsLog(j, run), SessionLog(j, run, rec), rec.open,
         NEW status, NEW rows, NEW run2,
         rows = rec.buffer \cup NextRows(Untold(rec), rec.seq, run.invocations[rec.seq],
                                         rec.offsets, rec.attempts),
         run2 = [Stored(run, rows) EXCEPT !.status = status]
  PROVE  IsLog(j, run2) /\ Leads(run, run2)
<1> DEFINE U == Untold(rec)
<1>1. IsRun(run) /\ IsSession(run, rec)
  BY DEF JobInv
<1>2. U \subseteq Tests
  BY <1>1 DEF IsSession, Untold
<1>m. MakingLog(j, run, rec, U, rows)
  BY <1>2 DEF MakingLog, Making
<1>3. \E made \in [Tests -> Nat] : Appended(j, run, rec, rows, made)
  <2>1. MadeLog(j, run, rec, U, rows)
    BY <1>m, AppendedFurther
  <2> QED
    BY <2>1 DEF MadeLog
<1>4. run2.invocations = run.invocations /\ run2.results = run.results \cup rows
  <2>1. Making(run, rec, U, run.invocations[rec.seq], rows)
    BY <1>m DEF MakingLog
  <2>3. Made(run, rec, U, rows)
    BY <2>1, RowsMade
  <2>2. Stored(run, rows) = [run EXCEPT !.results = run.results \cup rows]
    BY <2>3 DEF Made
  <2> QED
    BY <1>1, <2>2 DEF IsRun
<1> QED
  <2>1. PICK made \in [Tests -> Nat] : Appended(j, run, rec, rows, made)
    BY <1>3
  <2>2. ExtendsLog(j, run, rec, rows, made)
    BY <2>1 DEF ExtendsLog
  <2> QED
    BY <2>2, <1>4, AppendedIsLog

LEMMA LogStep == BundlesInv /\ LogInv /\ [Next]_vars => LogInv'
<1> SUFFICES ASSUME BundlesInv, LogInv, [Next]_vars PROVE LogInv'
  OBVIOUS
<1>t. /\ \A j \in Jobs : JobInv(store[j], recorder[j])
      /\ store = [j \in Jobs |-> store[j]] /\ recorder = [j \in Jobs |-> recorder[j]]
      /\ \A j \in Jobs : IsLog(j, store[j])
                         /\ (recorder[j].open => SessionLog(j, store[j], recorder[j]))
  BY DEF BundlesInv, LogInv
<1>r. ASSUME NEW j \in Jobs, NEW U
      PROVE  { Row(j, t) : t \in U }
               = NextRows(U, recorder[j].seq, store[j].invocations[recorder[j].seq],
                          recorder[j].offsets, recorder[j].attempts)
  BY DEF Row, NextRows
<1>l. \A j \in Jobs : Leads(store[j], store[j])
  BY DEF Leads
<1>1. ASSUME NEW j \in Jobs, NEW selected \in Selections[j], SessionStart(j, selected)
      PROVE  LogInv'
  <2> DEFINE seq == NextSeq(store[j])
             run == [BeginRun(store[j]) EXCEPT
                       !.invocations = Extended(store[j].invocations, seq, << j, seq >>)]
             rec == [NoSession EXCEPT !.open = TRUE, !.seq = seq, !.selected = selected,
                                      !.offsets = [t \in Tests |-> MaxAttempt(store[j], t)],
                                      !.attempts = [t \in Tests |-> 0]]
  <2>1. selected \in SUBSET Tests
    BY BundlesAssumption
  <2>2. IsLog(j, run) /\ Leads(store[j], run) /\ SessionLog(j, run, rec)
    BY <1>t, <2>1, SessionStartedLog
  <2>3. store' = [store EXCEPT ![j] = run] /\ bundles' = bundles
    BY <1>1 DEF SessionStart
  <2>4. recorder' = [recorder EXCEPT ![j] = rec]
    BY <1>1 DEF SessionStart
  <2> HIDE DEF run, rec
  <2> QED
    BY <2>2, <2>3, <2>4, OneLogSteps
<1>2. ASSUME NEW j \in Jobs, StartFails(j) PROVE LogInv'
  <2> DEFINE run == BeginRun(store[j])
  <2>1. run.invocations = store[j].invocations /\ run.results = store[j].results
    BY <1>t DEF BeginRun, JobInv, IsRun
  <2>2. store' = [store EXCEPT ![j] = run] /\ recorder' = [recorder EXCEPT ![j] = recorder[j]]
        /\ bundles' = bundles /\ ~ recorder[j].open
    BY <1>2, <1>t DEF StartFails
  <2> HIDE DEF run
  <2>3. IsLog(j, run) /\ Leads(store[j], run)
    BY <2>1, <1>t, SameLog
  <2> QED
    BY <2>2, <2>3, OneLogSteps
<1>3. ASSUME NEW j \in Jobs, NEW t \in Tests, Begin(j, t) PROVE LogInv'
  <2> DEFINE rec == [recorder[j] EXCEPT !.running = recorder[j].running \cup {t}]
  <2>1. /\ rec.seq = recorder[j].seq /\ rec.buffer = recorder[j].buffer
        /\ rec.offsets = recorder[j].offsets /\ rec.attempts = recorder[j].attempts
    BY <1>t DEF JobInv, IsRecorder
  <2>2. store' = [store EXCEPT ![j] = store[j]] /\ recorder' = [recorder EXCEPT ![j] = rec]
        /\ bundles' = bundles /\ recorder[j].open
    BY <1>3, <1>t DEF Begin
  <2> HIDE DEF rec
  <2>4. SessionLog(j, store[j], recorder[j])
    BY <2>2, <1>t
  <2>3. SessionLog(j, store[j], rec)
    BY <2>1, <2>4 DEF SessionLog, Appended
  <2> QED
    BY <2>2, <2>3, <1>t, <1>l, OneLogSteps
<1>4. ASSUME NEW j \in Jobs, NEW t \in Tests, NEW flush \in BOOLEAN, Close(j, t, flush)
      PROVE  LogInv'
  <2> DEFINE rows == recorder[j].buffer \cup {Row(j, t)}
             run == IF flush THEN Stored(store[j], rows) ELSE store[j]
             rec == [recorder[j] EXCEPT
                       !.running = recorder[j].running \ {t},
                       !.attempts = [recorder[j].attempts EXCEPT ![t] = recorder[j].attempts[t] + 1],
                       !.buffer = IF flush THEN {} ELSE rows]
  <2>1. rows = recorder[j].buffer
                 \cup NextRows({t}, recorder[j].seq, store[j].invocations[recorder[j].seq],
                               recorder[j].offsets, recorder[j].attempts)
    <3>1. {Row(j, t)} = { Row(j, s) : s \in {t} }
      OBVIOUS
    <3> QED
      BY <3>1, <1>r
  <2>5. /\ recorder[j].open /\ t \in recorder[j].running
        /\ JobInv(store[j], recorder[j]) /\ IsLog(j, store[j]) /\ SessionLog(j, store[j], recorder[j])
    BY <1>4, <1>t DEF Close
  <2>2. IsLog(j, run) /\ Leads(store[j], run) /\ SessionLog(j, run, rec)
    <3> HIDE DEF rows
    <3> QED
      BY <2>1, <2>5, AttemptClosedLog
  <2>3. store' = [store EXCEPT ![j] = run] /\ bundles' = bundles
    BY <1>4, <1>t DEF Close
  <2>4. recorder' = [recorder EXCEPT ![j] = rec]
    BY <1>4, <1>t DEF Close
  <2> HIDE DEF run, rec
  <2> QED
    BY <2>2, <2>3, <2>4, OneLogSteps
<1>5. ASSUME NEW j \in Jobs, NEW status \in {"running", "finished"}, Finish(j, status)
      PROVE  LogInv'
  <2> DEFINE rows == recorder[j].buffer \cup { Row(j, t) : t \in Untold(recorder[j]) }
             run == [Stored(store[j], rows) EXCEPT !.status = status]
             rec == [recorder[j] EXCEPT !.open = FALSE, !.running = {}, !.buffer = {},
                                        !.attempts = [t \in Tests |-> 0]]
  <2>1. rows = recorder[j].buffer
                 \cup NextRows(Untold(recorder[j]), recorder[j].seq,
                               store[j].invocations[recorder[j].seq],
                               recorder[j].offsets, recorder[j].attempts)
    BY <1>r
  <2>2. IsLog(j, run) /\ Leads(store[j], run)
    <3> HIDE DEF rows
    <3> QED
      BY <1>5, <1>t, <2>1, SessionFinishedLog DEF Finish
  <2>3. store' = [store EXCEPT ![j] = run] /\ bundles' = bundles
    BY <1>5, <1>t DEF Finish
  <2>4. recorder' = [recorder EXCEPT ![j] = rec] /\ ~ rec.open
    BY <1>5, <1>t DEF Finish, JobInv, IsRecorder
  <2> HIDE DEF run, rec
  <2> QED
    BY <2>2, <2>3, <2>4, OneLogSteps
<1>6. ASSUME NEW j \in Jobs, Lose(j) PROVE LogInv'
  <2>1. store' = [store EXCEPT ![j] = store[j]] /\ recorder' = [recorder EXCEPT ![j] = NoSession]
        /\ bundles' = bundles
    BY <1>6, <1>t DEF Lose
  <2>2. ~ NoSession.open
    BY DEF NoSession
  <2> QED
    BY <2>1, <2>2, <1>t, <1>l, OneLogSteps
<1>7. ASSUME UNCHANGED << store, recorder, bundles >> PROVE LogInv'
  BY <1>7 DEF LogInv
<1>8. ASSUME NEW j \in Jobs, Export(j) PROVE LogInv'
  <2>1. /\ bundles' = [bundles EXCEPT ![j] = bundles[j] \cup {store[j]}]
        /\ store' = store /\ recorder' = recorder
    BY <1>8 DEF Export
  <2>2. bundles = [i \in Jobs |-> bundles[i]]
    BY DEF LogInv
  <2>3. \A i \in Jobs : bundles'[i] = IF i = j THEN bundles[j] \cup {store[j]} ELSE bundles[i]
    BY <2>1, <2>2
  <2>4. bundles' = [i \in Jobs |-> bundles'[i]]
    BY <2>1, <2>2
  <2>5. IsBundle(j, store[j])
    BY <1>t DEF IsBundle, JobInv
  <2>6. ASSUME NEW i \in Jobs
        PROVE  /\ \A p \in bundles'[i] : IsBundle(i, p) /\ Leads(p, store[i])
               /\ \A p, q \in bundles'[i] : Leads(p, q) \/ Leads(q, p)
    <3>1. /\ \A p \in bundles[i] : IsBundle(i, p) /\ Leads(p, store[i])
          /\ \A p, q \in bundles[i] : Leads(p, q) \/ Leads(q, p)
      BY DEF LogInv
    <3>2. CASE i = j
      BY <3>1, <3>2, <2>3, <2>5, <1>l
    <3>3. CASE i # j
      BY <3>1, <3>3, <2>3
    <3> QED
      BY <3>2, <3>3
  <2> QED
    BY <2>1, <2>4, <2>6, <1>t DEF LogInv
<1>9. ASSUME NEW j \in Jobs, NEW b \in bundles[j], Import(b) PROVE LogInv'
  BY <1>7, <1>9 DEF Import
<1>10. CASE UNCHANGED vars
  BY <1>7, <1>10 DEF vars
<1> QED
  BY <1>1, <1>2, <1>3, <1>4, <1>5, <1>6, <1>8, <1>9, <1>10 DEF Next

-----------------------------------------------------------------------------
(* Positions. *)

Below(k, numbers) == { i \in numbers : i < k }

LEMMA PositionType ==
  ASSUME NEW numbers \in SUBSET Nat, IsFiniteSet(numbers), NEW k \in Nat
  PROVE  /\ Position(k, numbers) \in Nat /\ Position(k, numbers) = Cardinality(Below(k, numbers))
         /\ IsFiniteSet(Below(k, numbers))
<1>1. IsFiniteSet(Below(k, numbers))
  BY FS_Subset DEF Below
<1> QED
  BY <1>1, FS_CardinalityType DEF Position, Below

LEMMA PositionGrows ==
  ASSUME NEW numbers \in SUBSET Nat, IsFiniteSet(numbers), NEW k \in numbers, NEW l \in Nat, k < l
  PROVE  Position(k, numbers) < Position(l, numbers)
<1> DEFINE A == Below(k, numbers)
           B == Below(l, numbers)
<1>1. IsFiniteSet(A) /\ IsFiniteSet(B)
  BY PositionType
<1>2. k \notin A /\ k \in B /\ A \subseteq B
  <2>1. \A i \in numbers : i \in Nat
    OBVIOUS
  <2>2. \A i \in numbers : i < k => i < l
    BY <2>1
  <2>3. ~ (k < k)
    BY <2>1
  <2> QED
    BY <2>2, <2>3 DEF Below
<1>3. A \in SUBSET B /\ A # B
  BY <1>2
<1> HIDE DEF A, B
<1>4. Cardinality(A) <= Cardinality(B) /\ Cardinality(B) # Cardinality(A)
  BY <1>1, <1>3, FS_Subset
<1>5. Cardinality(A) \in Nat /\ Cardinality(B) \in Nat
  BY <1>1, FS_CardinalityType
<1>6. Cardinality(A) < Cardinality(B)
  BY <1>4, <1>5
<1> QED
  BY <1>6, PositionType DEF A, B

\* A number is determined by its position.
LEMMA SamePosition ==
  ASSUME NEW numbers \in SUBSET Nat, IsFiniteSet(numbers), NEW k \in numbers, NEW l \in numbers,
         Position(k, numbers) = Position(l, numbers)
  PROVE  k = l
<1>1. Position(k, numbers) \in Nat /\ Position(l, numbers) \in Nat
  BY PositionType
<1>2. CASE k < l
  BY <1>1, <1>2, PositionGrows
<1>3. CASE l < k
  BY <1>1, <1>3, PositionGrows
<1> QED
  BY <1>2, <1>3

\* The positions are those from 0 to the number of numbers.
LEMMA PositionsAre ==
  ASSUME NEW numbers \in SUBSET Nat, IsFiniteSet(numbers)
  PROVE  /\ Cardinality(numbers) \in Nat
         /\ \A k \in numbers : Position(k, numbers) \in 0 .. Cardinality(numbers) - 1
         /\ \A n \in 0 .. Cardinality(numbers) - 1 :
              Nth(numbers, n) \in numbers /\ Position(Nth(numbers, n), numbers) = n
<1> DEFINE c == Cardinality(numbers)
           f == [k \in numbers |-> Position(k, numbers)]
<1>1. c \in Nat
  BY FS_CardinalityType
<1>2. ASSUME NEW k \in numbers PROVE Position(k, numbers) \in 0 .. c - 1
  <2>1. Below(k, numbers) \in SUBSET numbers /\ Below(k, numbers) # numbers
    BY DEF Below
  <2>2. IsFiniteSet(Below(k, numbers))
    BY PositionType
  <2>3. Cardinality(Below(k, numbers)) <= c /\ Cardinality(Below(k, numbers)) # c
    BY <2>1, FS_Subset
  <2>4. Cardinality(Below(k, numbers)) \in Nat
    BY <2>2, FS_CardinalityType
  <2>5. Position(k, numbers) = Cardinality(Below(k, numbers))
    BY PositionType
  <2> HIDE DEF c
  <2> QED
    BY <1>1, <2>3, <2>4, <2>5
<1>3. f \in Injection(numbers, 0 .. c - 1)
  <2>1. f \in [numbers -> 0 .. c - 1]
    BY <1>2
  <2>2. \A k, l \in numbers : f[k] = f[l] => k = l
    BY SamePosition
  <2> HIDE DEF f
  <2> QED
    BY <2>1, <2>2 DEF Injection, IsInjective
<1>4. IsFiniteSet(0 .. c - 1) /\ Cardinality(0 .. c - 1) = c
  <2>1. c - 1 \in Int
    BY <1>1
  <2> HIDE DEF c
  <2>2. IsFiniteSet(0 .. c - 1) /\ Cardinality(0 .. c - 1) = IF 0 > c - 1 THEN 0 ELSE (c - 1) - 0 + 1
    BY <2>1, FS_Interval
  <2> QED
    BY <1>1, <2>2
<1>5. f \in Surjection(numbers, 0 .. c - 1)
  <2> HIDE DEF f
  <2> QED
    BY <1>3, <1>4, FS_Injection
<1>6. ASSUME NEW n \in 0 .. c - 1
      PROVE  Nth(numbers, n) \in numbers /\ Position(Nth(numbers, n), numbers) = n
  <2>1. \E k \in numbers : f[k] = n
    <3> HIDE DEF f, c
    <3> QED
      BY <1>5 DEF Surjection
  <2>2. \E k \in numbers : Position(k, numbers) = n
    BY <2>1
  <2> QED
    BY <2>2 DEF Nth
<1> QED
  BY <1>1, <1>2, <1>6

\* What follows m without a gap.
LEMMA PositionAfter ==
  ASSUME NEW numbers \in SUBSET Nat, IsFiniteSet(numbers), NEW m \in Nat, NEW k \in Nat, k > m,
         Below(k, numbers) = m + 1 .. k - 1
  PROVE  Position(k, numbers) = k - m - 1
<1>1. Position(k, numbers) = Cardinality(m + 1 .. k - 1)
  BY PositionType
<1>2. Cardinality(m + 1 .. k - 1) = IF m + 1 > k - 1 THEN 0 ELSE (k - 1) - (m + 1) + 1
  <2>1. m + 1 \in Int /\ k - 1 \in Int
    OBVIOUS
  <2> QED
    BY <2>1, FS_Interval
<1> QED
  BY <1>1, <1>2

\* The rows of one test and one invocation, when their order is that of their numbers in it.
InRows(rows) ==
  /\ IsFiniteSet(rows)
  /\ \A r \in rows : r.attempt \in Nat /\ r.told[2] \in Nat /\ r.told[2] >= 1
  /\ \A q, r \in rows : /\ q.attempt < r.attempt => q.told[2] < r.told[2]
                        /\ q.attempt = r.attempt => q = r
  /\ \A r \in rows : \A n \in 1 .. r.told[2] : \E q \in rows : q.told[2] = n

LEMMA AttemptsOfRows ==
  ASSUME NEW rows, IsFiniteSet(rows), \A r \in rows : r.attempt \in Nat
  PROVE  { r.attempt : r \in rows } \in SUBSET Nat /\ IsFiniteSet({ r.attempt : r \in rows })
<1> DEFINE f == [r \in rows |-> r.attempt]
<1>1. f \in Surjection(rows, { r.attempt : r \in rows })
  BY DEF Surjection
<1> QED
  BY <1>1, FS_Surjection

LEMMA PositionInRows ==
  ASSUME NEW rows, InRows(rows), NEW r \in rows
  PROVE  Position(r.attempt, { q.attempt : q \in rows }) = r.told[2] - 1
<1> DEFINE A == { q.attempt : q \in rows }
           B == Below(r.attempt, A)
           n == r.told[2] - 1
           rowOf(i) == CHOOSE q \in rows : q.told[2] = i
           f == [i \in 1 .. n |-> rowOf(i).attempt]
<1>1. A \in SUBSET Nat /\ IsFiniteSet(A) /\ r.attempt \in Nat /\ n \in Nat
  BY AttemptsOfRows DEF InRows
<1>2. \A i \in 1 .. n : rowOf(i) \in rows /\ rowOf(i).told[2] = i
  <2>1. \A i \in 1 .. n : i \in 1 .. r.told[2]
    BY DEF InRows
  <2>2. \A i \in 1 .. n : \E q \in rows : q.told[2] = i
    BY <2>1 DEF InRows
  <2> QED
    BY <2>2
<1>3. \A i \in 1 .. n : rowOf(i).attempt \in Nat /\ rowOf(i).attempt < r.attempt
  <2> HIDE DEF rowOf
  <2> QED
    BY <1>2 DEF InRows
<1>4. \A q \in rows : q.attempt < r.attempt => q.told[2] \in 1 .. n
  BY DEF InRows
<1>5. \A p, q \in rows : p.told[2] = q.told[2] => p.attempt = q.attempt
  BY DEF InRows
<1> HIDE DEF n, rowOf
<1>6. f \in [1 .. n -> B]
  BY <1>2, <1>3 DEF Below
<1>7. f \in Bijection(1 .. n, B)
  <2>1. \A i, l \in 1 .. n : f[i] = f[l] => i = l
    BY <1>2 DEF InRows
  <2>2. \A a \in B : \E i \in 1 .. n : f[i] = a
    <3>1. ASSUME NEW a \in B PROVE \E i \in 1 .. n : f[i] = a
      <4>1. PICK q \in rows : q.attempt = a /\ a < r.attempt
        BY DEF Below
      <4>2. q.told[2] \in 1 .. n
        BY <1>4, <4>1
      <4> QED
        BY <4>1, <4>2, <1>2, <1>5
    <3> QED
      BY <3>1
  <2> HIDE DEF f, B
  <2> QED
    BY <1>6, <2>1, <2>2 DEF Bijection, Injection, Surjection, IsInjective
<1>8. Cardinality(1 .. n) = n /\ IsFiniteSet(1 .. n)
  BY <1>1, FS_Interval
<1>9. Cardinality(B) = n
  <2> HIDE DEF f, B
  <2>1. ExistsBijection(1 .. n, B)
    BY <1>7 DEF ExistsBijection
  <2> QED
    BY <1>8, <2>1, FS_Bijection
<1>10. Position(r.attempt, A) = n
  <2> HIDE DEF A
  <2> QED
    BY <1>1, <1>9, PositionType
<1> QED
  BY <1>10 DEF n

LEMMA CountOfRows ==
  ASSUME NEW rows, InRows(rows), NEW c, c = Cardinality({ q.attempt : q \in rows })
  PROVE  /\ c \in Nat
         /\ \A r \in rows : r.told[2] \in 1 .. c
         /\ \A n \in 1 .. c : \E r \in rows : r.told[2] = n
<1> DEFINE A == { q.attempt : q \in rows }
<1>1. A \in SUBSET Nat /\ IsFiniteSet(A)
  BY AttemptsOfRows DEF InRows
<1>2. \A r \in rows : r.attempt \in A /\ Position(r.attempt, A) = r.told[2] - 1
  BY PositionInRows
<1>3. \A a \in A : \E r \in rows : r.attempt = a
  OBVIOUS
<1>4. \A r \in rows : r.told[2] \in Nat
  BY DEF InRows
<1>5. c = Cardinality(A)
  OBVIOUS
<1> HIDE DEF A
<1>6. /\ c \in Nat
      /\ \A k \in A : Position(k, A) \in 0 .. c - 1
      /\ \A n \in 0 .. c - 1 : Nth(A, n) \in A /\ Position(Nth(A, n), A) = n
  BY <1>1, <1>5, PositionsAre
<1>7. \A r \in rows : r.told[2] \in 1 .. c
  BY <1>2, <1>4, <1>6
<1>8. ASSUME NEW n \in 1 .. c PROVE \E r \in rows : r.told[2] = n
  <2>1. n - 1 \in 0 .. c - 1
    BY <1>6
  <2>2. PICK r \in rows : r.attempt = Nth(A, n - 1)
    BY <2>1, <1>3, <1>6
  <2>3. r.told[2] - 1 = n - 1
    BY <2>1, <2>2, <1>2, <1>6
  <2> QED
    BY <2>3, <1>4
<1> QED
  BY <1>6, <1>7, <1>8

-----------------------------------------------------------------------------
(* The platform.  As long as no import gave two invocations one number:    *)
(* the invocations are those of the imported bundles, none under a number  *)
(* lower than its own; the rows are those of the imported bundles, and     *)
(* what one job tells of a test is in its order; and while all is of one   *)
(* job, numbers and attempts are its own.                                  *)

ImportedOf(j) == imported \cap bundles[j]

Numbering ==
  /\ \E n \in Nat : Seqs(central) = 1 .. n
  /\ \A s, u \in Seqs(central) : central.invocations[s] = central.invocations[u] => s = u
  /\ \A s \in Seqs(central) :
       \E j \in Jobs : \E p \in ImportedOf(j) : \E k \in Seqs(p) :
         k <= s /\ central.invocations[s] = << j, k >>
  /\ \A j \in Jobs : \A p \in ImportedOf(j) : \A k \in Seqs(p) :
       \E s \in Seqs(central) : central.invocations[s] = << j, k >>

SameAttempt(r, c) == c.test = r.test /\ c.told = r.told

Chronicle ==
  /\ IsFiniteSet(central.results) /\ Unique(central.results)
  /\ \A c \in central.results :
       IsRow(c) /\ c.inv \in Seqs(central) /\ central.invocations[c.inv] = c.told[1]
  /\ \A c, d \in central.results :
       c.test = d.test /\ c.told[1][1] = d.told[1][1] /\ c.attempt < d.attempt
         => Earlier(c.told, d.told)
  /\ \A j \in Jobs : \A p \in ImportedOf(j) : \A r \in p.results :
       \E c \in central.results : SameAttempt(r, c)
  /\ \A c \in central.results :
       \E j \in Jobs : \E p \in ImportedOf(j) : \E r \in p.results : SameAttempt(r, c)

Alone(j) == \A s \in Seqs(central) : central.invocations[s][1] = j

OneJobOnly ==
  \A j \in Jobs : Alone(j) =>
    /\ \A s \in Seqs(central) : central.invocations[s] = << j, s >>
    /\ central.results = UNION { p.results : p \in imported }

PlatformInv ==
  /\ DOMAIN central = {"status", "invocations", "results"}
  /\ imported \subseteq UNION { bundles[j] : j \in Jobs }
  /\ ~ collided => Numbering /\ Chronicle /\ OneJobOnly

\* A bundle is about to be imported, and its new invocations get numbers of their own.
Ready(j, b) ==
  /\ LogInv /\ Numbering /\ Chronicle /\ OneJobOnly
  /\ DOMAIN central = {"status", "invocations", "results"}
  /\ imported \subseteq UNION { bundles[i] : i \in Jobs }
  /\ j \in Jobs /\ b \in bundles[j]
  /\ \A k, l \in New(b) : NumberOf(b, k) = NumberOf(b, l) => k = l

-----------------------------------------------------------------------------
(* The numbers of the invocations. *)

LEMMA NumbersInLog ==
  ASSUME NEW j, NEW p, IsLog(j, p)
  PROVE  /\ \E n \in Nat : Seqs(p) = 1 .. n
         /\ \A k \in Seqs(p) : p.invocations[k] = << j, k >>
<1>1. PICK n \in Nat : p.invocations = InvocationsOf(j, n)
  BY DEF IsLog
<1> QED
  BY <1>1, NumbersOfLog

LEMMA NumbersOfBundle ==
  ASSUME NEW j \in Jobs, LogInv, NEW p \in bundles[j]
  PROVE  /\ \E n \in Nat : Seqs(p) = 1 .. n
         /\ \A k \in Seqs(p) : p.invocations[k] = << j, k >>
  BY NumbersInLog DEF LogInv, IsBundle

\* A bundle of two jobs tells of no invocation, and of no attempt.
LEMMA BundleOfTwo ==
  ASSUME NEW i, NEW j, NEW p, IsBundle(i, p), IsBundle(j, p), i # j
  PROVE  Seqs(p) = {} /\ p.results = {}
<1>1. Seqs(p) = {}
  <2>1. ASSUME NEW k \in Seqs(p) PROVE FALSE
    <3>1. p.invocations[k] = << i, k >> /\ p.invocations[k] = << j, k >>
      BY NumbersInLog DEF IsBundle
    <3>2. p.invocations[k][1] = i /\ p.invocations[k][1] = j
      BY <3>1
    <3> QED
      BY <3>2
  <2> QED
    BY <2>1
<1> QED
  BY <1>1 DEF IsBundle, IsRun

LEMMA MinOfOne ==
  ASSUME NEW k \in Int
  PROVE  Min({k}) = k
<1>1. {k} \in SUBSET Int /\ {k} # {} /\ IsFiniteSet({k})
  BY FS_Singleton
<1>2. Min({k}) \in {k}
  BY <1>1, MaxAndMin
<1> QED
  BY <1>2

LEMMA KnownInvocation ==
  ASSUME NEW j, NEW b, Ready(j, b), NEW k \in Seqs(b)
  PROVE  /\ \A s \in Seqs(central) : central.invocations[s] = << j, k >> => k \notin New(b) /\ NumberOf(b, k) = s
         /\ k \notin New(b) => /\ NumberOf(b, k) \in Seqs(central)
                               /\ central.invocations[NumberOf(b, k)] = << j, k >>
                               /\ k <= NumberOf(b, k)
<1>1. b.invocations[k] = << j, k >>
  BY NumbersOfBundle DEF Ready
<1>2. PICK n \in Nat : Seqs(central) = 1 .. n
  BY DEF Ready, Numbering
<1>3. ASSUME NEW s \in Seqs(central), central.invocations[s] = << j, k >>
      PROVE  k \notin New(b) /\ NumberOf(b, k) = s /\ k <= s
  <2>1. Same(b, k) = {s}
    BY <1>1, <1>3 DEF Same, Ready, Numbering
  <2>2. k \notin New(b)
    BY <2>1 DEF New
  <2>3. NumberOf(b, k) = Min({s})
    BY <2>1, <2>2 DEF NumberOf
  <2>4. Min({s}) = s
    <3>1. s \in Int
      BY <1>2
    <3> QED
      BY <3>1, MinOfOne
  <2>5. k <= s
    <3>1. PICK i \in Jobs, l \in Nat : l <= s /\ central.invocations[s] = << i, l >>
      <4>1. PICK i \in Jobs : \E p \in ImportedOf(i) : \E l \in Seqs(p) :
                  l <= s /\ central.invocations[s] = << i, l >>
        BY DEF Ready, Numbering
      <4>2. PICK p \in ImportedOf(i) : \E l \in Seqs(p) : l <= s /\ central.invocations[s] = << i, l >>
        BY <4>1
      <4>4. PICK l \in Seqs(p) : l <= s /\ central.invocations[s] = << i, l >>
        BY <4>2
      <4>3. l \in Nat
        BY NumbersOfBundle DEF Ready, ImportedOf
      <4> QED
        BY <4>3, <4>4
    <3>2. << i, l >> = << j, k >>
      BY <3>1, <1>3
    <3> QED
      BY <3>1, <3>2
  <2> QED
    BY <2>2, <2>3, <2>4, <2>5
<1>4. ASSUME k \notin New(b) PROVE \E s \in Seqs(central) : central.invocations[s] = << j, k >>
  BY <1>1, <1>4 DEF New, Same
<1> QED
  BY <1>3, <1>4

\* A job whose invocations reach beyond those of the platform is the only one there, or none of its
\* new ones keeps its number.
LEMMA AllTakenOrAlone ==
  ASSUME NEW j, NEW b, Ready(j, b)
  PROVE  /\ New(b) = Taken(b) \/ Alone(j)
         /\ Alone(j) => Taken(b) = {} /\ \A k \in Seqs(b) \ New(b) : NumberOf(b, k) = k
<1>1. PICK m \in Nat : Seqs(central) = 1 .. m
  BY DEF Ready, Numbering
<1>2. PICK n \in Nat : Seqs(b) = 1 .. n
  BY NumbersOfBundle DEF Ready
<1>3. NextSeq(central) = m + 1
  BY <1>1, NextOfAll
<1>4. New(b) \subseteq Seqs(b)
  BY DEF New
<1>5. ASSUME Alone(j)
      PROVE  Taken(b) = {} /\ \A k \in Seqs(b) \ New(b) : NumberOf(b, k) = k
  <2>1. \A s \in Seqs(central) : central.invocations[s] = << j, s >>
    BY <1>5 DEF Ready, OneJobOnly
  <2>2. \A k \in Seqs(b) \cap Seqs(central) : k \notin New(b) /\ NumberOf(b, k) = k
    BY <2>1, KnownInvocation
  <2>3. ASSUME NEW k \in Seqs(b) \ New(b) PROVE NumberOf(b, k) = k
    <3>1. NumberOf(b, k) \in Seqs(central) /\ central.invocations[NumberOf(b, k)] = << j, k >>
      BY KnownInvocation
    <3>2. central.invocations[NumberOf(b, k)] = << j, NumberOf(b, k) >>
      BY <3>1, <2>1
    <3>3. << j, k >> = << j, NumberOf(b, k) >>
      BY <3>1, <3>2
    <3> QED
      BY <3>3
  <2>4. Taken(b) = {}
    BY <2>2, <1>4 DEF Taken
  <2> QED
    BY <2>3, <2>4
<1>6. ASSUME NEW l \in New(b), l \notin Taken(b) PROVE m + 1 \in New(b) \ Taken(b)
  <2>1. l \in 1 .. n /\ l > m
    BY <1>1, <1>2, <1>4, <1>6 DEF Taken
  <2>2. m + 1 \in Seqs(b) /\ m + 1 \notin Seqs(central)
    BY <2>1, <1>1, <1>2
  <2>3. m + 1 \in New(b)
    <3>1. SUFFICES ASSUME m + 1 \notin New(b) PROVE FALSE
      OBVIOUS
    <3>2. NumberOf(b, m + 1) \in 1 .. m /\ m + 1 <= NumberOf(b, m + 1)
      BY <2>2, <3>1, <1>1, KnownInvocation
    <3> QED
      BY <3>2
  <2> QED
    BY <2>2, <2>3 DEF Taken
<1>7. ASSUME NEW l \in New(b), l \notin Taken(b) PROVE Taken(b) = {}
  <2>1. SUFFICES ASSUME Taken(b) # {} PROVE FALSE
    OBVIOUS
  <2>2. Taken(b) \in SUBSET Nat
    BY <1>1 DEF Taken
  <2>3. PICK k \in Taken(b) : \A i \in Taken(b) : k <= i
    BY <2>1, <2>2, LeastNumber
  <2>4. Position(k, Taken(b)) = 0
    <3>1. { i \in Taken(b) : i < k } = {}
      BY <2>2, <2>3
    <3> QED
      BY <3>1, FS_EmptySet DEF Position
  <2>5. k \in New(b) /\ NumberOf(b, k) = m + 1
    BY <2>3, <2>4, <1>3 DEF NumberOf, Taken
  <2>6. m + 1 \in New(b) /\ m + 1 \notin Taken(b) /\ NumberOf(b, m + 1) = m + 1
    BY <1>6, <1>7 DEF NumberOf
  <2> QED
    BY <2>3, <2>5, <2>6 DEF Ready
<1>8. ASSUME NEW l \in New(b), l \notin Taken(b) PROVE Alone(j)
  <2> DEFINE f == [k \in 1 .. m |-> NumberOf(b, k)]
  <2>1. \A k \in 1 .. m : k \in Seqs(b) /\ k \notin New(b)
    <3>1. m + 1 \in 1 .. n
      BY <1>2, <1>4, <1>6, <1>8
    <3>2. \A k \in 1 .. m : k \in Seqs(b) /\ k \in Seqs(central)
      BY <3>1, <1>1, <1>2
    <3> QED
      BY <3>2, <1>7, <1>8 DEF Taken
  <2>2. \A k \in 1 .. m : f[k] \in 1 .. m /\ central.invocations[f[k]] = << j, k >>
    BY <2>1, <1>1, KnownInvocation
  <2>3. \A k, i \in 1 .. m : f[k] = f[i] => k = i
    <3>1. ASSUME NEW k \in 1 .. m, NEW i \in 1 .. m, f[k] = f[i] PROVE k = i
      <4>1. << j, k >> = << j, i >>
        BY <3>1, <2>2
      <4> QED
        BY <4>1
    <3> QED
      BY <3>1
  <2>4. f \in Injection(1 .. m, 1 .. m)
    <3>1. f \in [1 .. m -> 1 .. m]
      BY <2>2
    <3> HIDE DEF f
    <3> QED
      BY <3>1, <2>3 DEF Injection, IsInjective
  <2> HIDE DEF f
  <2>5. f \in Surjection(1 .. m, 1 .. m)
    <3>1. IsFiniteSet(1 .. m)
      BY FS_Interval
    <3> QED
      BY <3>1, <2>4, FS_Injection
  <2>6. ASSUME NEW s \in Seqs(central) PROVE central.invocations[s][1] = j
    <3>1. PICK k \in 1 .. m : f[k] = s
      BY <1>1, <2>5 DEF Surjection
    <3>2. central.invocations[s] = << j, k >>
      BY <3>1, <2>2
    <3> QED
      BY <3>2
  <2> QED
    BY <2>6 DEF Alone
<1>9. Taken(b) \subseteq New(b)
  BY DEF Taken
<1> QED
  BY <1>5, <1>8, <1>9

GivenNumbers(b) == { NumberOf(b, k) : k \in New(b) }

LEMMA NewNumbers ==
  ASSUME NEW j, NEW b, Ready(j, b), NEW m \in Nat, Seqs(central) = 1 .. m
  PROVE  /\ \E q \in Nat : q >= m /\ GivenNumbers(b) = m + 1 .. q
         /\ \A k \in New(b) : k <= NumberOf(b, k)
<1> USE DEF GivenNumbers
<1>1. PICK n \in Nat : Seqs(b) = 1 .. n
  BY NumbersOfBundle DEF Ready
<1>2. NextSeq(central) = m + 1
  BY NextOfAll
<1>3. New(b) \subseteq 1 .. n
  BY <1>1 DEF New
<1>4. CASE New(b) = Taken(b)
  <2> DEFINE c == Cardinality(Taken(b))
  <2>1. Taken(b) \in SUBSET Nat /\ IsFiniteSet(Taken(b))
    <3>1. Taken(b) \in SUBSET (1 .. n) /\ IsFiniteSet(1 .. n)
      BY <1>3, FS_Interval DEF Taken
    <3> QED
      BY <3>1, FS_Subset
  <2>2. /\ c \in Nat
        /\ \A k \in Taken(b) : Position(k, Taken(b)) \in 0 .. c - 1
        /\ \A i \in 0 .. c - 1 : Nth(Taken(b), i) \in Taken(b) /\ Position(Nth(Taken(b), i), Taken(b)) = i
    BY <2>1, PositionsAre
  <2>3. \A k \in New(b) : NumberOf(b, k) = m + 1 + Position(k, Taken(b))
    BY <1>2, <1>4 DEF NumberOf
  <2> HIDE DEF c
  <2>4. \A k \in New(b) : NumberOf(b, k) \in m + 1 .. m + c /\ k <= NumberOf(b, k)
    <3> SUFFICES ASSUME NEW k \in New(b)
                 PROVE  NumberOf(b, k) \in m + 1 .. m + c /\ k <= NumberOf(b, k)
      OBVIOUS
    <3>1. k \in 1 .. m
      BY <1>4 DEF Taken
    <3>2. Position(k, Taken(b)) \in 0 .. c - 1 /\ c \in Nat
      BY <1>4, <2>2
    <3>3. NumberOf(b, k) = m + 1 + Position(k, Taken(b))
      BY <2>3
    <3> QED
      BY <3>1, <3>2, <3>3
  <2>5. ASSUME NEW s \in m + 1 .. m + c PROVE \E k \in New(b) : NumberOf(b, k) = s
    <3>1. s - m - 1 \in 0 .. c - 1
      BY <2>2
    <3>2. Nth(Taken(b), s - m - 1) \in New(b) /\ NumberOf(b, Nth(Taken(b), s - m - 1)) = m + 1 + (s - m - 1)
      BY <3>1, <2>2, <2>3, <1>4
    <3> QED
      BY <3>2
  <2>6. { NumberOf(b, k) : k \in New(b) } = m + 1 .. m + c
    BY <2>4, <2>5
  <2>7. m + c \in Nat /\ m + c >= m
    BY <2>2
  <2> QED
    BY <2>4, <2>6, <2>7
<1>5. CASE Alone(j)
  <2>1. Taken(b) = {} /\ \A k \in Seqs(b) \ New(b) : NumberOf(b, k) = k
    BY <1>5, AllTakenOrAlone
  <2>2. \A k \in New(b) : NumberOf(b, k) = k /\ k > m
    BY <2>1, <1>3 DEF NumberOf, Taken
  <2>3. ASSUME NEW k \in m + 1 .. n PROVE k \in New(b)
    <3>1. SUFFICES ASSUME k \notin New(b) PROVE FALSE
      OBVIOUS
    <3>2. k \in Seqs(b) \ New(b)
      BY <3>1, <1>1
    <3>3. NumberOf(b, k) \in 1 .. m
      BY <3>2, KnownInvocation
    <3> QED
      BY <3>2, <3>3, <2>1
  <2>4. New(b) = m + 1 .. n
    <3>1. \A k \in New(b) : k \in m + 1 .. n
      BY <2>2, <1>3
    <3> QED
      BY <3>1, <2>3
  <2>5. { NumberOf(b, k) : k \in New(b) } = m + 1 .. n
    BY <2>2, <2>4
  <2>6. CASE n >= m
    BY <2>2, <2>5, <2>6, <1>3
  <2>7. CASE n < m
    <3>1. m + 1 .. n = m + 1 .. m
      BY <2>7
    <3> QED
      BY <3>1, <2>2, <2>5, <1>3
  <2> QED
    BY <2>6, <2>7
<1> QED
  BY <1>4, <1>5, AllTakenOrAlone

LEMMA NumbersAfter ==
  ASSUME NEW j, NEW b, Ready(j, b), NEW added, added = AddedInvocations(b)
  PROVE  /\ \E q \in Nat : DOMAIN added = 1 .. q
         /\ \A s \in Seqs(central) : s \in DOMAIN added /\ added[s] = central.invocations[s]
         /\ \A k \in Seqs(b) : NumberOf(b, k) \in DOMAIN added /\ added[NumberOf(b, k)] = << j, k >>
         /\ \A s \in DOMAIN added \ Seqs(central) :
              \E k \in New(b) : s = NumberOf(b, k) /\ k <= s
<1>1. PICK m \in Nat : Seqs(central) = 1 .. m
  BY DEF Ready, Numbering
<1>2. PICK q \in Nat : q >= m /\ GivenNumbers(b) = m + 1 .. q
  BY <1>1, NewNumbers
<1>3. \A k \in New(b) : k <= NumberOf(b, k)
  BY <1>1, NewNumbers
<1>4. /\ DOMAIN added = Seqs(central) \cup GivenNumbers(b)
      /\ \A k \in New(b) : NumberOf(b, k) \in GivenNumbers(b)
      /\ \A s \in GivenNumbers(b) : \E k \in New(b) : NumberOf(b, k) = s
  BY DEF AddedInvocations, GivenNumbers
<1>5. DOMAIN added = 1 .. q
  BY <1>1, <1>2, <1>4
<1>6. \A s \in Seqs(central) : s \in DOMAIN added /\ added[s] = central.invocations[s]
  BY DEF AddedInvocations
<1>7. ASSUME NEW k \in New(b)
      PROVE  NumberOf(b, k) \in DOMAIN added /\ added[NumberOf(b, k)] = << j, k >>
  <2> DEFINE s == NumberOf(b, k)
             one == { l \in New(b) : NumberOf(b, l) = s }
  <2>1. s \in DOMAIN added /\ s \notin Seqs(central)
    BY <1>1, <1>2, <1>4
  <2>2. added[s] = b.invocations[Min(one)]
    BY <2>1, <1>4 DEF AddedInvocations, GivenNumbers
  <2>3. one = {k}
    BY DEF Ready
  <2>4. k \in Seqs(b) /\ k \in Int /\ b.invocations[k] = << j, k >>
    BY NumbersOfBundle DEF Ready, New
  <2>5. Min({k}) = k
    BY <2>4, MinOfOne
  <2> HIDE DEF s, one
  <2>6. added[s] = << j, k >>
    BY <2>2, <2>3, <2>4, <2>5
  <2> QED
    BY <2>1, <2>6 DEF s
<1>8. ASSUME NEW k \in Seqs(b)
      PROVE  NumberOf(b, k) \in DOMAIN added /\ added[NumberOf(b, k)] = << j, k >>
  <2>1. CASE k \in New(b)
    BY <2>1, <1>7
  <2>2. CASE k \notin New(b)
    BY <2>2, <1>6, KnownInvocation
  <2> QED
    BY <2>1, <2>2
<1>9. \A s \in DOMAIN added \ Seqs(central) : \E k \in New(b) : s = NumberOf(b, k) /\ k <= s
  BY <1>3, <1>4
<1> QED
  BY <1>5, <1>6, <1>8, <1>9

-----------------------------------------------------------------------------
(* The numbers of the attempts. *)

Held(r) == \E c \in central.results : SameAttempt(r, c)

LEMMA RowsOfBundle ==
  ASSUME NEW j \in Jobs, LogInv, NEW p \in bundles[j]
  PROVE  /\ IsRun(p) /\ Unique(p.results)
         /\ \A r \in p.results :
              /\ IsRow(r) /\ IsRowOf(j, r)
              /\ r.test \in Tests /\ r.attempt \in Nat /\ r.attempt >= 1
              /\ r.inv \in Nat /\ r.inv \in Seqs(p) /\ r.told[2] \in Nat /\ r.told[2] >= 1
              /\ r.told = << << j, r.inv >>, r.told[2] >>
              /\ r.told[1] = << j, r.inv >> /\ r.told[1][1] = j /\ r.told[1][2] = r.inv
         /\ \A q, r \in p.results : q.test = r.test /\ q.attempt < r.attempt => Earlier(q.told, r.told)
         /\ \A r \in p.results : \A n \in 1 .. r.told[2] :
              \E q \in p.results : q.test = r.test /\ q.inv = r.inv /\ q.told[2] = n
         /\ \A r \in p.results : \A a \in 1 .. r.attempt :
              \E q \in p.results : q.test = r.test /\ q.attempt = a
<1>1. IsRun(p) /\ Unique(p.results) /\ IsLog(j, p)
  BY DEF LogInv, IsBundle
<1>2. ASSUME NEW r \in p.results
      PROVE  /\ IsRow(r) /\ IsRowOf(j, r)
             /\ r.test \in Tests /\ r.attempt \in Nat /\ r.attempt >= 1
             /\ r.inv \in Nat /\ r.inv \in Seqs(p) /\ r.told[2] \in Nat /\ r.told[2] >= 1
             /\ r.told = << << j, r.inv >>, r.told[2] >>
             /\ r.told[1] = << j, r.inv >> /\ r.told[1][1] = j /\ r.told[1][2] = r.inv
  <2>1. IsRow(r) /\ r.inv \in Seqs(p) /\ IsRowOf(j, r)
    BY <1>1 DEF IsRun, IsLog
  <2>2. /\ r.told = << << j, r.inv >>, r.told[2] >> /\ r.attempt >= 1 /\ r.told[2] >= 1
    BY <2>1 DEF IsRowOf
  <2>3. r.told[1] = << j, r.inv >>
    BY <2>2
  <2>4. r.told[1][1] = j /\ r.told[1][2] = r.inv
    BY <2>3
  <2> QED
    BY <2>1, <2>2, <2>3, <2>4 DEF IsRow
<1>3. \A q, r \in p.results : q.test = r.test /\ q.attempt < r.attempt => Earlier(q.told, r.told)
  BY <1>1 DEF IsLog, Of
<1>4. \A r \in p.results : \A n \in 1 .. r.told[2] :
        \E q \in p.results : q.test = r.test /\ q.inv = r.inv /\ q.told[2] = n
  BY <1>1 DEF IsLog, Of
<1>5. \A r \in p.results : \A a \in 1 .. r.attempt :
        \E q \in p.results : q.test = r.test /\ q.attempt = a
  BY <1>1 DEF IsLog, Of
<1> QED
  BY <1>1, <1>2, <1>3, <1>4, <1>5

\* The attempts of a test are in the order of their invocations, and its numbers in an invocation
\* have no gap.
ToldInOrder(S) == \A q, r \in S : q.test = r.test /\ q.attempt < r.attempt => Earlier(q.told, r.told)
ToldFromFirst(S) ==
  \A r \in S : \A n \in 1 .. r.told[2] :
    \E q \in S : q.test = r.test /\ q.inv = r.inv /\ q.told[2] = n

LEMMA OrderOfBundle ==
  ASSUME NEW j \in Jobs, LogInv, NEW p \in bundles[j]
  PROVE  ToldInOrder(p.results) /\ ToldFromFirst(p.results)
<1>1. IsLog(j, p)
  BY DEF LogInv, IsBundle
<1>2. ToldInOrder(p.results)
  BY <1>1 DEF IsLog, Of, ToldInOrder
<1>3. ToldFromFirst(p.results)
  BY <1>1 DEF IsLog, Of, ToldFromFirst
<1> QED
  BY <1>2, <1>3

LEMMA RowNumbers ==
  ASSUME NEW j \in Jobs, LogInv, NEW p \in bundles[j], NEW r \in p.results
  PROVE  r.attempt \in Nat /\ r.told[1][2] \in Nat /\ r.told[2] \in Nat
<1>1. r.attempt \in Nat /\ r.told[2] \in Nat /\ r.inv \in Nat /\ r.told[1][2] = r.inv
  BY RowsOfBundle
<1> QED
  BY <1>1

\* In the run of a job, an attempt of a test is told once.
LEMMA ToldOnce ==
  ASSUME NEW j \in Jobs, LogInv, NEW p \in bundles[j], NEW q \in p.results, NEW r \in p.results,
         q.test = r.test, q.told = r.told
  PROVE  q = r
<1>1. /\ q.attempt \in Nat /\ r.attempt \in Nat
      /\ q.told[1][2] \in Nat /\ q.told[2] \in Nat
  BY RowsOfBundle
<1>2. ~ Earlier(q.told, r.told) /\ ~ Earlier(r.told, q.told)
  BY <1>1 DEF Earlier
<1>3. ~ (q.attempt < r.attempt) /\ ~ (r.attempt < q.attempt)
  BY <1>2, RowsOfBundle
<1>4. q.attempt = r.attempt
  BY <1>1, <1>3
<1> QED
  BY <1>4, RowsOfBundle DEF Unique

RowsIn(run, t, inv) == { r \in Of(run, t) : r.inv = inv }

LEMMA BundleInRows ==
  ASSUME NEW j \in Jobs, LogInv, NEW p \in bundles[j], NEW t, NEW k
  PROVE  InRows(RowsIn(p, t, k))
<1> DEFINE rows == RowsIn(p, t, k)
<1>1. rows \subseteq p.results /\ \A r \in rows : r.test = t /\ r.inv = k
  BY DEF Of, RowsIn
<1>2. \A r \in p.results : r.test = t /\ r.inv = k => r \in rows
  BY DEF Of, RowsIn
<1>3. IsFiniteSet(rows)
  BY <1>1, RowsOfBundle, FS_Subset DEF IsRun
<1> HIDE DEF rows
<1>4. \A r \in rows : /\ r.attempt \in Nat /\ r.told[2] \in Nat /\ r.told[2] >= 1
                      /\ r.told[1][2] = k /\ k \in Nat
  BY <1>1, RowsOfBundle
<1>5. \A q, r \in rows : q.attempt < r.attempt => q.told[2] < r.told[2]
  <2>1. ASSUME NEW q \in rows, NEW r \in rows, q.attempt < r.attempt PROVE q.told[2] < r.told[2]
    <3>1. Earlier(q.told, r.told)
      <4>1. q \in p.results /\ r \in p.results /\ q.test = r.test
        BY <1>1
      <4> QED
        BY <2>1, <4>1, OrderOfBundle DEF ToldInOrder
    <3> QED
      BY <3>1, <1>4 DEF Earlier
  <2> QED
    BY <2>1
<1>6. \A q, r \in rows : q.attempt = r.attempt => q = r
  <2>1. Unique(p.results)
    BY RowsOfBundle
  <2>2. ASSUME NEW q \in rows, NEW r \in rows, q.attempt = r.attempt PROVE q = r
    <3>1. q \in p.results /\ r \in p.results /\ q.test = r.test
      BY <1>1
    <3> QED
      BY <2>1, <2>2, <3>1 DEF Unique
  <2> QED
    BY <2>2
<1>7. \A r \in rows : \A n \in 1 .. r.told[2] : \E q \in rows : q.told[2] = n
  BY <1>1, <1>2, OrderOfBundle DEF ToldFromFirst
<1>8. InRows(rows)
  BY <1>3, <1>4, <1>5, <1>6, <1>7 DEF InRows
<1> QED
  BY <1>8 DEF rows

\* Where a row of the platform comes from.
LEMMA Origin ==
  ASSUME LogInv, Chronicle, NEW c \in central.results
  PROVE  \E i \in Jobs : \E p \in ImportedOf(i) : \E r \in p.results :
           /\ SameAttempt(r, c) /\ c.told = << << i, r.inv >>, r.told[2] >>
           /\ c.told[1] = << i, r.inv >> /\ c.told[1][1] = i /\ c.told[1][2] = r.inv
           /\ c.told[2] = r.told[2] /\ central.invocations[c.inv] = << i, r.inv >>
           /\ r.inv \in Nat /\ r.told[2] \in Nat /\ r.told[2] >= 1 /\ r.test = c.test
           /\ p \in bundles[i]
<1>1. PICK i \in Jobs : \E p \in ImportedOf(i) : \E r \in p.results : SameAttempt(r, c)
  BY DEF Chronicle
<1>2. PICK p \in ImportedOf(i) : \E r \in p.results : SameAttempt(r, c)
  BY <1>1
<1>3. PICK r \in p.results : SameAttempt(r, c)
  BY <1>2
<1>4. p \in bundles[i]
  BY DEF ImportedOf
<1>5. /\ r.told = << << i, r.inv >>, r.told[2] >>
      /\ r.told[1] = << i, r.inv >> /\ r.told[1][1] = i /\ r.told[1][2] = r.inv
      /\ r.inv \in Nat /\ r.told[2] \in Nat /\ r.told[2] >= 1
  BY <1>4, RowsOfBundle
<1>6. c.test = r.test /\ c.told = r.told
  BY <1>3 DEF SameAttempt
<1>7. central.invocations[c.inv] = c.told[1]
  BY DEF Chronicle
<1> QED
  BY <1>3, <1>4, <1>5, <1>6, <1>7

LEMMA PlatformInRows ==
  ASSUME LogInv, Numbering, Chronicle, NEW t, NEW u \in Seqs(central)
  PROVE  InRows(RowsIn(central, t, u))
<1> DEFINE rows == RowsIn(central, t, u)
<1>1. rows \subseteq central.results /\ \A r \in rows : r.test = t /\ r.inv = u
  BY DEF Of, RowsIn
<1>2. \A r \in central.results : r.test = t /\ r.inv = u => r \in rows
  BY DEF Of, RowsIn
<1>3. IsFiniteSet(rows)
  BY <1>1, FS_Subset DEF Chronicle
<1> HIDE DEF rows
<1>4. \A r \in rows : r.attempt \in Nat /\ r.told[1] = central.invocations[u]
  BY <1>1 DEF Chronicle, IsRow
<1>5. \A r \in rows : r.told[2] \in Nat /\ r.told[2] >= 1 /\ r.told[1][2] \in Nat
  BY <1>1, Origin
<1>6. \A q, r \in rows : q.attempt < r.attempt => q.told[2] < r.told[2]
  <2>1. ASSUME NEW q \in rows, NEW r \in rows, q.attempt < r.attempt PROVE q.told[2] < r.told[2]
    <3>1. Earlier(q.told, r.told)
      BY <1>1, <1>4, <2>1 DEF Chronicle
    <3> QED
      BY <3>1, <1>4, <1>5 DEF Earlier
  <2> QED
    BY <2>1
<1>7. \A q, r \in rows : q.attempt = r.attempt => q = r
  BY <1>1 DEF Chronicle, Unique
<1>8. ASSUME NEW d \in rows, NEW n \in 1 .. d.told[2] PROVE \E q \in rows : q.told[2] = n
  <2>1. PICK i \in Jobs : \E p \in ImportedOf(i) : \E r \in p.results :
           /\ SameAttempt(r, d) /\ d.told[1] = << i, r.inv >>
           /\ d.told[2] = r.told[2] /\ r.test = d.test /\ p \in bundles[i]
    BY <1>1, Origin
  <2>2. PICK p \in ImportedOf(i) : \E r \in p.results :
           /\ SameAttempt(r, d) /\ d.told[1] = << i, r.inv >>
           /\ d.told[2] = r.told[2] /\ r.test = d.test /\ p \in bundles[i]
    BY <2>1
  <2>3. PICK r \in p.results :
           /\ SameAttempt(r, d) /\ d.told[1] = << i, r.inv >>
           /\ d.told[2] = r.told[2] /\ r.test = d.test /\ p \in bundles[i]
    BY <2>2
  <2>4. PICK q \in p.results : q.test = r.test /\ q.inv = r.inv /\ q.told[2] = n
    BY <2>3, RowsOfBundle
  <2>5. q.told[1] = << i, r.inv >>
    BY <2>3, <2>4, RowsOfBundle
  <2>6. PICK c \in central.results : SameAttempt(q, c)
    BY DEF Chronicle
  <2>7. c.test = t /\ c.told[1] = central.invocations[u] /\ c.told[2] = n
    BY <1>1, <1>4, <2>3, <2>4, <2>5, <2>6 DEF SameAttempt
  <2>8. c.inv = u
    BY <2>7 DEF Chronicle, Numbering
  <2> QED
    BY <1>2, <2>7, <2>8
<1>9. InRows(rows)
  BY <1>3, <1>4, <1>5, <1>6, <1>7, <1>8 DEF InRows
<1> QED
  BY <1>9 DEF rows

LEMMA PlatformIsRun ==
  ASSUME Numbering, Chronicle, DOMAIN central = {"status", "invocations", "results"}
  PROVE  IsRun(central)
<1>1. PICK m \in Nat : Seqs(central) = 1 .. m
  BY DEF Numbering
<1>2. Seqs(central) \subseteq Nat /\ IsFiniteSet(Seqs(central))
  BY <1>1, FS_Interval
<1> QED
  BY <1>2 DEF IsRun, Chronicle

\* A row of a known invocation continues it unless it is held.
LEMMA ContinuesUnlessHeld ==
  ASSUME NEW j, NEW b, Ready(j, b), NEW r \in b.results
  PROVE  /\ r.inv \in New(b) => ~ Held(r)
         /\ r.inv \notin New(b) =>
              /\ Continues(b, r) <=> ~ Held(r)
              /\ Held(r) => AttemptOf(b, r) \in { c.attempt : c \in Of(central, r.test) }
<1> DEFINE t == r.test
           k == r.inv
           u == NumberOf(b, k)
           rows == RowsIn(central, t, u)
           c == Cardinality(AttemptsOf(central, t, u))
           n == Position(r.attempt, AttemptsOf(b, t, k))
<1>1. /\ LogInv /\ Numbering /\ Chronicle /\ j \in Jobs /\ b \in bundles[j]
  BY DEF Ready
<1>2. /\ k \in Seqs(b) /\ r.told = << << j, k >>, r.told[2] >> /\ r.told[1] = << j, k >>
      /\ r.told[2] \in Nat /\ r.told[2] >= 1
  BY <1>1, RowsOfBundle
<1>3. ASSUME NEW d \in central.results, SameAttempt(r, d)
      PROVE  k \notin New(b) /\ d.inv = u /\ d \in Of(central, t)
  <2>1. d.inv \in Seqs(central) /\ central.invocations[d.inv] = << j, k >> /\ d.test = t
    BY <1>1, <1>2, <1>3 DEF Chronicle, SameAttempt
  <2> QED
    BY <2>1, <1>2, KnownInvocation DEF Of
<1>4. k \in New(b) => ~ Held(r)
  BY <1>3 DEF Held
<1>5. ASSUME k \notin New(b)
      PROVE  /\ Continues(b, r) <=> ~ Held(r)
             /\ Held(r) => AttemptOf(b, r) \in { q.attempt : q \in Of(central, t) }
  <2>1. u \in Seqs(central) /\ central.invocations[u] = << j, k >>
    BY <1>2, <1>5, KnownInvocation
  <2>2. InRows(rows) /\ AttemptsOf(central, t, u) = { q.attempt : q \in rows }
    BY <1>1, <2>1, PlatformInRows DEF AttemptsOf, RowsIn
  <2>3. n = r.told[2] - 1
    <3>1. InRows(RowsIn(b, t, k)) /\ r \in RowsIn(b, t, k)
      <4>1. InRows(RowsIn(b, t, k))
        BY <1>1, BundleInRows
      <4>2. r \in RowsIn(b, t, k)
        BY DEF Of, RowsIn
      <4> QED
        BY <4>1, <4>2
    <3> QED
      BY <3>1, PositionInRows DEF AttemptsOf, RowsIn
  <2>4. /\ c \in Nat /\ \A d \in rows : d.told[2] \in 1 .. c
        /\ \A i \in 1 .. c : \E d \in rows : d.told[2] = i
    <3> HIDE DEF rows
    <3> QED
      BY <2>2, CountOfRows
  <2>5. \A d \in rows : d \in central.results /\ d.test = t /\ d.inv = u
    BY DEF Of, RowsIn
  <2>6. Held(r) <=> r.told[2] <= c
    <3>1. ASSUME Held(r) PROVE r.told[2] <= c
      <4>1. PICK d \in central.results : SameAttempt(r, d)
        BY <3>1 DEF Held
      <4>2. d \in rows
        BY <4>1, <1>3 DEF RowsIn
      <4>3. d.told[2] = r.told[2]
        BY <4>1 DEF SameAttempt
      <4> HIDE DEF rows, c
      <4> QED
        BY <4>2, <4>3, <2>4
    <3>2. ASSUME r.told[2] <= c PROVE Held(r)
      <4>1. r.told[2] \in 1 .. c
        BY <3>2, <2>4, <1>2
      <4>2. PICK d \in rows : d.told[2] = r.told[2]
        BY <4>1, <2>4
      <4>3. d \in central.results /\ d.test = t /\ d.inv = u
        BY <2>5
      <4>4. PICK i \in Jobs, l \in Nat :
               /\ d.told = << << i, l >>, d.told[2] >> /\ central.invocations[d.inv] = << i, l >>
        BY <1>1, <4>3, Origin
      <4>5. << i, l >> = << j, k >>
        BY <4>3, <4>4, <2>1
      <4>6. d.told = r.told
        BY <4>2, <4>4, <4>5, <1>2
      <4> QED
        BY <4>3, <4>6 DEF Held, SameAttempt
    <3> QED
      BY <3>1, <3>2
  <2>7. Continues(b, r) <=> n >= c
    BY <1>5 DEF Continues, Taken
  <2>8. Continues(b, r) <=> ~ Held(r)
    <3> HIDE DEF n, c
    <3> QED
      BY <2>3, <2>4, <2>6, <2>7, <1>2
  <2>9. ASSUME Held(r) PROVE AttemptOf(b, r) \in { q.attempt : q \in Of(central, t) }
    <3>1. AttemptOf(b, r) = Nth(AttemptsOf(central, t, u), n)
      BY <2>8, <2>9, <1>5 DEF AttemptOf
    <3>2. n \in 0 .. c - 1
      <4> HIDE DEF n, c
      <4> QED
        BY <2>3, <2>4, <2>6, <2>9, <1>2
    <3>3. AttemptsOf(central, t, u) \in SUBSET Nat /\ IsFiniteSet(AttemptsOf(central, t, u))
      <4> HIDE DEF rows
      <4>1. IsFiniteSet(rows) /\ \A d \in rows : d.attempt \in Nat
        BY <2>2 DEF InRows
      <4> QED
        BY <4>1, <2>2, AttemptsOfRows
    <3>4. Nth(AttemptsOf(central, t, u), n) \in AttemptsOf(central, t, u)
      BY <3>2, <3>3, PositionsAre
    <3>5. AttemptsOf(central, t, u) \subseteq { q.attempt : q \in Of(central, t) }
      BY DEF AttemptsOf
    <3> QED
      BY <3>1, <3>4, <3>5
  <2> QED
    BY <2>8, <2>9
<1> QED
  BY <1>4, <1>5

\* While all is of one job, the platform holds its rows as they are, up to an attempt of each test.
LEMMA HeldWhenAlone ==
  ASSUME NEW j, NEW b, Ready(j, b), Alone(j), NEW r \in b.results
  PROVE  /\ Held(r) => r \in central.results
         /\ ~ Held(r) => r.attempt > MaxAttempt(central, r.test)
<1>1. /\ LogInv /\ Numbering /\ Chronicle /\ j \in Jobs /\ b \in bundles[j]
      /\ IsRun(central) /\ central.results = UNION { p.results : p \in imported }
  BY PlatformIsRun DEF Ready, OneJobOnly
<1>2. ASSUME NEW c \in central.results
      PROVE  \E p \in bundles[j] : p \in imported /\ c \in p.results
  <2>1. PICK p \in imported : c \in p.results
    BY <1>1
  <2>2. PICK i \in Jobs : p \in bundles[i]
    BY DEF Ready
  <2>3. c.inv \in Seqs(p)
    BY <1>1, <2>1, <2>2, RowsOfBundle
  <2>4. PICK s \in Seqs(central) : central.invocations[s] = << i, c.inv >>
    BY <1>1, <2>2, <2>3 DEF Numbering, ImportedOf
  <2>5. i = j
    <3>1. central.invocations[s][1] = i
      BY <2>4
    <3> QED
      BY <3>1 DEF Alone
  <2> QED
    BY <2>1, <2>2, <2>5
<1>3. ASSUME NEW p \in bundles[j] PROVE Leads(p, b) \/ Leads(b, p)
  BY <1>1 DEF LogInv
<1>4. ASSUME Held(r) PROVE r \in central.results
  <2>1. PICK c \in central.results : SameAttempt(r, c)
    BY <1>4 DEF Held
  <2>2. PICK p \in bundles[j] : p \in imported /\ c \in p.results
    BY <1>2
  <2>3. c = r
    <3>1. CASE Leads(p, b)
      <4>1. c \in b.results
        BY <2>2, <3>1 DEF Leads
      <4> QED
        BY <4>1, <1>1, <2>1, ToldOnce DEF SameAttempt
    <3>2. CASE Leads(b, p)
      <4>1. r \in p.results
        BY <3>2 DEF Leads
      <4> QED
        BY <4>1, <1>1, <2>1, <2>2, ToldOnce DEF SameAttempt
    <3> QED
      BY <1>3, <3>1, <3>2
  <2> QED
    BY <2>3
<1>5. ASSUME ~ Held(r), NEW c \in Of(central, r.test) PROVE c.attempt < r.attempt
  <2>1. c \in central.results /\ c.test = r.test
    BY DEF Of
  <2>2. PICK p \in bundles[j] : p \in imported /\ c \in p.results
    BY <2>1, <1>2
  <2>3. r \notin p.results
    <3>1. ASSUME r \in p.results PROVE FALSE
      <4>1. r \in central.results
        BY <1>1, <2>2, <3>1
      <4> QED
        BY <4>1, <1>5 DEF Held, SameAttempt
    <3> QED
      BY <3>1
  <2>4. Leads(p, b)
    BY <1>3, <2>3 DEF Leads
  <2> QED
    BY <2>1, <2>2, <2>3, <2>4 DEF Leads
<1>6. ASSUME ~ Held(r) PROVE r.attempt > MaxAttempt(central, r.test)
  <2>1. r.attempt \in Nat /\ r.attempt >= 1
    BY <1>1, RowsOfBundle
  <2>2. /\ MaxAttempt(central, r.test) \in Nat
        /\ MaxAttempt(central, r.test) \in { c.attempt : c \in Of(central, r.test) } \cup {0}
    BY <1>1, LastAttempt
  <2>3. CASE MaxAttempt(central, r.test) = 0
    BY <2>1, <2>3
  <2>4. CASE MaxAttempt(central, r.test) # 0
    <3>1. PICK c \in Of(central, r.test) : c.attempt = MaxAttempt(central, r.test)
      BY <2>2, <2>4
    <3>2. c.attempt < r.attempt
      BY <1>5, <1>6
    <3> QED
      BY <2>1, <2>2, <3>1, <3>2
  <2> QED
    BY <2>3, <2>4
<1> QED
  BY <1>4, <1>6

ContinuingOf(b, t) == { q \in Of(b, t) : Continues(b, q) }
Continuing(b, t) == { s.attempt : s \in ContinuingOf(b, t) }

LEMMA ContinuingAttempts ==
  ASSUME NEW j, NEW b, Ready(j, b), NEW t
  PROVE  Continuing(b, t) \in SUBSET Nat /\ IsFiniteSet(Continuing(b, t))
<1>1. j \in Jobs /\ LogInv /\ b \in bundles[j]
  BY DEF Ready
<1>2. ContinuingOf(b, t) \subseteq b.results
  BY DEF ContinuingOf, Of
<1>3. IsFiniteSet(ContinuingOf(b, t)) /\ \A r \in ContinuingOf(b, t) : r.attempt \in Nat
  BY <1>1, <1>2, RowsOfBundle, FS_Subset DEF IsRun
<1> QED
  BY <1>3, AttemptsOfRows DEF Continuing

LEMMA AttemptWhenAlone ==
  ASSUME NEW j, NEW b, Ready(j, b), Alone(j), NEW r \in b.results, ~ Held(r)
  PROVE  AttemptOf(b, r) = r.attempt /\ NumberOf(b, r.inv) = r.inv
<1> DEFINE t == r.test
           m == MaxAttempt(central, t)
<1>1. /\ LogInv /\ Numbering /\ Chronicle /\ j \in Jobs /\ b \in bundles[j]
      /\ \A s \in Seqs(central) : central.invocations[s] = << j, s >>
      /\ IsRun(central)
  BY PlatformIsRun DEF Ready, OneJobOnly
<1>2. /\ \A q \in b.results : q.inv \in Nat /\ q.attempt \in Nat /\ q.attempt >= 1 /\ q.inv \in Seqs(b)
                              /\ q.told[1][2] = q.inv
  BY <1>1, RowsOfBundle
<1>3. /\ Taken(b) = {} /\ \A k \in Seqs(b) \ New(b) : NumberOf(b, k) = k
      /\ \A q \in b.results : q.inv \notin New(b) => (Continues(b, q) <=> ~ Held(q))
      /\ \A q \in b.results : q.inv \in New(b) => ~ Held(q)
  BY AllTakenOrAlone, ContinuesUnlessHeld
<1>4. CASE r.inv \in New(b)
  <2>1. ~ Continues(b, r)
    BY <1>3, <1>4 DEF Continues
  <2> QED
    BY <1>3, <1>4, <2>1 DEF AttemptOf, NumberOf
<1>5. CASE r.inv \notin New(b)
  <2>1. Continues(b, r) /\ NumberOf(b, r.inv) = r.inv
    BY <1>2, <1>3, <1>5
  <2>2. AttemptOf(b, r) = m + 1 + Position(r.attempt, Continuing(b, t))
    BY <2>1 DEF AttemptOf, Continuing, ContinuingOf
  <2>3. PICK n \in Nat : Seqs(central) = 1 .. n
    BY <1>1 DEF Numbering
  <2>4. r.inv \in 1 .. n
    BY <1>2, <1>5, <2>1, <2>3, KnownInvocation
  <2>5. \A k \in Seqs(b) : k \in 1 .. n => k \notin New(b)
    BY <1>1, <2>3, KnownInvocation
  <2>6. m \in Nat /\ r.attempt > m
    BY <1>1, HeldWhenAlone, LastAttempt
  <2>7. ASSUME NEW a \in Continuing(b, t) PROVE a \in Nat /\ a > m
    <3>1. PICK q \in b.results : q.attempt = a /\ q.test = t /\ Continues(b, q)
      BY DEF Continuing, ContinuingOf, Of
    <3>2. ~ Held(q)
      BY <1>3, <3>1
    <3> QED
      BY <1>2, <3>1, <3>2, HeldWhenAlone
  <2>8. ASSUME NEW a \in m + 1 .. r.attempt - 1 PROVE a \in Continuing(b, t)
    <3>1. a \in 1 .. r.attempt /\ a < r.attempt /\ a > m
      BY <2>6, <1>2
    <3>2. PICK q \in b.results : q.test = t /\ q.attempt = a
      BY <1>1, <3>1, RowsOfBundle
    <3>3. ~ Held(q)
      <4>1. ASSUME Held(q) PROVE FALSE
        <5>1. q \in Of(central, t)
          BY <3>2, <4>1, HeldWhenAlone DEF Of
        <5>2. q.attempt <= m
          BY <5>1, <1>1, LastAttempt
        <5> QED
          BY <5>2, <3>1, <3>2, <2>6
      <4> QED
        BY <4>1
    <3>4. Earlier(q.told, r.told)
      BY <1>1, <3>1, <3>2, RowsOfBundle
    <3>5. q.inv <= r.inv
      BY <3>4, <1>2 DEF Earlier
    <3>6. q.inv \notin New(b)
      <4>1. q.inv \in Seqs(b) /\ q.inv \in Nat
        BY <1>2
      <4>2. CASE q.inv \in 1 .. n
        BY <4>1, <4>2, <2>5
      <4>3. CASE q.inv = 0
        <5>1. PICK l \in Nat : Seqs(b) = 1 .. l
          BY <1>1, NumbersOfBundle
        <5> QED
          BY <4>1, <4>3, <5>1
      <4> QED
        BY <4>1, <4>2, <4>3, <3>5, <2>4
    <3>7. Continues(b, q)
      BY <1>3, <3>3, <3>6
    <3> QED
      BY <3>2, <3>7 DEF Continuing, ContinuingOf, Of
  <2>9. Below(r.attempt, Continuing(b, t)) = m + 1 .. r.attempt - 1
    <3> HIDE DEF m, t
    <3>1. \A a \in Below(r.attempt, Continuing(b, t)) : a \in m + 1 .. r.attempt - 1
      BY <2>6, <2>7, <1>2 DEF Below
    <3>2. \A a \in m + 1 .. r.attempt - 1 : a \in Below(r.attempt, Continuing(b, t))
      BY <2>6, <2>8, <1>2 DEF Below
    <3> QED
      BY <3>1, <3>2
  <2>10. Position(r.attempt, Continuing(b, t)) = r.attempt - m - 1
    <3> HIDE DEF m, t
    <3> QED
      BY <2>6, <2>9, <1>2, ContinuingAttempts, PositionAfter
  <2>11. AttemptOf(b, r) = r.attempt
    <3> HIDE DEF m, t
    <3> QED
      BY <2>2, <2>6, <2>10, <1>2
  <2> QED
    BY <2>1, <2>11
<1> QED
  BY <1>4, <1>5

\* What is not held follows all that is stored, in its order.
LEMMA AttemptsAfter ==
  ASSUME NEW j, NEW b, Ready(j, b)
  PROVE  /\ \A r \in b.results : Held(r) =>
              AttemptOf(b, r) \in { c.attempt : c \in Of(central, r.test) }
         /\ \A r \in b.results : ~ Held(r) =>
              AttemptOf(b, r) \in Nat /\ AttemptOf(b, r) > MaxAttempt(central, r.test)
         /\ \A q, r \in b.results :
              ~ Held(q) /\ ~ Held(r) /\ q.test = r.test /\ q.attempt < r.attempt
                => AttemptOf(b, q) < AttemptOf(b, r)
<1>1. /\ LogInv /\ Numbering /\ Chronicle /\ j \in Jobs /\ b \in bundles[j] /\ IsRun(central)
  BY PlatformIsRun DEF Ready
<1>2. \A r \in b.results : Held(r) => AttemptOf(b, r) \in { c.attempt : c \in Of(central, r.test) }
  BY ContinuesUnlessHeld
<1>3. \A r \in b.results : r.attempt \in Nat /\ MaxAttempt(central, r.test) \in Nat
  BY <1>1, RowsOfBundle, LastAttempt
<1>4. CASE Alone(j)
  <2>1. \A r \in b.results : ~ Held(r) => AttemptOf(b, r) = r.attempt /\ r.attempt > MaxAttempt(central, r.test)
    BY <1>4, AttemptWhenAlone, HeldWhenAlone
  <2> QED
    BY <1>2, <1>3, <2>1
<1>5. CASE New(b) = Taken(b)
  <2>1. ASSUME NEW r \in b.results, ~ Held(r)
        PROVE  /\ AttemptOf(b, r) = MaxAttempt(central, r.test) + 1
                                     + Position(r.attempt, Continuing(b, r.test))
               /\ r.attempt \in Continuing(b, r.test)
    <3>1. Continues(b, r)
      <4>1. CASE r.inv \in New(b)
        BY <4>1, <1>5 DEF Continues
      <4>2. CASE r.inv \notin New(b)
        BY <4>2, <2>1, ContinuesUnlessHeld
      <4> QED
        BY <4>1, <4>2
    <3> QED
      BY <3>1 DEF AttemptOf, Continuing, ContinuingOf, Of
  <2>2. ASSUME NEW t
        PROVE  Continuing(b, t) \in SUBSET Nat /\ IsFiniteSet(Continuing(b, t))
    BY ContinuingAttempts
  <2>3. ASSUME NEW r \in b.results, ~ Held(r)
        PROVE  /\ AttemptOf(b, r) \in Nat /\ AttemptOf(b, r) > MaxAttempt(central, r.test)
               /\ Position(r.attempt, Continuing(b, r.test)) \in Nat
    <3>1. Position(r.attempt, Continuing(b, r.test)) \in Nat
      BY <1>3, <2>2, PositionType
    <3> QED
      BY <3>1, <2>1, <2>3, <1>3
  <2>4. ASSUME NEW q \in b.results, NEW r \in b.results, ~ Held(q), ~ Held(r),
               q.test = r.test, q.attempt < r.attempt
        PROVE  AttemptOf(b, q) < AttemptOf(b, r)
    <3>1. q.attempt \in Continuing(b, r.test)
      BY <2>1, <2>4
    <3>2. Position(q.attempt, Continuing(b, r.test)) < Position(r.attempt, Continuing(b, r.test))
      BY <1>3, <2>2, <2>4, <3>1, PositionGrows
    <3>3. /\ Position(q.attempt, Continuing(b, r.test)) \in Nat
          /\ Position(r.attempt, Continuing(b, r.test)) \in Nat
      BY <2>3, <2>4
    <3>4. /\ AttemptOf(b, q) = MaxAttempt(central, r.test) + 1 + Position(q.attempt, Continuing(b, r.test))
          /\ AttemptOf(b, r) = MaxAttempt(central, r.test) + 1 + Position(r.attempt, Continuing(b, r.test))
      BY <2>1, <2>4
    <3> QED
      BY <3>2, <3>3, <3>4, <1>3
  <2> QED
    BY <1>2, <2>3, <2>4
<1> QED
  BY <1>4, <1>5, AllTakenOrAlone

-----------------------------------------------------------------------------
(* The import. *)

Fresh(b) == { r \in b.results : ~ Held(r) }
Imported(b) == { Remapped(b, r) : r \in Fresh(b) }

LEMMA RemappedRow ==
  ASSUME NEW j, NEW b, Ready(j, b), NEW r \in b.results
  PROVE  /\ Remapped(b, r).test = r.test /\ Remapped(b, r).told = r.told
         /\ Remapped(b, r).inv = NumberOf(b, r.inv) /\ Remapped(b, r).attempt = AttemptOf(b, r)
         /\ NumberOf(b, r.inv) = r.inv /\ AttemptOf(b, r) = r.attempt => Remapped(b, r) = r
<1>1. IsRowOf(j, r)
  BY RowsOfBundle DEF Ready
<1> DEFINE told == << << j, r.inv >>, r.told[2] >>
<1>2. r = [test |-> r.test, attempt |-> r.attempt, inv |-> r.inv, told |-> told] /\ r.told = told
  BY <1>1 DEF IsRowOf
<1> HIDE DEF told
<1>3. Remapped(b, r) = [r EXCEPT !.inv = NumberOf(b, r.inv), !.attempt = AttemptOf(b, r)]
  BY DEF Remapped
<1>4. Remapped(b, r) = [test |-> r.test, attempt |-> AttemptOf(b, r),
                        inv |-> NumberOf(b, r.inv), told |-> told]
  BY <1>2, <1>3
<1> QED
  BY <1>2, <1>4

LEMMA ResultsAfter ==
  ASSUME NEW j, NEW b, Ready(j, b)
  PROVE  Stored(central, { Remapped(b, r) : r \in { q \in b.results : FirstOfKey(b, q) } })
           = [central EXCEPT !.results = central.results \cup Imported(b)]
<1> DEFINE rows == { Remapped(b, r) : r \in { q \in b.results : FirstOfKey(b, q) } }
<1>1. IsRun(central)
  BY PlatformIsRun DEF Ready
<1>2. /\ \A r \in b.results : r.attempt \in Nat /\ MaxAttempt(central, r.test) \in Nat
      /\ \A r \in b.results : \A c \in Of(central, r.test) : c.attempt \in Nat /\ c.attempt <= MaxAttempt(central, r.test)
  <2>1. \A t : \A c \in Of(central, t) : c.attempt \in Nat
    BY <1>1 DEF Of, IsRun, IsRow
  <2> QED
    BY <2>1, <1>1, RowsOfBundle, LastAttempt DEF Ready
<1>3. ASSUME NEW r \in b.results, Held(r) PROVE ~ Free(central, Remapped(b, r))
  <2>1. AttemptOf(b, r) \in { c.attempt : c \in Of(central, r.test) }
    BY <1>3, AttemptsAfter
  <2>2. Remapped(b, r).test = r.test /\ Remapped(b, r).attempt = AttemptOf(b, r)
    BY RemappedRow
  <2> QED
    BY <2>1, <2>2 DEF Free
<1>4. ASSUME NEW r \in b.results, ~ Held(r) PROVE FirstOfKey(b, r) /\ Free(central, Remapped(b, r))
  <2>1. AttemptOf(b, r) \in Nat /\ AttemptOf(b, r) > MaxAttempt(central, r.test)
    BY <1>4, AttemptsAfter
  <2>2. Free(central, Remapped(b, r))
    <3>1. Remapped(b, r).test = r.test /\ Remapped(b, r).attempt = AttemptOf(b, r)
      BY RemappedRow
    <3>2. \A c \in Of(central, r.test) : c.attempt # AttemptOf(b, r)
      BY <1>2, <2>1
    <3> QED
      BY <3>1, <3>2 DEF Free
  <2>3. ASSUME NEW q \in Of(b, r.test), AttemptOf(b, q) = AttemptOf(b, r)
        PROVE  q.attempt >= r.attempt
    <3>1. q \in b.results /\ q.test = r.test
      BY DEF Of
    <3>2. ~ Held(q)
      <4>1. ASSUME Held(q) PROVE FALSE
        <5>1. AttemptOf(b, q) \in { c.attempt : c \in Of(central, q.test) }
          BY <3>1, <4>1, AttemptsAfter
        <5>2. PICK c \in Of(central, r.test) : AttemptOf(b, q) = c.attempt
          BY <3>1, <5>1
        <5>3. c.attempt \in Nat /\ c.attempt <= MaxAttempt(central, r.test)
                /\ MaxAttempt(central, r.test) \in Nat
          BY <5>2, <1>2
        <5> QED
          BY <5>2, <5>3, <2>1, <2>3
      <4> QED
        BY <4>1
    <3>3. ~ (q.attempt < r.attempt)
      <4>1. ASSUME q.attempt < r.attempt PROVE FALSE
        <5>1. AttemptOf(b, q) < AttemptOf(b, r)
          BY <1>4, <3>1, <3>2, <4>1, AttemptsAfter
        <5> QED
          BY <5>1, <2>1, <2>3
      <4> QED
        BY <4>1
    <3> QED
      BY <3>1, <3>3, <1>2
  <2> QED
    BY <2>2, <2>3 DEF FirstOfKey
<1>5. { r \in rows : Free(central, r) } = Imported(b)
  BY <1>3, <1>4 DEF Imported, Fresh
<1> HIDE DEF rows
<1>6. Stored(central, rows) = [central EXCEPT !.results = central.results \cup Imported(b)]
  BY <1>5 DEF Stored
<1> QED
  BY <1>6 DEF rows

\* The platform after the import.
After(j, b) ==
  /\ Ready(j, b)
  /\ imported' = imported \cup {b} /\ bundles' = bundles
  /\ central'.invocations = AddedInvocations(b)
  /\ central'.results = central.results \cup Imported(b)

LEMMA ImportedOfAfter ==
  ASSUME NEW j, NEW b, After(j, b), NEW i \in Jobs
  PROVE  /\ ImportedOf(i) \subseteq ImportedOf(i)' /\ b \in ImportedOf(j)'
         /\ \A p \in ImportedOf(i)' : p \in ImportedOf(i) \/ p = b
         /\ \A p \in ImportedOf(i)' : p \in bundles[i]
         /\ b \in bundles[i] => i = j \/ (Seqs(b) = {} /\ b.results = {})
<1>1. b \in bundles[i] => i = j \/ (Seqs(b) = {} /\ b.results = {})
  BY BundleOfTwo DEF After, Ready, LogInv
<1> QED
  BY <1>1 DEF After, Ready, ImportedOf

LEMMA NumberingAfter ==
  ASSUME NEW j, NEW b, After(j, b)
  PROVE  Numbering'
<1> DEFINE added == central'.invocations
<1>1. Ready(j, b) /\ added = AddedInvocations(b) /\ j \in Jobs /\ Numbering
  BY DEF After, Ready
<1>2. /\ \E q \in Nat : DOMAIN added = 1 .. q
      /\ \A s \in Seqs(central) : s \in DOMAIN added /\ added[s] = central.invocations[s]
      /\ \A k \in Seqs(b) : NumberOf(b, k) \in DOMAIN added /\ added[NumberOf(b, k)] = << j, k >>
      /\ \A s \in DOMAIN added \ Seqs(central) : \E k \in New(b) : s = NumberOf(b, k) /\ k <= s
  BY <1>1, NumbersAfter
<1>3. Seqs(central)' = DOMAIN added
  BY DEF Seqs
<1> HIDE DEF added
<1>4. New(b) \subseteq Seqs(b)
  BY DEF New
<1>5. ASSUME NEW s \in DOMAIN added \ Seqs(central)
      PROVE  \E k \in New(b) : s = NumberOf(b, k) /\ k <= s /\ added[s] = << j, k >>
  BY <1>2, <1>4
<1>6. ASSUME NEW s \in DOMAIN added, NEW u \in DOMAIN added, added[s] = added[u] PROVE s = u
  <2>1. ASSUME NEW v \in DOMAIN added \ Seqs(central), NEW w \in Seqs(central)
        PROVE  added[v] # added[w]
    <3>1. PICK k \in New(b) : added[v] = << j, k >>
      BY <1>5
    <3>2. added[w] = central.invocations[w]
      BY <1>2
    <3> QED
      BY <3>1, <3>2, <1>1, <1>4, KnownInvocation
  <2>2. CASE s \in Seqs(central) /\ u \in Seqs(central)
    <3>1. central.invocations[s] = central.invocations[u]
      BY <2>2, <1>2, <1>6
    <3> QED
      BY <3>1, <2>2, <1>1 DEF Numbering
  <2>3. CASE s \notin Seqs(central) /\ u \notin Seqs(central)
    <3>1. PICK k \in New(b) : s = NumberOf(b, k) /\ added[s] = << j, k >>
      BY <2>3, <1>5
    <3>2. PICK l \in New(b) : u = NumberOf(b, l) /\ added[u] = << j, l >>
      BY <2>3, <1>5
    <3>3. << j, k >> = << j, l >>
      BY <3>1, <3>2, <1>6
    <3>4. k = l
      BY <3>3
    <3> QED
      BY <3>1, <3>2, <3>4
  <2> QED
    BY <2>1, <2>2, <2>3, <1>6
<1>7. ASSUME NEW s \in DOMAIN added
      PROVE  \E i \in Jobs : \E p \in ImportedOf(i)' : \E k \in Seqs(p) :
               k <= s /\ added[s] = << i, k >>
  <2>1. CASE s \in Seqs(central)
    <3>1. PICK i \in Jobs : \E p \in ImportedOf(i) : \E k \in Seqs(p) :
            k <= s /\ central.invocations[s] = << i, k >>
      BY <1>1, <2>1 DEF Numbering
    <3>2. ImportedOf(i) \subseteq ImportedOf(i)'
      BY ImportedOfAfter
    <3>3. added[s] = central.invocations[s]
      BY <1>2, <2>1
    <3> QED
      BY <3>1, <3>2, <3>3
  <2>2. CASE s \notin Seqs(central)
    <3>1. b \in ImportedOf(j)'
      BY <1>1, ImportedOfAfter
    <3> QED
      BY <3>1, <2>2, <1>1, <1>4, <1>5
  <2> QED
    BY <2>1, <2>2
<1>8. ASSUME NEW i \in Jobs, NEW p \in ImportedOf(i)', NEW k \in Seqs(p)
      PROVE  \E s \in DOMAIN added : added[s] = << i, k >>
  <2>1. CASE p \in ImportedOf(i)
    <3>1. PICK s \in Seqs(central) : central.invocations[s] = << i, k >>
      BY <1>1, <2>1 DEF Numbering
    <3> QED
      BY <3>1, <1>2
  <2>2. CASE p = b
    <3>1. i = j
      BY <2>2, ImportedOfAfter
    <3> QED
      BY <3>1, <2>2, <1>2
  <2> QED
    BY <2>1, <2>2, ImportedOfAfter
<1>9. central.invocations' = added /\ central'.invocations = added
  BY DEF added
<1> QED
  BY <1>2, <1>3, <1>6, <1>7, <1>8, <1>9 DEF Numbering

LEMMA FreshRow ==
  ASSUME NEW j, NEW b, After(j, b), NEW d \in Imported(b)
  PROVE  \E r \in b.results :
           /\ ~ Held(r) /\ d = Remapped(b, r)
           /\ d.test = r.test /\ d.told = r.told /\ d.inv = NumberOf(b, r.inv)
           /\ d.attempt = AttemptOf(b, r) /\ d.attempt \in Nat
           /\ d.attempt > MaxAttempt(central, d.test) /\ d.told[1] = << j, r.inv >> /\ d.told[1][1] = j
           /\ r.inv \in Seqs(b) /\ r.test \in Tests /\ r.told[2] \in Nat
<1>1. PICK r \in b.results : ~ Held(r) /\ d = Remapped(b, r)
  BY DEF Imported, Fresh
<1>2. Ready(j, b) /\ LogInv /\ j \in Jobs /\ b \in bundles[j]
  BY DEF After, Ready
<1>3. /\ d.test = r.test /\ d.told = r.told /\ d.inv = NumberOf(b, r.inv)
      /\ d.attempt = AttemptOf(b, r)
  BY <1>1, <1>2, RemappedRow
<1>4. AttemptOf(b, r) \in Nat /\ AttemptOf(b, r) > MaxAttempt(central, r.test)
  BY <1>1, <1>2, AttemptsAfter
<1>5. /\ r.told[1] = << j, r.inv >> /\ r.told[1][1] = j /\ r.inv \in Seqs(b)
      /\ r.test \in Tests /\ r.told[2] \in Nat
  BY <1>2, RowsOfBundle
<1> QED
  BY <1>1, <1>3, <1>4, <1>5

LEMMA ChronicleAfter ==
  ASSUME NEW j, NEW b, After(j, b)
  PROVE  Chronicle'
<1> DEFINE old == central.results
           new == Imported(b)
           added == central'.invocations
<1>1. /\ Ready(j, b) /\ LogInv /\ Numbering /\ Chronicle /\ j \in Jobs /\ b \in bundles[j]
      /\ IsRun(central) /\ central'.results = old \cup new
  BY PlatformIsRun DEF After, Ready
<1>2. /\ \A s \in Seqs(central) : s \in DOMAIN added /\ added[s] = central.invocations[s]
      /\ \A k \in Seqs(b) : NumberOf(b, k) \in DOMAIN added /\ added[NumberOf(b, k)] = << j, k >>
      /\ DOMAIN added \subseteq Nat
  <2>1. added = AddedInvocations(b)
    BY DEF After
  <2> HIDE DEF added
  <2>2. PICK q \in Nat : DOMAIN added = 1 .. q
    BY <2>1, <1>1, NumbersAfter
  <2> QED
    BY <2>1, <2>2, <1>1, NumbersAfter
<1>3. Seqs(central)' = DOMAIN added
  BY DEF Seqs
<1>4. \A c \in old : /\ c.attempt \in Nat /\ MaxAttempt(central, c.test) \in Nat
                     /\ c.attempt <= MaxAttempt(central, c.test)
  <2>1. \A c \in old : c \in Of(central, c.test) /\ c.attempt \in Nat
    BY <1>1 DEF Of, IsRun, IsRow
  <2> QED
    BY <2>1, <1>1, LastAttempt
<1> HIDE DEF old, new, added
<1>5. ASSUME NEW c \in old, NEW d \in new, c.test = d.test PROVE c.attempt < d.attempt
  <2>1. d.attempt \in Nat /\ d.attempt > MaxAttempt(central, d.test)
    BY FreshRow DEF new
  <2> QED
    BY <2>1, <1>4, <1>5
<1>6. ASSUME NEW c \in new, NEW d \in new, c.test = d.test
      PROVE  /\ c.attempt = d.attempt => c = d
             /\ c.attempt < d.attempt => Earlier(c.told, d.told)
  <2>1. PICK q \in b.results : /\ ~ Held(q) /\ c = Remapped(b, q) /\ c.test = q.test
                               /\ c.told = q.told /\ c.attempt = AttemptOf(b, q) /\ c.attempt \in Nat
    BY FreshRow DEF new
  <2>2. PICK r \in b.results : /\ ~ Held(r) /\ d = Remapped(b, r) /\ d.test = r.test
                               /\ d.told = r.told /\ d.attempt = AttemptOf(b, r) /\ d.attempt \in Nat
    BY FreshRow DEF new
  <2>3. q.attempt \in Nat /\ r.attempt \in Nat
    BY <1>1, RowsOfBundle
  <2>4. /\ q.attempt < r.attempt => c.attempt < d.attempt
        /\ r.attempt < q.attempt => d.attempt < c.attempt
    BY <1>1, <1>6, <2>1, <2>2, AttemptsAfter
  <2>5. q.attempt = r.attempt => q = r
    BY <1>1, <1>6, <2>1, <2>2, RowsOfBundle DEF Unique
  <2>6. ASSUME c.attempt < d.attempt PROVE Earlier(c.told, d.told)
    <3>1. q.attempt < r.attempt
      BY <2>1, <2>2, <2>3, <2>4, <2>5, <2>6
    <3>2. Earlier(q.told, r.told)
      BY <3>1, <1>1, <1>6, <2>1, <2>2, RowsOfBundle
    <3> QED
      BY <3>2, <2>1, <2>2
  <2>7. ASSUME c.attempt = d.attempt PROVE c = d
    <3>1. q.attempt = r.attempt
      BY <2>1, <2>2, <2>3, <2>4, <2>7
    <3> QED
      BY <3>1, <2>1, <2>2, <2>5
  <2> QED
    BY <2>6, <2>7
<1>7. ASSUME NEW c \in old, NEW d \in new, c.test = d.test, c.told[1][1] = d.told[1][1]
      PROVE  Earlier(c.told, d.told)
  <2>1. PICK r \in b.results : ~ Held(r) /\ d.test = r.test /\ d.told = r.told /\ d.told[1][1] = j
    BY FreshRow DEF new
  <2>2. PICK i \in Jobs : \E p \in ImportedOf(i) : \E q \in p.results :
          SameAttempt(q, c) /\ c.told[1][1] = i /\ p \in bundles[i]
    BY <1>1, Origin DEF old
  <2>3. PICK p \in ImportedOf(j) : \E q \in p.results : SameAttempt(q, c) /\ p \in bundles[j]
    BY <2>1, <2>2, <1>7
  <2>4. PICK q \in p.results : SameAttempt(q, c) /\ p \in bundles[j]
    BY <2>3
  <2>5. r \notin p.results
    BY <1>1, <2>1 DEF Chronicle, Held
  <2>6. Leads(p, b)
    BY <1>1, <2>4, <2>5 DEF LogInv, Leads
  <2>7. q \in b.results /\ q.test = r.test /\ q.attempt < r.attempt
    BY <1>7, <2>1, <2>4, <2>5, <2>6 DEF Leads, SameAttempt
  <2>8. Earlier(q.told, r.told)
    BY <2>7, <1>1, RowsOfBundle
  <2> QED
    BY <2>8, <2>1, <2>4 DEF SameAttempt
<1>8. IsFiniteSet(old \cup new)
  <2>1. IsFiniteSet(new)
    <3> DEFINE f == [r \in Fresh(b) |-> Remapped(b, r)]
    <3>1. f \in Surjection(Fresh(b), new)
      BY DEF Surjection, new, Imported
    <3>2. IsFiniteSet(Fresh(b))
      BY <1>1, RowsOfBundle, FS_Subset DEF Fresh, IsRun
    <3> QED
      BY <3>1, <3>2, FS_Surjection
  <2>2. IsFiniteSet(old)
    BY <1>1 DEF Chronicle, old
  <2> QED
    BY <2>1, <2>2, FS_Union
<1>9. Unique(old \cup new)
  <2>1. Unique(old)
    BY <1>1 DEF Chronicle, old
  <2>2. \A d \in new : d.attempt \in Nat
    BY FreshRow DEF new
  <2> QED
    BY <2>1, <2>2, <1>4, <1>5, <1>6 DEF Unique
<1>10. ASSUME NEW c \in old \cup new
       PROVE  IsRow(c) /\ c.inv \in DOMAIN added /\ added[c.inv] = c.told[1]
  <2>1. CASE c \in old
    BY <2>1, <1>1, <1>2 DEF Chronicle, old
  <2>2. CASE c \in new
    <3>1. PICK r \in b.results :
            /\ c.test = r.test /\ c.told = r.told /\ c.inv = NumberOf(b, r.inv)
            /\ c.attempt \in Nat /\ c.told[1] = << j, r.inv >> /\ r.inv \in Seqs(b)
            /\ r.test \in Tests /\ r.told[2] \in Nat
      BY <2>2, FreshRow DEF new
    <3> QED
      BY <3>1, <1>2 DEF IsRow
  <2> QED
    BY <2>1, <2>2
<1>11. ASSUME NEW c \in old \cup new, NEW d \in old \cup new,
              c.test = d.test, c.told[1][1] = d.told[1][1], c.attempt < d.attempt
       PROVE  Earlier(c.told, d.told)
  <2>1. CASE c \in old /\ d \in old
    BY <2>1, <1>1, <1>11 DEF Chronicle, old
  <2>2. CASE c \in old /\ d \in new
    BY <2>2, <1>7, <1>11
  <2>3. CASE c \in new /\ d \in old
    <3>1. d.attempt < c.attempt
      BY <2>3, <1>5, <1>11
    <3>2. d.attempt \in Nat /\ c.attempt \in Nat
      BY <2>3, <1>10 DEF IsRow
    <3> QED
      BY <3>1, <3>2, <1>11
  <2>4. CASE c \in new /\ d \in new
    BY <2>4, <1>6, <1>11
  <2> QED
    BY <2>1, <2>2, <2>3, <2>4
<1>12. ASSUME NEW i \in Jobs, NEW p \in ImportedOf(i)', NEW r \in p.results
       PROVE  \E c \in old \cup new : SameAttempt(r, c)
  <2>1. CASE p \in ImportedOf(i)
    BY <2>1, <1>1 DEF Chronicle, old
  <2>2. CASE p = b
    <3>1. CASE Held(r)
      BY <3>1 DEF Held, old
    <3>2. CASE ~ Held(r)
      <4>1. Remapped(b, r) \in new
        BY <2>2, <3>2 DEF new, Imported, Fresh
      <4>2. SameAttempt(r, Remapped(b, r))
        BY <2>2, <1>1, RemappedRow DEF SameAttempt
      <4> QED
        BY <4>1, <4>2
    <3> QED
      BY <3>1, <3>2
  <2> QED
    BY <2>1, <2>2, ImportedOfAfter
<1>13. ASSUME NEW c \in old \cup new
       PROVE  \E i \in Jobs : \E p \in ImportedOf(i)' : \E r \in p.results : SameAttempt(r, c)
  <2>1. CASE c \in old
    <3>1. PICK i \in Jobs : \E p \in ImportedOf(i) : \E r \in p.results : SameAttempt(r, c)
      BY <2>1, <1>1 DEF Chronicle, old
    <3>2. ImportedOf(i) \subseteq ImportedOf(i)'
      BY ImportedOfAfter
    <3> QED
      BY <3>1, <3>2
  <2>2. CASE c \in new
    <3>1. PICK r \in b.results : c.test = r.test /\ c.told = r.told
      BY <2>2, FreshRow DEF new
    <3>2. b \in ImportedOf(j)'
      BY <1>1, ImportedOfAfter
    <3> QED
      BY <3>1, <3>2, <1>1 DEF SameAttempt
  <2> QED
    BY <2>1, <2>2
<1>14. central'.results = old \cup new /\ central'.invocations = added
  BY <1>1 DEF added
<1> QED
  BY <1>3, <1>8, <1>9, <1>10, <1>11, <1>12, <1>13, <1>14 DEF Chronicle

LEMMA OneJobAfter ==
  ASSUME NEW j, NEW b, After(j, b)
  PROVE  OneJobOnly'
<1> DEFINE added == central'.invocations
<1>1. /\ Ready(j, b) /\ j \in Jobs /\ OneJobOnly /\ LogInv /\ b \in bundles[j]
      /\ central'.results = central.results \cup Imported(b) /\ imported' = imported \cup {b}
  BY DEF After, Ready
<1>2. /\ \A s \in Seqs(central) : s \in DOMAIN added /\ added[s] = central.invocations[s]
      /\ \A k \in Seqs(b) : NumberOf(b, k) \in DOMAIN added /\ added[NumberOf(b, k)] = << j, k >>
      /\ \A s \in DOMAIN added \ Seqs(central) : \E k \in New(b) : s = NumberOf(b, k) /\ k <= s
  <2>1. added = AddedInvocations(b)
    BY DEF After
  <2> HIDE DEF added
  <2> QED
    BY <2>1, <1>1, NumbersAfter
<1>3. Seqs(central)' = DOMAIN added
  BY DEF Seqs
<1>4. ASSUME NEW i \in Jobs, Alone(i)'
      PROVE  Alone(i) /\ \A s \in DOMAIN added : added[s][1] = i
  <2>1. \A s \in DOMAIN added : added[s][1] = i
    BY <1>3, <1>4 DEF Alone
  <2>2. \A s \in Seqs(central) : central.invocations[s][1] = i
    BY <2>1, <1>2
  <2> QED
    BY <2>1, <2>2 DEF Alone
<1> HIDE DEF added
<1>5. New(b) \subseteq Seqs(b)
  BY DEF New
<1>6. ASSUME NEW i \in Jobs, Alone(i)', i = j
      PROVE  /\ \A s \in DOMAIN added : added[s] = << i, s >>
             /\ central'.results = UNION { p.results : p \in imported' }
  <2>1. /\ Alone(j) /\ \A s \in Seqs(central) : central.invocations[s] = << j, s >>
        /\ central.results = UNION { p.results : p \in imported }
    BY <1>1, <1>4, <1>6 DEF OneJobOnly
  <2>2. Taken(b) = {}
    BY <1>1, <2>1, AllTakenOrAlone
  <2>3. \A k \in New(b) : NumberOf(b, k) = k
    BY <2>2 DEF NumberOf
  <2>4. \A s \in DOMAIN added : added[s] = << i, s >>
    <3>1. ASSUME NEW s \in DOMAIN added, s \in Seqs(central) PROVE added[s] = << i, s >>
      BY <3>1, <2>1, <1>2, <1>6
    <3>2. ASSUME NEW s \in DOMAIN added, s \notin Seqs(central) PROVE added[s] = << i, s >>
      <4>1. PICK k \in New(b) : s = NumberOf(b, k)
        BY <3>2, <1>2
      <4>2. k = s /\ k \in Seqs(b)
        BY <4>1, <2>3, <1>5
      <4> QED
        BY <4>1, <4>2, <1>2, <1>6
    <3> QED
      BY <3>1, <3>2
  <2>5. \A r \in b.results : ~ Held(r) => Remapped(b, r) = r
    BY <1>1, <2>1, AttemptWhenAlone, RemappedRow
  <2>6. \A r \in b.results : Held(r) => r \in central.results
    BY <1>1, <2>1, HeldWhenAlone
  <2>7. central.results \cup Imported(b) = central.results \cup b.results
    BY <2>5, <2>6 DEF Imported, Fresh
  <2>8. UNION { p.results : p \in imported \cup {b} } = (UNION { p.results : p \in imported }) \cup b.results
    OBVIOUS
  <2> QED
    BY <2>1, <2>4, <2>7, <2>8, <1>1
<1>7. ASSUME NEW i \in Jobs, Alone(i)', i # j
      PROVE  /\ \A s \in DOMAIN added : added[s] = << i, s >>
             /\ central'.results = UNION { p.results : p \in imported' }
  <2>1. Seqs(b) = {}
    <3>1. ASSUME NEW k \in Seqs(b) PROVE FALSE
      <4>1. added[NumberOf(b, k)] = << j, k >> /\ added[NumberOf(b, k)][1] = i
        BY <1>2, <1>4, <1>7
      <4>2. added[NumberOf(b, k)][1] = j
        BY <4>1
      <4> QED
        BY <4>1, <4>2, <1>7
    <3> QED
      BY <3>1
  <2>2. b.results = {}
    BY <2>1, <1>1, RowsOfBundle
  <2>3. /\ \A s \in Seqs(central) : central.invocations[s] = << i, s >>
        /\ central.results = UNION { p.results : p \in imported }
    BY <1>1, <1>4, <1>7 DEF OneJobOnly
  <2>4. \A s \in DOMAIN added : added[s] = << i, s >>
    BY <2>1, <2>3, <1>2, <1>5
  <2>5. Imported(b) = {}
    BY <2>2 DEF Imported, Fresh
  <2>6. UNION { p.results : p \in imported \cup {b} } = UNION { p.results : p \in imported }
    BY <2>2
  <2> QED
    BY <2>3, <2>4, <2>5, <2>6, <1>1
<1>8. central'.invocations = added
  BY DEF added
<1> QED
  BY <1>3, <1>6, <1>7, <1>8 DEF OneJobOnly

LEMMA ImportStep ==
  ASSUME LogInv, PlatformInv, NEW j \in Jobs, NEW b \in bundles[j], Import(b), bundles' = bundles
  PROVE  PlatformInv'
<1> DEFINE R == { Remapped(b, r) : r \in { q \in b.results : FirstOfKey(b, q) } }
<1>1. /\ central' = [Stored(central, R) EXCEPT !.status = b.status,
                                               !.invocations = AddedInvocations(b)]
      /\ imported' = imported \cup {b}
      /\ collided' = (collided \/ \E k, l \in New(b) : k # l /\ NumberOf(b, k) = NumberOf(b, l))
  BY DEF Import
<1>2. /\ DOMAIN central = {"status", "invocations", "results"}
      /\ imported \subseteq UNION { bundles[i] : i \in Jobs }
  BY DEF PlatformInv
<1>3. ASSUME NEW run, DOMAIN run = {"status", "invocations", "results"}, NEW s, NEW i, NEW rs
      PROVE  LET run2 == [[run EXCEPT !.results = rs] EXCEPT !.status = s, !.invocations = i]
             IN  DOMAIN run2 = DOMAIN run /\ run2.results = rs /\ run2.invocations = i
  BY <1>3
<1> HIDE DEF R
<1>4. DOMAIN central' = {"status", "invocations", "results"}
  BY <1>1, <1>2, <1>3 DEF Stored
<1>5. imported' \subseteq UNION { bundles'[i] : i \in Jobs }
  BY <1>1, <1>2
<1>6. ASSUME ~ collided' PROVE Numbering' /\ Chronicle' /\ OneJobOnly'
  <2>1. \A k, l \in New(b) : NumberOf(b, k) = NumberOf(b, l) => k = l
    BY <1>1, <1>6
  <2>2. Numbering /\ Chronicle /\ OneJobOnly
    BY <1>1, <1>6 DEF PlatformInv
  <2>3. Ready(j, b)
    BY <2>1, <2>2, <1>2 DEF Ready
  <2>4. Stored(central, R) = [central EXCEPT !.results = central.results \cup Imported(b)]
    BY <2>3, ResultsAfter DEF R
  <2>5. /\ central'.invocations = AddedInvocations(b)
        /\ central'.results = central.results \cup Imported(b)
    BY <2>4, <1>1, <1>2, <1>3
  <2>6. After(j, b)
    BY <2>3, <2>5, <1>1 DEF After
  <2> QED
    BY <2>6, NumberingAfter, ChronicleAfter, OneJobAfter
<1> QED
  BY <1>4, <1>5, <1>6 DEF PlatformInv

\* The jobs go on, and the platform does nothing.
LEMMA SamePlatform ==
  ASSUME LogInv', PlatformInv, central' = central, imported' = imported, collided' = collided,
         \A i \in Jobs : bundles[i] \subseteq bundles'[i]
  PROVE  PlatformInv'
<1>1. \A i \in Jobs : ImportedOf(i) \subseteq ImportedOf(i)'
  BY DEF ImportedOf
<1>2. ASSUME NEW i \in Jobs, NEW p \in ImportedOf(i)'
      PROVE  p \in ImportedOf(i) \/ (Seqs(p) = {} /\ p.results = {})
  <2>1. p \in imported /\ p \in bundles'[i]
    BY DEF ImportedOf
  <2>2. PICK j \in Jobs : p \in bundles[j]
    BY <2>1 DEF PlatformInv
  <2>3. IsBundle(i, p) /\ IsBundle(j, p)
    BY <2>1, <2>2 DEF LogInv
  <2> QED
    BY <2>1, <2>2, <2>3, BundleOfTwo DEF ImportedOf
<1>3. DOMAIN central' = {"status", "invocations", "results"}
      /\ imported' \subseteq UNION { bundles'[i] : i \in Jobs }
  BY DEF PlatformInv
<1>4. ASSUME Numbering PROVE Numbering'
  <2>1. \A s \in Seqs(central) :
          \E j \in Jobs : \E p \in ImportedOf(j)' : \E k \in Seqs(p) :
            k <= s /\ central.invocations[s] = << j, k >>
    BY <1>1, <1>4 DEF Numbering
  <2>2. \A j \in Jobs : \A p \in ImportedOf(j)' : \A k \in Seqs(p) :
          \E s \in Seqs(central) : central.invocations[s] = << j, k >>
    BY <1>2, <1>4 DEF Numbering
  <2> QED
    BY <2>1, <2>2, <1>4 DEF Numbering
<1>5. ASSUME Chronicle PROVE Chronicle'
  <2>1. \A j \in Jobs : \A p \in ImportedOf(j)' : \A r \in p.results :
          \E c \in central.results : SameAttempt(r, c)
    BY <1>2, <1>5 DEF Chronicle
  <2>2. \A c \in central.results :
          \E j \in Jobs : \E p \in ImportedOf(j)' : \E r \in p.results : SameAttempt(r, c)
    BY <1>1, <1>5 DEF Chronicle
  <2> QED
    BY <2>1, <2>2, <1>5 DEF Chronicle
<1>6. ASSUME OneJobOnly PROVE OneJobOnly'
  BY <1>6 DEF OneJobOnly, Alone
<1> QED
  BY <1>3, <1>4, <1>5, <1>6 DEF PlatformInv

LEMMA PlatformStart == Init => PlatformInv
<1> SUFFICES ASSUME Init PROVE PlatformInv
  OBVIOUS
<1>1. central = NoRun /\ imported = {}
  BY DEF Init
<1>2. NoRun.results = {} /\ Seqs(NoRun) = {} /\ DOMAIN NoRun = {"status", "invocations", "results"}
  BY DEF NoRun, Seqs
<1>3. {} = 1 .. 0 /\ 0 \in Nat
  OBVIOUS
<1>4. \A i : ImportedOf(i) = {}
  BY <1>1 DEF ImportedOf
<1>5. Numbering
  BY <1>1, <1>2, <1>3, <1>4 DEF Numbering
<1>6. Chronicle
  BY <1>1, <1>2, <1>4, FS_EmptySet DEF Chronicle, Unique
<1>7. OneJobOnly
  BY <1>1, <1>2 DEF OneJobOnly
<1> QED
  BY <1>1, <1>2, <1>5, <1>6, <1>7 DEF PlatformInv

LEMMA PlatformStep == BundlesInv /\ LogInv /\ LogInv' /\ PlatformInv /\ [Next]_vars => PlatformInv'
<1> SUFFICES ASSUME BundlesInv, LogInv, LogInv', PlatformInv, [Next]_vars PROVE PlatformInv'
  OBVIOUS
<1>1. ASSUME bundles' = bundles, central' = central, imported' = imported, collided' = collided
      PROVE  PlatformInv'
  BY <1>1, SamePlatform
<1>2. ASSUME NEW j \in Jobs, NEW selected \in Selections[j], SessionStart(j, selected)
      PROVE  PlatformInv'
  BY <1>1, <1>2 DEF SessionStart
<1>3. ASSUME NEW j \in Jobs, StartFails(j) PROVE PlatformInv'
  BY <1>1, <1>3 DEF StartFails
<1>4. ASSUME NEW j \in Jobs, NEW t \in Tests, Begin(j, t) PROVE PlatformInv'
  BY <1>1, <1>4 DEF Begin
<1>5. ASSUME NEW j \in Jobs, NEW t \in Tests, NEW flush \in BOOLEAN, Close(j, t, flush)
      PROVE  PlatformInv'
  BY <1>1, <1>5 DEF Close
<1>6. ASSUME NEW j \in Jobs, NEW status \in {"running", "finished"}, Finish(j, status)
      PROVE  PlatformInv'
  BY <1>1, <1>6 DEF Finish
<1>7. ASSUME NEW j \in Jobs, Lose(j) PROVE PlatformInv'
  BY <1>1, <1>7 DEF Lose
<1>8. ASSUME NEW j \in Jobs, Export(j) PROVE PlatformInv'
  <2>1. /\ bundles' = [bundles EXCEPT ![j] = @ \cup {store[j]}]
        /\ central' = central /\ imported' = imported /\ collided' = collided
    BY <1>8 DEF Export
  <2>2. bundles = [i \in Jobs |-> bundles[i]]
    BY DEF LogInv
  <2>3. \A i \in Jobs : bundles[i] \subseteq bundles'[i]
    BY <2>1, <2>2
  <2> QED
    BY <2>1, <2>3, SamePlatform
<1>9. ASSUME NEW j \in Jobs, NEW b \in bundles[j], Import(b) PROVE PlatformInv'
  <2>1. bundles' = bundles
    BY <1>9 DEF Import
  <2> QED
    BY <1>9, <2>1, ImportStep
<1>10. CASE UNCHANGED vars
  BY <1>1, <1>10 DEF vars
<1> QED
  BY <1>2, <1>3, <1>4, <1>5, <1>6, <1>7, <1>8, <1>9, <1>10 DEF Next

-----------------------------------------------------------------------------
(* What a run tells of a test in one job. *)

InJob(run, j, t) == { r \in Of(run, t) : r.told[1][1] = j }
Numbers(rows) == { r.attempt : r \in rows }
Tellings(rows) == { r.told : r \in rows }

\* Rows with attempts of their own, in the order of what they tell.
InOrder(rows) ==
  /\ IsFiniteSet(rows)
  /\ \A r \in rows : r.attempt \in Nat /\ r.told[1][2] \in Nat /\ r.told[2] \in Nat
  /\ \A q, r \in rows : /\ q.attempt = r.attempt => q = r
                        /\ q.attempt < r.attempt => Earlier(q.told, r.told)

\* Rows tell what others do, and nothing earlier is missing.
Continued(P, C) ==
  /\ InOrder(P) /\ InOrder(C)
  /\ Tellings(P) \subseteq Tellings(C)
  /\ \A r \in P, c \in C : Earlier(c.told, r.told) => c.told \in Tellings(P)

LEMMA InOrderNumbers ==
  ASSUME NEW rows, InOrder(rows)
  PROVE  /\ Numbers(rows) \in SUBSET Nat /\ IsFiniteSet(Numbers(rows))
         /\ \A r \in rows : r.attempt \in Numbers(rows)
  BY AttemptsOfRows DEF InOrder, Numbers

LEMMA InOrderEarlier ==
  ASSUME NEW rows, InOrder(rows), NEW q \in rows, NEW r \in rows
  PROVE  /\ Earlier(q.told, r.told) <=> q.attempt < r.attempt
         /\ q.told = r.told => q = r
<1>1. /\ q.attempt \in Nat /\ q.told[1][2] \in Nat /\ q.told[2] \in Nat
      /\ r.attempt \in Nat /\ r.told[1][2] \in Nat /\ r.told[2] \in Nat
  BY DEF InOrder
<1>2. ~ (Earlier(q.told, r.told) /\ Earlier(r.told, q.told)) /\ ~ Earlier(r.told, r.told)
  BY <1>1 DEF Earlier
<1>3. /\ q.attempt < r.attempt => Earlier(q.told, r.told)
      /\ r.attempt < q.attempt => Earlier(r.told, q.told)
      /\ q.attempt = r.attempt => q = r
  BY DEF InOrder
<1>4. q.attempt < r.attempt \/ q.attempt = r.attempt \/ r.attempt < q.attempt
  BY <1>1
<1>5. Earlier(q.told, r.told) <=> q.attempt < r.attempt
  BY <1>2, <1>3, <1>4
<1>6. ASSUME q.told = r.told PROVE q = r
  BY <1>2, <1>3, <1>4, <1>6
<1> QED
  BY <1>5, <1>6

LEMMA AsManyTellings ==
  ASSUME NEW rows, InOrder(rows), NEW part \in SUBSET rows
  PROVE  /\ Cardinality(Numbers(part)) = Cardinality(Tellings(part))
         /\ IsFiniteSet(Tellings(part))
<1> DEFINE row(x) == CHOOSE r \in part : r.told = x
           f == [x \in Tellings(part) |-> row(x).attempt]
<1>1. \A x \in Tellings(part) : row(x) \in part /\ row(x).told = x
  BY DEF Tellings
<1>2. \A r \in part : row(r.told) = r
  <2>1. ASSUME NEW r \in part PROVE row(r.told) = r
    <3>1. r.told \in Tellings(part)
      BY DEF Tellings
    <3>2. row(r.told) \in part /\ row(r.told).told = r.told
      BY <1>1, <3>1
    <3> HIDE DEF row
    <3>3. row(r.told) \in rows /\ r \in rows
      BY <3>2
    <3> QED
      BY <3>2, <3>3, InOrderEarlier
  <2> QED
    BY <2>1
<1>3. \A r \in part : r.told \in Tellings(part) /\ f[r.told] = r.attempt
  BY <1>2 DEF Tellings
<1>4. \A x, y \in Tellings(part) : f[x] = f[y] => x = y
  <2>1. \A q, r \in part : q.attempt = r.attempt => q = r
    BY DEF InOrder
  <2> HIDE DEF row
  <2> QED
    BY <1>1, <2>1
<1> HIDE DEF row
<1>5. f \in Bijection(Tellings(part), Numbers(part))
  <2>1. f \in [Tellings(part) -> Numbers(part)]
    BY <1>1 DEF Numbers
  <2>2. \A a \in Numbers(part) : \E x \in Tellings(part) : f[x] = a
    BY <1>3 DEF Numbers
  <2> HIDE DEF f
  <2> QED
    BY <2>1, <2>2, <1>4 DEF Bijection, Injection, Surjection, IsInjective
<1>6. ExistsBijection(Tellings(part), Numbers(part))
  BY <1>5 DEF ExistsBijection
<1>7. IsFiniteSet(Tellings(part))
  <2> DEFINE g == [r \in part |-> r.told]
  <2>1. g \in Surjection(part, Tellings(part))
    BY DEF Surjection, Tellings
  <2>2. IsFiniteSet(part)
    BY FS_Subset DEF InOrder
  <2> QED
    BY <2>1, <2>2, FS_Surjection
<1> QED
  BY <1>6, <1>7, FS_Bijection

\* The position of a row is the number of the tellings before its own.
LEMMA PositionOfTelling ==
  ASSUME NEW rows, InOrder(rows), NEW r \in rows
  PROVE  Position(r.attempt, Numbers(rows))
           = Cardinality({ x \in Tellings(rows) : Earlier(x, r.told) })
<1> DEFINE part == { q \in rows : q.attempt < r.attempt }
<1>1. Numbers(part) = Below(r.attempt, Numbers(rows))
  BY DEF Numbers, Below
<1>2. Tellings(part) = { x \in Tellings(rows) : Earlier(x, r.told) }
  <2>1. \A q \in rows : Earlier(q.told, r.told) <=> q.attempt < r.attempt
    BY InOrderEarlier
  <2> QED
    BY <2>1 DEF Tellings
<1>3. part \in SUBSET rows
  OBVIOUS
<1> HIDE DEF part
<1>4. Position(r.attempt, Numbers(rows)) = Cardinality(Numbers(part))
  <2>1. r.attempt \in Nat
    BY DEF InOrder
  <2> QED
    BY <2>1, <1>1, InOrderNumbers, PositionType
<1> QED
  BY <1>2, <1>3, <1>4, AsManyTellings

LEMMA SameTellingPosition ==
  ASSUME NEW P, NEW C, Continued(P, C), NEW r \in P, NEW c \in C, c.told = r.told
  PROVE  Position(r.attempt, Numbers(P)) = Position(c.attempt, Numbers(C))
<1>1. { x \in Tellings(P) : Earlier(x, r.told) } = { x \in Tellings(C) : Earlier(x, c.told) }
  <2>1. \A x \in Tellings(C) : Earlier(x, r.told) => x \in Tellings(P)
    BY DEF Continued, Tellings
  <2> QED
    BY <2>1 DEF Continued
<1>2. InOrder(P) /\ InOrder(C)
  BY DEF Continued
<1> QED
  BY <1>1, <1>2, PositionOfTelling

\* Told lists what the rows tell by their positions.
Lists(f, rows) ==
  /\ f \in Seq(Tellings(rows)) /\ Len(f) = Cardinality(Numbers(rows))
  /\ \A r \in rows : LET i == Position(r.attempt, Numbers(rows)) + 1
                     IN  i \in 1 .. Len(f) /\ f[i] = r.told
  /\ \A i \in 1 .. Len(f) : \E r \in rows : i = Position(r.attempt, Numbers(rows)) + 1

LEMMA ToldLists ==
  ASSUME NEW run, NEW j, NEW t, InOrder(InJob(run, j, t))
  PROVE  Lists(Told(run, j, t), InJob(run, j, t))
<1> DEFINE rows == InJob(run, j, t)
           A == Numbers(rows)
           n == Cardinality(A)
           f == Told(run, j, t)
<1>1. f = [i \in 1 .. n |-> (CHOOSE r \in rows : r.attempt = Nth(A, i - 1)).told]
  BY DEF Told, InJob, Numbers
<1>2. InOrder(rows)
  OBVIOUS
<1> HIDE DEF f, rows
<1>3. /\ n \in Nat
      /\ \A k \in A : Position(k, A) \in 0 .. n - 1
      /\ \A i \in 0 .. n - 1 : Nth(A, i) \in A /\ Position(Nth(A, i), A) = i
  BY <1>2, InOrderNumbers, PositionsAre
<1>4. A \in SUBSET Nat /\ IsFiniteSet(A) /\ \A r \in rows : r.attempt \in A
  BY <1>2, InOrderNumbers
<1>5. \A a \in A : \E r \in rows : r.attempt = a
  BY DEF Numbers
<1> HIDE DEF n, A
<1>6. ASSUME NEW r \in rows
      PROVE  Position(r.attempt, A) + 1 \in 1 .. n /\ f[Position(r.attempt, A) + 1] = r.told
  <2> DEFINE p == Position(r.attempt, A)
  <2>1. p \in 0 .. n - 1
    BY <1>3, <1>4
  <2>2. Nth(A, p) = r.attempt
    <3>1. Nth(A, p) \in A /\ Position(Nth(A, p), A) = p
      BY <2>1, <1>3
    <3> QED
      BY <3>1, <1>4, SamePosition
  <2> HIDE DEF p
  <2>3. p + 1 \in 1 .. n /\ (p + 1) - 1 = p
    BY <2>1, <1>3
  <2>4. (CHOOSE q \in rows : q.attempt = r.attempt) = r
    BY <1>2 DEF InOrder
  <2>5. f[p + 1] = (CHOOSE q \in rows : q.attempt = Nth(A, (p + 1) - 1)).told
    BY <1>1, <2>3
  <2>6. f[p + 1] = r.told
    BY <2>2, <2>3, <2>4, <2>5
  <2> QED
    BY <2>3, <2>6 DEF p
<1>7. ASSUME NEW i \in 1 .. n
      PROVE  \E r \in rows : i = Position(r.attempt, A) + 1
  <2>1. i - 1 \in 0 .. n - 1
    BY <1>3
  <2>2. PICK r \in rows : r.attempt = Nth(A, i - 1)
    BY <2>1, <1>3, <1>5
  <2>3. Position(r.attempt, A) = i - 1
    BY <2>1, <2>2, <1>3
  <2> QED
    BY <2>3
<1>8. f \in Seq(Tellings(rows)) /\ Len(f) = n
  <2>1. \A i \in 1 .. n : f[i] \in Tellings(rows)
    BY <1>6, <1>7 DEF Tellings
  <2>2. f \in [1 .. n -> Tellings(rows)]
    BY <1>1, <2>1
  <2>3. f \in Seq(Tellings(rows))
    BY <1>3, <2>2, SeqDef
  <2> QED
    BY <1>3, <2>2, <2>3, LenProperties
<1>9. A = Numbers(rows) /\ n = Cardinality(Numbers(rows))
  BY DEF A, n
<1> QED
  BY <1>6, <1>7, <1>8, <1>9 DEF Lists, f, rows

LEMMA ContinuedTold ==
  ASSUME NEW P, NEW C, Continued(P, C), NEW f, NEW g, Lists(f, P), Lists(g, C)
  PROVE  /\ IsPrefix(f, g)
         /\ Tellings(P) = Tellings(C) => f = g
<1>1. InOrder(P) /\ InOrder(C) /\ Tellings(P) \subseteq Tellings(C)
  BY DEF Continued
<1>2. /\ f \in Seq(Tellings(P)) /\ g \in Seq(Tellings(C))
      /\ Len(f) = Cardinality(Tellings(P)) /\ Len(g) = Cardinality(Tellings(C))
      /\ IsFiniteSet(Tellings(P)) /\ IsFiniteSet(Tellings(C))
  <2>1. P \in SUBSET P /\ C \in SUBSET C
    OBVIOUS
  <2> QED
    BY <1>1, <2>1, AsManyTellings DEF Lists
<1>3. Len(f) \in Nat /\ Len(g) \in Nat /\ Len(f) <= Len(g)
  BY <1>1, <1>2, FS_Subset, LenProperties
<1>4. ASSUME NEW i \in 1 .. Len(f) PROVE f[i] = g[i] /\ f[i] \in Tellings(C) /\ g[i] \in Tellings(C)
  <2>1. PICK r \in P : i = Position(r.attempt, Numbers(P)) + 1
    BY DEF Lists
  <2>2. f[i] = r.told
    BY <2>1 DEF Lists
  <2>3. PICK c \in C : c.told = r.told
    BY <1>1 DEF Tellings
  <2>4. i = Position(c.attempt, Numbers(C)) + 1
    BY <2>1, <2>3, SameTellingPosition
  <2>5. g[i] = c.told
    BY <2>4 DEF Lists
  <2> QED
    BY <2>2, <2>3, <2>5 DEF Tellings
<1>5. SubSeq(f, 1, Len(f)) = SubSeq(g, 1, Len(f))
  <2> DEFINE n == Len(f)
             u == SubSeq(f, 1, n)
             v == SubSeq(g, 1, n)
  <2>1. n \in Nat /\ n \in Int /\ 1 \in Int /\ n - 1 + 1 = n
    BY <1>3
  <2> HIDE DEF n
  <2>2. \A i \in 1 .. n : f[i] = g[i] /\ f[i] \in Tellings(C) /\ g[i] \in Tellings(C)
    BY <1>4 DEF n
  <2>3. /\ u \in Seq(Tellings(C)) /\ Len(u) = (IF 1 <= n THEN n - 1 + 1 ELSE 0)
        /\ \A i \in 1 .. n - 1 + 1 : u[i] = f[1 + i - 1]
    BY <2>1, <2>2, SubSeqProperties
  <2>4. /\ v \in Seq(Tellings(C)) /\ Len(v) = (IF 1 <= n THEN n - 1 + 1 ELSE 0)
        /\ \A i \in 1 .. n - 1 + 1 : v[i] = g[1 + i - 1]
    BY <2>1, <2>2, SubSeqProperties
  <2> HIDE DEF u, v
  <2>5. Len(u) = n /\ Len(v) = n /\ \A i \in 1 .. n : u[i] = v[i]
    BY <2>1, <2>2, <2>3, <2>4
  <2>6. u = v
    BY <2>3, <2>4, <2>5, SeqEqual
  <2> QED
    BY <2>6 DEF n, u, v
<1>6. ASSUME Tellings(P) = Tellings(C) PROVE f = g
  <2>1. Len(f) = Len(g) /\ f \in Seq(Tellings(C)) /\ g \in Seq(Tellings(C))
    BY <1>2, <1>6
  <2> QED
    BY <1>4, <2>1, SeqEqual
<1> QED
  BY <1>3, <1>5, <1>6 DEF IsPrefix

\* A bundle and the platform, in one job and one test.
LEMMA BundleContinued ==
  ASSUME LogInv, PlatformInv, ~ collided, NEW j \in Jobs, NEW t, NEW b \in imported
  PROVE  Continued(InJob(b, j, t), InJob(central, j, t))
<1> DEFINE P == InJob(b, j, t)
           C == InJob(central, j, t)
<1>1. Numbering /\ Chronicle
  BY DEF PlatformInv
<1>2. PICK i \in Jobs : b \in bundles[i]
  BY DEF PlatformInv
<1>3. /\ \A r \in P : r \in b.results /\ r.test = t /\ r.told[1][1] = j
      /\ \A c \in C : c \in central.results /\ c.test = t /\ c.told[1][1] = j
      /\ \A r \in b.results : r.test = t /\ r.told[1][1] = j => r \in P
      /\ \A c \in central.results : c.test = t /\ c.told[1][1] = j => c \in C
  BY DEF InJob, Of
<1> HIDE DEF P, C
<1>4. \A r \in P : i = j
  BY <1>2, <1>3, RowsOfBundle
<1>5. IsFiniteSet(P) /\ IsFiniteSet(C)
  <2>1. IsFiniteSet(b.results) /\ IsFiniteSet(central.results)
    BY <1>1, <1>2, RowsOfBundle DEF IsRun, Chronicle
  <2>2. P \in SUBSET b.results /\ C \in SUBSET central.results
    BY <1>3
  <2> QED
    BY <2>1, <2>2, FS_Subset
<1>6. InOrder(P)
  <2>1. ASSUME NEW r \in P PROVE r.attempt \in Nat /\ r.told[1][2] \in Nat /\ r.told[2] \in Nat
    <3>1. r \in b.results
      BY <1>3
    <3> QED
      BY <3>1, <1>2, RowNumbers
  <2>2. Unique(b.results)
        /\ \A q, r \in b.results : q.test = r.test /\ q.attempt < r.attempt => Earlier(q.told, r.told)
    BY <1>2, RowsOfBundle, OrderOfBundle DEF ToldInOrder
  <2>3. \A q, r \in P : /\ q.attempt = r.attempt => q = r
                        /\ q.attempt < r.attempt => Earlier(q.told, r.told)
    BY <1>3, <2>2 DEF Unique
  <2> QED
    BY <1>5, <2>1, <2>3 DEF InOrder
<1>7. InOrder(C)
  <2>1. ASSUME NEW c \in C PROVE c.attempt \in Nat /\ c.told[1][2] \in Nat /\ c.told[2] \in Nat
    <3>1. c \in central.results
      BY <1>3
    <3>2. c.attempt \in Nat
      BY <1>1, <3>1 DEF Chronicle, IsRow
    <3>3. c.told[1][2] \in Nat /\ c.told[2] \in Nat
      BY <1>1, <3>1, Origin
    <3> QED
      BY <3>2, <3>3
  <2>2. \A q, r \in C : /\ q.attempt = r.attempt => q = r
                        /\ q.attempt < r.attempt => Earlier(q.told, r.told)
    BY <1>1, <1>3 DEF Unique, Chronicle
  <2> QED
    BY <1>5, <2>1, <2>2 DEF InOrder
<1>8. ASSUME NEW r \in P PROVE r.told \in Tellings(C)
  <2>1. b \in ImportedOf(j) /\ r \in b.results
    BY <1>2, <1>3, <1>4 DEF ImportedOf
  <2>2. PICK c \in central.results : SameAttempt(r, c)
    BY <1>1, <2>1 DEF Chronicle
  <2>3. c \in C
    BY <1>3, <2>2 DEF SameAttempt
  <2> QED
    BY <2>2, <2>3 DEF SameAttempt, Tellings
<1>9. ASSUME NEW r \in P, NEW c \in C, Earlier(c.told, r.told)
      PROVE  c.told \in Tellings(P)
  <2>1. i = j /\ b \in bundles[j] /\ r \in b.results /\ r.test = t
    BY <1>2, <1>3, <1>4
  <2>2. c \in central.results /\ c.test = t /\ c.told[1][1] = j
    BY <1>3
  <2>3. PICK l \in Jobs : \E p \in ImportedOf(l) : \E q \in p.results :
          SameAttempt(q, c) /\ c.told[1][1] = l /\ p \in bundles[l]
    BY <1>1, <2>2, Origin
  <2>4. PICK p \in bundles[j] : \E q \in p.results : SameAttempt(q, c)
    BY <2>2, <2>3
  <2>5. PICK q \in p.results : q.told = c.told /\ q.test = t
    BY <2>2, <2>4 DEF SameAttempt
  <2>6. q \in b.results
    <3>1. SUFFICES ASSUME q \notin b.results PROVE FALSE
      OBVIOUS
    <3>2. Leads(p, b) \/ Leads(b, p)
      BY <2>1 DEF LogInv
    <3>3. r \in p.results /\ r.attempt < q.attempt
      BY <3>1, <3>2, <2>1, <2>5 DEF Leads
    <3>4. Earlier(r.told, q.told)
      BY <3>3, <2>1, <2>5, RowsOfBundle
    <3>5. /\ q.told[1][2] \in Nat /\ q.told[2] \in Nat
          /\ r.told[1][2] \in Nat /\ r.told[2] \in Nat
      BY <2>1, <2>4, <2>5, <3>3, RowNumbers
    <3> QED
      BY <3>4, <3>5, <1>9, <2>5 DEF Earlier
  <2>7. q \in P
    BY <2>2, <2>5, <2>6, <1>3
  <2> QED
    BY <2>5, <2>7 DEF Tellings
<1>10. Tellings(P) \subseteq Tellings(C)
  BY <1>8 DEF Tellings
<1>11. Continued(P, C)
  BY <1>6, <1>7, <1>9, <1>10 DEF Continued
<1> QED
  BY <1>11 DEF P, C

\* One of the bundles tells all that the platform does.
LEMMA ToldByOne ==
  ASSUME LogInv, PlatformInv, ~ collided, NEW j \in Jobs, NEW t, InJob(central, j, t) # {}
  PROVE  \E b \in imported : Tellings(InJob(b, j, t)) = Tellings(InJob(central, j, t))
<1> DEFINE C == InJob(central, j, t)
<1>1. Numbering /\ Chronicle
  BY DEF PlatformInv
<1>2. \A c \in C : c \in central.results /\ c.test = t /\ c.told[1][1] = j
  BY DEF InJob, Of
<1>3. \A c \in C : \E b \in imported : c.told \in Tellings(InJob(b, j, t))
  <2>1. ASSUME NEW c \in C PROVE \E b \in imported : c.told \in Tellings(InJob(b, j, t))
    <3>1. PICK i \in Jobs : \E p \in ImportedOf(i) : \E r \in p.results : SameAttempt(r, c)
      BY <1>1, <1>2 DEF Chronicle
    <3>2. PICK p \in imported : \E r \in p.results : SameAttempt(r, c)
      BY <3>1 DEF ImportedOf
    <3>3. PICK r \in p.results : r.test = t /\ r.told = c.told /\ r.told[1][1] = j
      BY <3>2, <1>2 DEF SameAttempt
    <3>4. r \in InJob(p, j, t)
      BY <3>3 DEF InJob, Of
    <3> QED
      BY <3>2, <3>3, <3>4 DEF Tellings
  <2> QED
    BY <2>1
<1> HIDE DEF C
<1>4. \A b \in imported : Continued(InJob(b, j, t), C)
  BY BundleContinued DEF C
<1>5. InOrder(C)
  BY <1>3, <1>4 DEF C, Continued
<1>6. PICK c \in C : \A d \in C : d.attempt <= c.attempt
  <2>1. Numbers(C) \in SUBSET Int /\ IsFiniteSet(Numbers(C)) /\ Numbers(C) # {}
    BY <1>5, InOrderNumbers DEF C, Numbers
  <2>2. PICK a \in Numbers(C) : \A d \in Numbers(C) : a >= d
    BY <2>1, Extremes
  <2>3. \A d \in C : d.attempt \in Numbers(C) /\ d.attempt \in Nat
    BY <1>5 DEF Numbers, InOrder
  <2> QED
    BY <2>2, <2>3 DEF Numbers
<1>7. PICK b \in imported : c.told \in Tellings(InJob(b, j, t))
  BY <1>3
<1>8. PICK r \in InJob(b, j, t) : r.told = c.told
  BY <1>7 DEF Tellings
<1>9. ASSUME NEW d \in C PROVE d.told \in Tellings(InJob(b, j, t))
  <2>1. CASE d = c
    BY <2>1, <1>7
  <2>2. CASE d # c
    <3>1. d.attempt < c.attempt
      <4>1. d.attempt \in Nat /\ c.attempt \in Nat /\ d.attempt # c.attempt
        BY <2>2, <1>5 DEF InOrder
      <4> QED
        BY <4>1, <1>6
    <3>2. Earlier(d.told, r.told)
      BY <3>1, <1>5, <1>8 DEF InOrder
    <3> QED
      BY <3>2, <1>4, <1>7 DEF Continued
  <2> QED
    BY <2>1, <2>2
<1>10. Tellings(InJob(b, j, t)) = Tellings(C)
  <2>1. Tellings(C) \subseteq Tellings(InJob(b, j, t))
    BY <1>9 DEF Tellings
  <2> QED
    BY <2>1, <1>4, <1>7 DEF Continued
<1> QED
  BY <1>10 DEF C

LEMMA PlatformImpliesNothingLost == LogInv /\ PlatformInv => NothingLost
<1> SUFFICES ASSUME LogInv, PlatformInv, ~ collided
             PROVE  /\ \A j \in Jobs, t \in Tests :
                         /\ \A b \in imported : IsPrefix(Told(b, j, t), Told(central, j, t))
                         /\ Told(central, j, t) # << >>
                              => \E b \in imported : Told(b, j, t) = Told(central, j, t)
                    /\ \A r \in central.results : central.invocations[r.inv] = r.told[1]
  BY DEF NothingLost
<1>1. ASSUME NEW j \in Jobs, NEW t \in Tests, NEW b \in imported
      PROVE  /\ IsPrefix(Told(b, j, t), Told(central, j, t))
             /\ Tellings(InJob(b, j, t)) = Tellings(InJob(central, j, t))
                  => Told(b, j, t) = Told(central, j, t)
  <2>1. Continued(InJob(b, j, t), InJob(central, j, t))
    BY BundleContinued
  <2>2. Lists(Told(b, j, t), InJob(b, j, t)) /\ Lists(Told(central, j, t), InJob(central, j, t))
    BY <2>1, ToldLists DEF Continued
  <2> QED
    BY <2>1, <2>2, ContinuedTold
<1>2. ASSUME NEW j \in Jobs, NEW t \in Tests, Told(central, j, t) # << >>
      PROVE  \E b \in imported : Told(b, j, t) = Told(central, j, t)
  <2>1. InJob(central, j, t) # {}
    <3>1. SUFFICES ASSUME InJob(central, j, t) = {} PROVE FALSE
      OBVIOUS
    <3>2. InOrder({}) /\ Numbers({}) = {}
      BY FS_EmptySet DEF InOrder, Numbers
    <3>3. Lists(Told(central, j, t), {})
      BY <3>1, <3>2, ToldLists
    <3>4. Told(central, j, t) \in Seq(Tellings({})) /\ Len(Told(central, j, t)) = 0
      BY <3>2, <3>3, FS_EmptySet DEF Lists
    <3> QED
      BY <3>4, <1>2, EmptySeq
  <2>2. PICK b \in imported : Tellings(InJob(b, j, t)) = Tellings(InJob(central, j, t))
    BY <2>1, ToldByOne
  <2> QED
    BY <2>2, <1>1
<1>3. \A r \in central.results : central.invocations[r.inv] = r.told[1]
  BY DEF PlatformInv, Chronicle
<1> QED
  BY <1>1, <1>2, <1>3

\* For any jobs, however often each runs pytest and exports, and in whatever order and however
\* often its bundles are imported, the platform tells of every test in every job what the longest
\* of the bundles tells, in that order, each attempt once and under its invocation, unless an
\* import gave one number to two invocations (bundle.py, _remap_merged_invocations).
THEOREM NothingIsLost == Spec => []NothingLost
<1>1. Init => BundlesInv /\ LogInv /\ PlatformInv
  BY BundlesStart, LogStart, PlatformStart
<1>2. BundlesInv /\ LogInv /\ PlatformInv /\ [Next]_vars => BundlesInv' /\ LogInv' /\ PlatformInv'
  BY BundlesStep, LogStep, PlatformStep
<1>3. LogInv /\ PlatformInv => NothingLost
  BY PlatformImpliesNothingLost
<1> QED
  BY <1>1, <1>2, <1>3, PTL DEF Spec
=============================================================================
