------------------------------ MODULE Bundles -------------------------------
(***************************************************************************)
(* One run that several CI jobs tell of, each in a store of its own        *)
(* (results/pytest_plugin.py), and the platform that learns of it from the *)
(* bundles they export (results/bundle.py), in any order and repeatedly.   *)
(*                                                                         *)
(* A job runs pytest several times; each time is an invocation, known      *)
(* everywhere by its start and its arguments.  What an attempt says of its *)
(* test is told apart only by whose it is: the how-manieth attempt of      *)
(* which invocation.  Cases, revisions, evidence, verdict rows and what a  *)
(* run says of its origin are left out.                                    *)
(***************************************************************************)
EXTENDS Naturals, FiniteSets, FiniteSetsExt, Sequences, SequencesExt, TLC

CONSTANTS
  Jobs,        \* the jobs that share the run id
  Tests,       \* the node ids
  Selections,  \* what the command lines of each job select
  MaxSessions, \* bound: how often each job runs pytest
  MaxAttempts, \* bound: how often one session tries a test
  MaxBundles   \* bound: how often each job exports

ASSUME BundlesAssumption ==
  /\ IsFiniteSet(Tests)
  /\ Selections \in [Jobs -> SUBSET SUBSET Tests]
  /\ MaxSessions \in [Jobs -> Nat] /\ MaxBundles \in [Jobs -> Nat]
  /\ MaxAttempts \in Nat

VARIABLES
  store,    \* the run in each job's store
  recorder, \* ResultsRecorder of each job
  bundles,  \* the bundles that each job exported
  central,  \* the run in the store of the platform
  imported, \* auxiliary: the bundles that were imported
  collided  \* auxiliary: an import gave two new invocations one number

vars == << store, recorder, bundles, central, imported, collided >>

\* A run: its status, its invocations by sequence number, and the attempts of its tests.
NoRun == [status |-> "none", invocations |-> << >>, results |-> {}]

Seqs(run) == DOMAIN run.invocations
Of(run, t) == { r \in run.results : r.test = t }
Largest(numbers) == Max(numbers \cup {0})

\* next_invocation_seq and max_attempts.
NextSeq(run) == Largest(Seqs(run)) + 1
MaxAttempt(run, t) == Largest({ r.attempt : r \in Of(run, t) })

-----------------------------------------------------------------------------
(* The recorder. *)

NoSession ==
  [open |-> FALSE, seq |-> 0, selected |-> {}, offsets |-> << >>,
   running |-> {}, attempts |-> << >>, buffer |-> {}]

Init ==
  /\ store = [j \in Jobs |-> NoRun]
  /\ recorder = [j \in Jobs |-> NoSession]
  /\ bundles = [j \in Jobs |-> {}]
  /\ central = NoRun
  /\ imported = {}
  /\ collided = FALSE

\* begin_invocation.
Extended(invocations, seq, inv) ==
  [s \in DOMAIN invocations \cup {seq} |-> IF s = seq THEN inv ELSE invocations[s]]

\* begin_run: creates the run or opens it again.
BeginRun(run) == [run EXCEPT !.status = "running"]

\* The row _close or _not_run makes of the next attempt of a test.
Row(j, t) ==
  LET rec == recorder[j]
      nth == rec.attempts[t] + 1
  IN  [test |-> t, attempt |-> rec.offsets[t] + nth, inv |-> rec.seq,
       told |-> << store[j].invocations[rec.seq], nth >>]

\* add_results: an attempt already stored is left alone.
Free(run, r) == \A s \in Of(run, r.test) : s.attempt # r.attempt
Stored(run, rows) == [run EXCEPT !.results = @ \cup { r \in rows : Free(run, r) }]

\* pytest_sessionstart and the collection.
SessionStart(j, selected) ==
  LET seq == NextSeq(store[j])
  IN  /\ ~recorder[j].open
      /\ seq <= MaxSessions[j]
      /\ store' = [store EXCEPT ![j] =
           [BeginRun(@) EXCEPT !.invocations =
              Extended(store[j].invocations, seq, << j, seq >>)]]
      /\ recorder' = [recorder EXCEPT ![j] =
           [NoSession EXCEPT !.open = TRUE, !.seq = seq, !.selected = selected,
                             !.offsets = [t \in Tests |-> MaxAttempt(store[j], t)],
                             !.attempts = [t \in Tests |-> 0]]]
      /\ UNCHANGED << bundles, central, imported, collided >>

\* The store fails after begin_run.
StartFails(j) ==
  /\ ~recorder[j].open
  /\ store' = [store EXCEPT ![j] = BeginRun(@)]
  /\ UNCHANGED << recorder, bundles, central, imported, collided >>

\* pytest_runtest_logreport: the first report of an attempt.
Begin(j, t) ==
  /\ recorder[j].open
  /\ t \in recorder[j].selected \ recorder[j].running
  /\ recorder[j].attempts[t] < MaxAttempts
  /\ recorder' = [recorder EXCEPT ![j].running = @ \cup {t}]
  /\ UNCHANGED << store, bundles, central, imported, collided >>

\* The last one: _close, which flushes when the buffer is full or old.
Close(j, t, flush) ==
  LET rows == recorder[j].buffer \cup {Row(j, t)}
  IN  /\ recorder[j].open
      /\ t \in recorder[j].running
      /\ recorder' = [recorder EXCEPT ![j].running = @ \ {t},
                                      ![j].attempts[t] = @ + 1,
                                      ![j].buffer = IF flush THEN {} ELSE rows]
      /\ store' = IF flush THEN [store EXCEPT ![j] = Stored(@, rows)] ELSE store
      /\ UNCHANGED << bundles, central, imported, collided >>

\* finish: what runs is closed, what never ran is not_run; finish_run may fail.
\* (FaultyUntold forgets the tests that are in the middle of an attempt.)
FaultyUntold(rec) == { t \in rec.selected \ rec.running : rec.attempts[t] = 0 }
Untold(rec) == rec.running \cup { t \in rec.selected : rec.attempts[t] = 0 }

Finish(j, status) ==
  /\ recorder[j].open
  /\ store' = [store EXCEPT ![j] =
       [Stored(@, recorder[j].buffer \cup { Row(j, t) : t \in Untold(recorder[j]) })
          EXCEPT !.status = status]]
  /\ recorder' = [recorder EXCEPT ![j].open = FALSE, ![j].running = {}, ![j].buffer = {},
                                  ![j].attempts = [t \in Tests |-> 0]]
  /\ UNCHANGED << bundles, central, imported, collided >>

\* The process dies, or _degrade after a write failed: the buffer is lost.
Lose(j) ==
  /\ recorder[j].open
  /\ recorder' = [recorder EXCEPT ![j] = NoSession]
  /\ UNCHANGED << store, bundles, central, imported, collided >>

-----------------------------------------------------------------------------
(* The bundles. *)

\* write_bundle.
Export(j) ==
  /\ store[j].status # "none"
  /\ Cardinality(bundles[j] \cup {store[j]}) <= MaxBundles[j]
  /\ bundles' = [bundles EXCEPT ![j] = @ \cup {store[j]}]
  /\ UNCHANGED << store, recorder, central, imported, collided >>

\* _remap_merged_invocations: an invocation of the bundle is the stored one with its start, or
\* keeps its number when that is free, or gets the next one.  (FaultySame: is the stored one
\* with its number.)
FaultySame(b, k) == Seqs(central) \cap {k}
Same(b, k) == { s \in Seqs(central) : central.invocations[s] = b.invocations[k] }
New(b) == { k \in Seqs(b) : Same(b, k) = {} }
Taken(b) == New(b) \cap Seqs(central)
Position(k, numbers) == Cardinality({ i \in numbers : i < k })

NumberOf(b, k) ==
  IF k \notin New(b) THEN Min(Same(b, k))
  ELSE IF k \in Taken(b) THEN NextSeq(central) + Position(k, Taken(b))
  ELSE k

\* The attempts of a known invocation are the stored ones in their order, as far as those go;
\* further ones, and those of a renumbered invocation, follow all attempts that are stored.
AttemptsOf(run, t, inv) == { r.attempt : r \in { s \in Of(run, t) : s.inv = inv } }
Nth(numbers, n) == CHOOSE a \in numbers : Position(a, numbers) = n

Continues(b, r) ==
  \/ r.inv \in Taken(b)
  \/ /\ r.inv \notin New(b)
     /\ Position(r.attempt, AttemptsOf(b, r.test, r.inv))
          >= Cardinality(AttemptsOf(central, r.test, NumberOf(b, r.inv)))

AttemptOf(b, r) ==
  IF Continues(b, r)
  THEN MaxAttempt(central, r.test) + 1
         + Position(r.attempt, { s.attempt : s \in { q \in Of(b, r.test) : Continues(b, q) } })
  ELSE IF r.inv \in New(b) THEN r.attempt
  ELSE Nth(AttemptsOf(central, r.test, NumberOf(b, r.inv)),
           Position(r.attempt, AttemptsOf(b, r.test, r.inv)))

Remapped(b, r) == [r EXCEPT !.inv = NumberOf(b, r.inv), !.attempt = AttemptOf(b, r)]

\* add_invocations and add_results: the first row with a key stands.
AddedInvocations(b) ==
  [s \in Seqs(central) \cup { NumberOf(b, k) : k \in New(b) } |->
     IF s \in Seqs(central) THEN central.invocations[s]
     ELSE b.invocations[Min({ k \in New(b) : NumberOf(b, k) = s })]]
FirstOfKey(b, r) ==
  \A q \in Of(b, r.test) : AttemptOf(b, q) = AttemptOf(b, r) => q.attempt >= r.attempt

\* import_records.
Import(b) ==
  /\ central' =
       [Stored(central, { Remapped(b, r) : r \in { q \in b.results : FirstOfKey(b, q) } })
          EXCEPT !.status = b.status,
                 !.invocations = AddedInvocations(b)]
  /\ imported' = imported \cup {b}
  /\ collided' = (collided \/ \E k, l \in New(b) : k # l /\ NumberOf(b, k) = NumberOf(b, l))
  /\ UNCHANGED << store, recorder, bundles >>

Next ==
  \/ \E j \in Jobs :
       \/ \E selected \in Selections[j] : SessionStart(j, selected)
       \/ StartFails(j)
       \/ \E t \in Tests : Begin(j, t) \/ \E flush \in BOOLEAN : Close(j, t, flush)
       \/ \E status \in {"running", "finished"} : Finish(j, status)
       \/ Lose(j)
       \/ Export(j)
       \/ \E b \in bundles[j] : Import(b)

Spec == Init /\ [][Next]_vars

-----------------------------------------------------------------------------
\* What a run tells of a test in one job, in the order of the attempts.
Told(run, j, t) ==
  LET rows == { r \in Of(run, t) : r.told[1][1] = j }
      numbers == { r.attempt : r \in rows }
  IN  [i \in 1 .. Cardinality(numbers) |->
         (CHOOSE r \in rows : r.attempt = Nth(numbers, i - 1)).told]

\* "A selected test that never reported ... is stored as not_run", and a later session
\* "continues the attempt numbering" (docs/features/results-store.md:58-60), so that the last
\* attempt is a test's result: when a job's run is finished, every test its last session
\* selected has all its rows of that session and its last attempt among them, whichever
\* sessions before crashed, lost their buffer or failed to start.
CompleteWhenFinished ==
  \A j \in Jobs :
    store[j].status = "finished" =>
      \A t \in recorder[j].selected :
        LET rows == { r \in Of(store[j], t) : r.inv = recorder[j].seq }
        IN  /\ MaxAttempt(store[j], t) \in { r.attempt : r \in rows }
            /\ { r.told[2] : r \in rows } = 1 .. Cardinality(rows)

\* A merge "without losing anything" (bundle.py:325): whatever is imported, in any order and
\* again, the platform tells of every test in every job what the longest of the bundles tells,
\* in that order and each attempt once, and under the invocation it belongs to.  It holds
\* unless an import gave one number to two invocations: to one whose own number was taken,
\* and to a later one that kept the number the first was given.
NothingLost ==
  ~collided =>
    /\ \A j \in Jobs, t \in Tests :
         /\ \A b \in imported : IsPrefix(Told(b, j, t), Told(central, j, t))
         /\ Told(central, j, t) # << >>
              => \E b \in imported : Told(b, j, t) = Told(central, j, t)
    /\ \A r \in central.results : central.invocations[r.inv] = r.told[1]

\* "Importing a bundle twice changes nothing" (bundle.py:11), "importing either bundle again
\* adds nothing" (docs/features/results-store.md:109).  After such an import it does: one of
\* the two invocations was dropped, and attempts with it, and the next import of the same
\* bundle adds what the first one lost.
AgainAddsNothing ==
  [][\A b \in imported : Import(b) =>
       UNCHANGED << central.invocations, central.results >>]_vars
=============================================================================
