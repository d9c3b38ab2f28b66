------------------------------ MODULE RunTrust ------------------------------
(***************************************************************************)
(* The run-trust verdict: RunTrustGate (gate/integrity.py) as the results  *)
(* platform applies it to what it has stored (qaplatform/summary.py).      *)
(*                                                                         *)
(* A test result is its outcome, the tags the rules look for and the       *)
(* ticket it carries.  A run's `finals' map each test that reported to the *)
(* result of its last attempt; `rows' are its verdict rows.                *)
(***************************************************************************)
EXTENDS Naturals, FiniteSets

CONSTANTS
  MinExecuted,     \* RUN_TRUST_MIN_EXECUTED; 0 disables the rule
  MaxSkipPercent,  \* RUN_TRUST_MAX_SKIP_RATIO, of 100
  MinVerdicts,     \* RUN_TRUST_MIN_VERDICTS
  MinAcquired,     \* RUN_TRUST_MIN_ACQUIRED
  Undeclared,      \* no expected_count
  NoTicket,
  NoResult         \* nothing stored for an attempt of a test

ASSUME ThresholdAssumption ==
  /\ {MinExecuted, MaxSkipPercent, MinVerdicts, MinAcquired} \subseteq Nat
  /\ Undeclared \notin Nat

Verdicts == {"PASS", "FAIL", "UNJUDGED"}
Outcomes == {"passed", "failed", "error", "xfailed", "skipped", "not_run"}
Executed == {"passed", "failed", "error", "xfailed"}

\* The verdicts of an expected-red test that answer what it asks.
Reached == {"reproduces", "cleared", "closed_pass", "closed_regressed"}

\* The view final_results, over what is stored for each test and attempt: the last attempt of
\* every test that reported.
FinalResults(stored) ==
  LET reported == { k \in DOMAIN stored : stored[k] # NoResult }
      last(t) == CHOOSE k \in reported : k[1] = t /\ \A j \in reported : j[1] = t => j[2] <= k[2]
  IN  [t \in { k[1] : k \in reported } |-> stored[last(t)]]

\* What one tracked defect is identified by: its ticket, else the test.
Key(test, ticket) == IF ticket = NoTicket THEN test ELSE ticket

\* build_tally; the platform hands it no fixture rows, so nothing passes on acquired data.
Tally(finals, rows) ==
  LET tests == DOMAIN finals
      tagged(tag) == { t \in tests : tag \in finals[t].tags }
      red == { v \in rows : v.kind = "expected_red" }
  IN  [selected           |-> Cardinality(tests),
       executed           |-> Cardinality({ t \in tests : finals[t].outcome \in Executed }),
       skipped            |-> Cardinality({ t \in tests : finals[t].outcome \notin Executed }),
       detectors_selected |-> Cardinality(tagged("known_defect") \cup { v.test : v \in red }),
       verdicts_reached   |-> Cardinality(
                                { Key(v.test, v.ticket) : v \in { w \in red : w.verdict \in Reached } }
                                \cup { Key(t, finals[t].ticket) : t \in
                                         { u \in tagged("known_defect") : finals[u].outcome = "xfailed" } }),
       seeded_selected    |-> Cardinality(tagged("seeded")),
       passed_on_acquired |-> 0]

\* The four rules of RunTrustGate.evaluate: when each has something to say, and when it is
\* breached.
Rules(tally) ==
  { [applies  |-> MinExecuted > 0 /\ tally.selected >= MinExecuted,
     breached |-> tally.executed < MinExecuted],
    [applies  |-> MaxSkipPercent < 100 /\ tally.selected > 0,
     breached |-> 100 * tally.skipped > MaxSkipPercent * tally.selected],
    [applies  |-> MinVerdicts > 0 /\ tally.detectors_selected > 0,
     breached |-> tally.verdicts_reached < MinVerdicts],
    [applies  |-> MinAcquired > 0 /\ tally.seeded_selected > 0,
     breached |-> tally.passed_on_acquired < MinAcquired] }

Evaluate(tally) ==
  LET applied == { rule \in Rules(tally) : rule.applies }
  IN  IF \E rule \in applied : rule.breached THEN "FAIL"
      ELSE IF applied = {} THEN "UNJUDGED" ELSE "PASS"

\* (FaultyJudge, which forgets SELECTION, is no part of the model: it is what a mistake would
\* make of Judge.)
FaultyJudge(finals, rows, expected_count) == Evaluate(Tally(finals, rows))

\* judge: the gate's rules and SELECTION, a shortfall against the declared count.
Judge(finals, rows, expected_count) ==
  LET result == Evaluate(Tally(finals, rows))
      short == expected_count # Undeclared /\ Cardinality(DOMAIN finals) < expected_count
  IN  IF short /\ result # "FAIL" THEN "UNJUDGED" ELSE result

=============================================================================
