------------------------------- MODULE Shards -------------------------------
(***************************************************************************)
(* One selection of tests split over several machines that do not talk to  *)
(* each other (gate/shard.py, gate/pytest_shard.py), and the merge that    *)
(* has to notice when something is missing (gate/merge.py).                *)
(*                                                                         *)
(* Every machine plans from what it collected and from the durations it    *)
(* was given, leaves a manifest of what it selected and one of what        *)
(* reported.  The workers of one machine compute the same plan and count   *)
(* as one; the directory of the manifests begins empty.                    *)
(***************************************************************************)
EXTENDS Integers, FiniteSets, FiniteSetsExt, Functions

CONSTANTS
  NodeIds,    \* the node ids
  Pinned,     \* those that share backend state
  PinnedUnit, \* the name they are hashed by
  Hash,       \* the stable hash, as its place in the order of all hashes
  Count,      \* the number of shards
  Views       \* what a machine may see: the tests it collects, the durations it knows

Shards == 1 .. Count

ASSUME ShardsAssumption ==
  /\ Count \in Nat \ {0}
  /\ IsFiniteSet(NodeIds) /\ Pinned \subseteq NodeIds
  /\ Hash \in [NodeIds \cup {PinnedUnit} -> Int]
  /\ \A v \in Views : /\ v.collected \subseteq NodeIds
                       /\ v.durations \in [DOMAIN v.durations -> Int]

VARIABLES
  view,     \* what each machine sees
  phase,    \* "start", "running", "ended" or "dead"
  executed, \* the tests that reported, by shard
  selects,  \* the manifests of what is collected and selected, of the shards that wrote one
  reports,  \* the manifests of what was executed, likewise
  merged    \* what the merge said: "no", "complete" or "incomplete"

manifestVars == << selects, reports >>
shardsVars == << view, phase, executed, manifestVars, merged >>

ShardsTypeOK ==
  /\ view \in [Shards -> Views]
  /\ phase \in [Shards -> {"start", "running", "ended", "dead"}]
  /\ executed \in [Shards -> SUBSET NodeIds]
  /\ DOMAIN selects \subseteq Shards
  /\ reports \in [DOMAIN reports -> SUBSET NodeIds] /\ DOMAIN reports \subseteq Shards
  /\ merged \in {"no", "complete", "incomplete"}

-----------------------------------------------------------------------------
\* _weights, doubled, since the median of an even number of durations is a half.  A test
\* without a duration gets the median of those known, or 1.0.
Median2(v) ==
  LET known == {t \in v.collected \cap DOMAIN v.durations : v.durations[t] >= 0}
      n == Cardinality(known)
      Rank(t) == Cardinality({s \in known : v.durations[s] <= v.durations[t]})
      At(i) == Min({v.durations[t] : t \in {s \in known : Rank(s) >= i}})
  IN  IF n = 0 THEN 0 ELSE At((n + 1) \div 2) + At((n + 2) \div 2)

Weights(v) ==
  [t \in v.collected |-> IF t \in DOMAIN v.durations THEN 2 * v.durations[t]
                         ELSE IF Median2(v) > 0 THEN Median2(v) ELSE 2]

UnitWeight(v, u) == SumFunctionOnSet(Weights(v), u)

\* The pinned tests are one unit, every other test is one.
Units(v) ==
  LET pinned == v.collected \cap Pinned
  IN  {{t} : t \in v.collected \ Pinned} \cup (IF pinned = {} THEN {} ELSE {pinned})

\* _stable_key.  (FaultyKey is a hash with a seed of its own on each machine.)
FaultyKey(k, u) == (Hash[CHOOSE t \in u : TRUE] * (k + 1)) % 7
Key(k, u) == IF u \cap Pinned = {} THEN Hash[CHOOSE t \in u : TRUE] ELSE Hash[PinnedUnit]

\* Longest first, equal ones by their key.
First(k, v, units) ==
  LET most == Max({UnitWeight(v, u) : u \in units})
      longest == {u \in units : UnitWeight(v, u) = most}
      least == Min({Key(k, u) : u \in longest})
  IN  CHOOSE u \in longest : Key(k, u) = least

\* plan_shards, as machine k computes it: the next unit goes to the shard with the least load,
\* the first of them.
Place(k, v, p) ==
  LET u == First(k, v, p.left)
      least == Min({p.load[i] : i \in Shards})
      to == Min({i \in Shards : p.load[i] = least})
  IN  [left |-> p.left \ {u},
       bins |-> [p.bins EXCEPT ![to] = @ \cup u],
       load |-> [p.load EXCEPT ![to] = @ + UnitWeight(v, u)]]

Plan(k, v) ==
  LET n == Cardinality(Units(v))
      placed[i \in 0 .. n] ==
        IF i = 0
        THEN [left |-> Units(v), bins |-> [j \in Shards |-> {}], load |-> [j \in Shards |-> 0]]
        ELSE Place(k, v, placed[i - 1])
  IN  placed[n].bins

-----------------------------------------------------------------------------
\* _write_json.
Written(manifests, k, content) ==
  [j \in DOMAIN manifests \cup {k} |-> IF j = k THEN content ELSE manifests[j]]

ShardsInit ==
  /\ view \in [Shards -> Views]
  /\ phase = [k \in Shards |-> "start"]
  /\ executed = [k \in Shards |-> {}]
  /\ selects = [k \in {} |-> {}]
  /\ reports = [k \in {} |-> {}]
  /\ merged = "no"

\* pytest_collection_modifyitems.
Collect(k) ==
  /\ phase[k] = "start"
  /\ phase' = [phase EXCEPT ![k] = "running"]
  /\ selects' = Written(selects, k, [collected |-> view[k].collected, selected |-> Plan(k, view[k])[k]])
  /\ UNCHANGED << view, executed, reports, merged >>

\* pytest_runtest_logreport.
Report(k, t) ==
  /\ phase[k] = "running" /\ t \in selects[k].selected
  /\ executed' = [executed EXCEPT ![k] = @ \cup {t}]
  /\ UNCHANGED << view, phase, manifestVars, merged >>

\* pytest_sessionfinish, also of a session that was stopped early.
Finish(k) ==
  /\ phase[k] = "running"
  /\ phase' = [phase EXCEPT ![k] = "ended"]
  /\ reports' = Written(reports, k, executed[k])
  /\ UNCHANGED << view, executed, selects, merged >>

\* The machine is lost, or its job cancelled.
Vanish(k) ==
  /\ phase[k] \in {"start", "running"}
  /\ phase' = [phase EXCEPT ![k] = "dead"]
  /\ UNCHANGED << view, executed, manifestVars, merged >>

\* read_manifests.  (FaultyExpected takes what was selected for what should have run.)
Selected == DOMAIN selects
Reported == DOMAIN reports
FaultyExpected == UNION {selects[k].selected : k \in Selected}
Expected == UNION {selects[k].collected : k \in Selected}

\* check_complete, and the agreement of the collections.
Complete ==
  /\ \A j, k \in Selected : selects[j].collected = selects[k].collected
  /\ Expected # {}
  /\ Reported = Shards
  /\ \A k \in Reported : reports[k] # {}
  /\ \A k \in Selected :
       selects[k].selected # {} /\ (k \in Reported => selects[k].selected \subseteq reports[k])
  /\ Expected \subseteq UNION {reports[k] : k \in Reported}

Merge ==
  /\ merged = "no"
  /\ merged' = IF Complete THEN "complete" ELSE "incomplete"
  /\ UNCHANGED << view, phase, executed, manifestVars >>

ShardsNext ==
  \/ \E k \in Shards : Collect(k) \/ Finish(k) \/ Vanish(k) \/ \E t \in NodeIds : Report(k, t)
  \/ Merge

ShardsSpec == ShardsInit /\ [][ShardsNext]_shardsVars

-----------------------------------------------------------------------------
\* "The plan is a partition - every node id appears exactly once" (shard.py:15), although every
\* machine computes it alone: machines that see the same select no test twice, leave none out
\* if all of them do, and keep the pinned ones together (shard.py:11-13).
PlansAgree ==
  /\ \A j, k \in Selected :
       j # k /\ view[j] = view[k] => selects[j].selected \cap selects[k].selected = {}
  /\ Selected = Shards /\ (\A j, k \in Shards : view[j] = view[k])
       => UNION {selects[k].selected : k \in Shards} = view[1].collected
  /\ \A k \in Selected :
       LET pinned == view[k].collected \cap Pinned
       IN  pinned \subseteq selects[k].selected \/ pinned \cap selects[k].selected = {}

\* "Any gap is a failure of the merge, never a smaller green run" (merge.py:14): when the merge
\* says complete, every machine ended, every test that any of them collected reported on one,
\* and each ran all it had selected - whatever the machines saw, and whichever died or stopped.
CompleteIsWhole ==
  merged = "complete" =>
    \A k \in Shards :
      /\ phase[k] = "ended"
      /\ view[k].collected \subseteq UNION {executed[j] : j \in Shards}
      /\ selects[k].selected \subseteq executed[k]
=============================================================================
