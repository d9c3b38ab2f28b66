------------------------------- MODULE MCRuns -------------------------------
(***************************************************************************)
(* Runs on small instances: what clients append, and the symmetry of the   *)
(* identifiers, which the platform draws at random.                        *)
(***************************************************************************)
EXTENDS Runs, TLC

CONSTANTS t1, t2, ticket

Item(outcome, tags) == [outcome |-> outcome, tags |-> tags, ticket |-> NoTicket]

\* A first attempt that needs acquired data and fails, its rerun, an expected-red test, and a
\* batch of two.
MCBatches ==
  { << t1, 1 >> :> Item("failed", {"seeded"}),
    << t1, 2 >> :> Item("passed", {}),
    << t2, 1 >> :> Item("xfailed", {"known_defect"}),
    (<< t1, 1 >> :> Item("passed", {})) @@ (<< t2, 1 >> :> Item("skipped", {})) }

Row(test, verdict_, of) == [test |-> test, kind |-> "expected_red", ticket |-> of, verdict |-> verdict_]
MCVerdictRows == { Row(t2, "held_empty", ticket), Row(t2, "reproduces", ticket) }

RunPerms == Permutations(RunIds)
Perms == RunPerms \cup Permutations(RequestIds)
=============================================================================
