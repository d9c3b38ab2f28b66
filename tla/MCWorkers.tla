----------------------------- MODULE MCWorkers -----------------------------
(***************************************************************************)
(* The workers on small instances.                                         *)
(***************************************************************************)
EXTENDS Workers, TLC

CONSTANTS w1, w2, t1, t2, t3, e1, e2
TwoEntities == << e1, e2 >>

\* Workers and tests are alike; the entities are in an order.
Perms == Permutations(Workers) \cup Permutations(Tests)
=============================================================================
