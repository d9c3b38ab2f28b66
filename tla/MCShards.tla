------------------------------ MODULE MCShards ------------------------------
(***************************************************************************)
(* The shards on small instances.                                          *)
(***************************************************************************)
EXTENDS Shards, TLC

CONSTANTS t1, t2, t3, t4

\* An order that mixes the pinned unit with the tests.
SomeHash == t1 :> 3 @@ t2 :> 1 @@ t3 :> 5 @@ t4 :> 2 @@ PinnedUnit :> 4

\* Everything, or all but one; no durations, a tie, or a spread in which some are unknown.
SomeViews ==
  [collected : {{t1, t2, t3, t4}, {t1, t2, t3}},
   durations : {<< >>, t1 :> 1 @@ t2 :> 1 @@ t3 :> 2, t2 :> 0 @@ t3 :> 3 @@ t4 :> 1,
                t1 :> 4 @@ t4 :> 2}]
=============================================================================
