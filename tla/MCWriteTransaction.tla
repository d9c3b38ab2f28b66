------------------------- MODULE MCWriteTransaction -------------------------
(***************************************************************************)
(* WriteTransaction on small instances: a process enters a transaction     *)
(* only while the rows committed and the writes under way are fewer than   *)
(* MaxRows, so that the bound never keeps a write from ending.             *)
(***************************************************************************)
EXTENDS WriteTransaction, TLC

CONSTANT MaxRows

WithinBounds == 
  Len(audit') + Cardinality({ s \in Processes : phase'[s] # "idle" }) <= MaxRows

MCSpec == Init /\ [][Next /\ WithinBounds]_vars
MCFairSpec == MCSpec /\ Fairness
=============================================================================
