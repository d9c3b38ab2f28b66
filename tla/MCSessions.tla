----------------------------- MODULE MCSessions -----------------------------
(***************************************************************************)
(* Sessions on small instances: one session's run, and another run beside  *)
(* it.  WithinBounds gives a capture to one session only, since a capture  *)
(* posts to no other.                                                      *)
(***************************************************************************)
EXTENDS Sessions, TLC

CONSTANTS t1

Pushes == { << t1, 1 >> :> [outcome |-> "passed", tags |-> {}, ticket |-> NoTicket] }

SessionRows == { SessionRow(r) : r \in RunIds }
Perms == Permutations(RunIds)

WithinBounds == Cardinality({ r \in RunIds : capture'[r] # "none" }) <= 1

MCSpec == SessionsInit /\ [][SessionsNext /\ WithinBounds]_sessionsVars
=============================================================================
