---------------------------- MODULE AuditedStore ----------------------------
(***************************************************************************)
(* What a write of the platform promises (qaplatform/audit.py, module      *)
(* comment): a change and the audit row that describes it exist together   *)
(* or not at all, and the rows of a project form one chain.                *)
(***************************************************************************)
EXTENDS AuditLog

CONSTANTS Projects, Actors

VARIABLES
  changes,   \* the number of changes made to each project
  audit      \* the audit log

Init ==
  /\ changes = [p \in Projects |-> 0]
  /\ audit = << >>

\* A change of project p by actor a, with its row.
Change(p, a) ==
  /\ changes' = [changes EXCEPT ![p] = @ + 1]
  /\ audit' = Record(audit, p, a, "token", "write", "diff")

Next == \E p \in Projects, a \in Actors : Change(p, a)

Spec == Init /\ [][Next]_<< changes, audit >>

=============================================================================
