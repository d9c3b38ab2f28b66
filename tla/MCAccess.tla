------------------------------ MODULE MCAccess ------------------------------
(***************************************************************************)
(* AccessHistory on a small instance: one server process, a command line   *)
(* beside it, and a project with members and tokens next to the default    *)
(* one.  ServerAsks, CliAsks and WithinBounds keep to the calls and the    *)
(* expiries the questions of the run need.  The number of audit rows needs *)
(* no bound: no guard reads the log and the properties checked here read   *)
(* only the row a step appends, so states that differ in the log alone     *)
(* behave alike and View leaves the log out.                               *)
(***************************************************************************)
EXTENDS AccessHistory, TLC

\* The operator is made a tester of the default project; everything else is about the other.
ServerAsks(call) ==
  CASE call.project = Default ->
         call.op = "member.grant" /\ call.user = Operator /\ call.role = "tester"
    [] call.op = "member.grant" -> call.role \in {"tester", "admin"}
    [] call.op = "token.issue" -> call.role = "admin" /\ call.user # Operator
    [] OTHER -> TRUE

CliAsks(call) ==
  /\ call.project # Default
  /\ call.op \in {"member.grant", "token.issue"} => call.user # Operator /\ call.role = "tester"

\* One token of a project expires, while nothing is under way.
Expires ==
  /\ Cardinality({ t \in Tokens : tokens'[t].expired }) <= 1
  /\ \A t \in Tokens : tokens'[t].expired # tokens[t].expired =>
       /\ tokens[t].project # Instance /\ ~tokens[t].revoked
       /\ \A s \in Processes : requests[s] = Idle

WithinBounds ==
  /\ \A s \in Servers : requests'[s] # Idle => ServerAsks(requests'[s].call)
  /\ \A c \in Clis : requests'[c] # Idle => CliAsks(requests'[c].call)
  /\ Expires

MCSpec == HistoryInit /\ [][HistoryNext /\ WithinBounds]_historyVars

View == << projects, archived, users, instanceAdmins, bindings, tokens, requests, overtaken >>

Perms == Permutations(Tokens)
=============================================================================
