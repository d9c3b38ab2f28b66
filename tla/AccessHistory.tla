---------------------------- MODULE AccessHistory ----------------------------
(***************************************************************************)
(* Access with a history variable, and the two promises that need it.  A   *)
(* request reads what its token may do when it is authenticated, and       *)
(* whether its project is archived in its scope check, and relies on both  *)
(* when it commits.  Another process on the database may change either in  *)
(* between; `overtaken' remembers the requests that has happened to.       *)
(***************************************************************************)
EXTENDS Access

VARIABLE overtaken  \* the processes during whose request another changed what it had read

historyVars == << vars, overtaken >>

\* What of a token its principal was made from, save the time it expires.
TokenRead(t) ==
  [row  |-> [tokens[t] EXCEPT !.expired = FALSE],
   role |-> IF tokens[t].project = Instance THEN NoRole
            ELSE bindings[tokens[t].project][tokens[t].user]]

\* What the request of s has read by now and still relies on.
HasRead(s) ==
  LET token == requests[s].principal.token IN
    << IF token = NoToken THEN << >> ELSE << TokenRead(token) >>,
       requests[s].phase = "checked" /\ requests[s].call.project \in archived >>

\* s has a request under way, in which this step is not its own.
Waits(s) == requests[s] # Idle /\ requests'[s] = requests[s]

HistoryInit == Init /\ overtaken = {}

HistoryNext ==
  /\ Next
  /\ overtaken' = { s \in Processes :
       requests'[s] # Idle /\ (s \in overtaken \/ (Waits(s) /\ HasRead(s)' # HasRead(s))) }

HistorySpec == HistoryInit /\ [][HistoryNext]_historyVars

-----------------------------------------------------------------------------
\* The process that acts is none of the overtaken ones.
Undisturbed == \A s \in overtaken : Waits(s)

\* Whether the owner of t may do what `op' needs with it (expiry aside).
MayStill(t, op) ==
  /\ ~tokens[t].revoked
  /\ tokens[t].user \in users
  /\ IF tokens[t].project = Instance
     THEN tokens[t].user \in instanceAdmins
     ELSE bindings[tokens[t].project][tokens[t].user] # NoRole
  /\ IF op = "project.create"
     THEN tokens[t].project = Instance
     ELSE PermissionOf(op) \in Permissions(EffectiveRole(t))

\* A change is committed only by a token whose owner may make it at that moment: lowering
\* or removing a member, or revoking the token, counts "at once" (platform_rbac.md:32-33) for
\* every request that begins afterwards, since the role is read when the request is
\* authenticated (routes.py:704) and only a request already under way can be overtaken.
AuthorityAtCommit ==
  [][Appended /\ Undisturbed /\ NewestRow.token # NoToken =>
       MayStill(NewestRow.token, NewestRow.action)]_historyVars

\* Nothing but update_project writes to an archived project (platform_tenancy.md:27-28),
\* save likewise a request that had passed its scope check before it was archived
\* (service.py:186).
ArchivedIsReadOnly ==
  [][Appended /\ Undisturbed /\ NewestRow.project \in archived =>
       NewestRow.action = "project.update"]_historyVars

=============================================================================
