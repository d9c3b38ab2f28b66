------------------------------- MODULE Access -------------------------------
(***************************************************************************)
(* Users, role bindings, tokens and projects of the results platform       *)
(* (qaplatform/service.py, auth/tokens.py, rbac.py, cli.py and the tables  *)
(* behind them), as the requests of several processes on one database.     *)
(*                                                                         *)
(* A server process serves one request at a time: it authenticates the     *)
(* token, passes the single scope check, and runs the handler's write      *)
(* transaction.  The first two read the database outside the transaction,  *)
(* so another process may commit between any two of the three.  The        *)
(* command line is such a process: it works on the same file as a local    *)
(* operator, without a token.  A transaction holds SQLite's write lock     *)
(* from BEGIN IMMEDIATE to COMMIT (module WriteTransaction), so here it is *)
(* one step.  A request may end at any point without a change: refused,    *)
(* failed, or its process gone.                                            *)
(*                                                                         *)
(* A definition named Faulty... is what a mistake in the code would make   *)
(* of the one below it; no action uses it.  The properties of the runs     *)
(* fail when it takes the other's place.                                   *)
(***************************************************************************)
EXTENDS AuditLog, FiniteSets

CONSTANTS
  Users,        \* every user id that may appear
  Operator,     \* the user id of the local operator, "local-operator"
  Projects,     \* every project key that may appear
  Default,      \* the project the first migration inserts
  Tokens,       \* the ids tokens are given when they are issued
  Servers,      \* server processes
  Clis,         \* command-line processes
  NoUser, NoToken, Instance, NoRole

ASSUME AccessAssumption ==
  /\ Operator \in Users /\ NoUser \notin Users
  /\ Default \in Projects /\ Instance \notin Projects
  /\ NoToken \notin Tokens
  /\ NoRole \notin {"viewer", "tester", "lead", "admin"}
  /\ Servers \cap Clis = {}

VARIABLES
  projects,         \* keys of the projects that exist
  archived,         \* those whose archived_at is set
  users,            \* rows of qap_users
  instanceAdmins,   \* those with is_instance_admin
  bindings,         \* qap_role_bindings: the role of a user in a project, or NoRole
  tokens,           \* qap_tokens
  audit,            \* qap_audit_log
  requests          \* what each process is doing

database == << projects, archived, users, instanceAdmins, bindings, tokens, audit >>
vars == << projects, archived, users, instanceAdmins, bindings, tokens, audit, requests >>

Processes == Servers \cup Clis

-----------------------------------------------------------------------------
\* Roles and permissions (rbac.py).

Roles == {"viewer", "tester", "lead", "admin"}
Rank == [viewer |-> 0, tester |-> 1, lead |-> 2, admin |-> 3]

\* lower: the weaker of two roles.
Lower(a, b) == IF Rank[b] < Rank[a] THEN b ELSE a

\* MATRIX, for the permissions the writes below need.
Permissions(role) ==
  {"read"}
    \cup (IF Rank[role] >= Rank.tester THEN {"push_results", "record_manual"} ELSE {})
    \cup (IF Rank[role] >= Rank.lead THEN {"trigger_run", "read_audit"} ELSE {})
    \cup (IF role = "admin" THEN {"manage_tokens", "manage_members", "manage_project"} ELSE {})

-----------------------------------------------------------------------------
\* Calls: a method of the service with its arguments.  "push" stands for every other
\* write of a project (runs, results, manual work), which leaves these tables alone.

GrantCalls   == [op : {"member.grant"}, project : Projects, user : Users, role : Roles]
RemoveCalls  == [op : {"member.revoke"}, project : Projects, user : Users]
IssueCalls   == [op : {"token.issue"}, project : Projects, user : Users, role : Roles]
RevokeCalls  == [op : {"token.revoke"}, project : Projects, token : Tokens]
UpdateCalls  == [op : {"project.update"}, project : Projects, archived : BOOLEAN]
CreateCalls  == [op : {"project.create"}, project : Projects]
PushCalls    == [op : {"push"}, project : Projects]
Calls == GrantCalls \cup RemoveCalls \cup IssueCalls \cup RevokeCalls \cup UpdateCalls
           \cup CreateCalls \cup PushCalls

PermissionOf(op) ==
  CASE op \in {"member.grant", "member.revoke"} -> "manage_members"
    [] op \in {"token.issue", "token.revoke"}   -> "manage_tokens"
    [] op = "project.update"                    -> "manage_project"
    [] OTHER                                    -> "push_results"

TokenRows == [project : Projects \cup {Instance}, user : Users, role : Roles,
              revoked : BOOLEAN, expired : BOOLEAN]
NotIssued == [project |-> Instance, user |-> NoUser, role |-> NoRole,
              revoked |-> FALSE, expired |-> FALSE]
Issued(t) == tokens[t] # NotIssued

Principals == [user : Users, token : Tokens \cup {NoToken}, role : Roles,
               project : Projects \cup {Instance}]

\* local_operator: the principal of the command line.
LocalOperator == [user |-> Operator, token |-> NoToken, role |-> "admin", project |-> Instance]

\* What a process is doing: nothing, or one call, authenticated or also past the scope
\* check.  The command line's `token create' is a grant followed by an issue (andIssue).
Idle == [phase |-> "idle"]
Active == [phase : {"authenticated", "checked"}, principal : Principals, call : Calls,
           andIssue : BOOLEAN]

TypeOK ==
  /\ projects \in SUBSET Projects
  /\ archived \in SUBSET Projects
  /\ users \in SUBSET Users
  /\ instanceAdmins \in SUBSET users
  /\ bindings \in [Projects -> [Users -> Roles \cup {NoRole}]]
  /\ tokens \in [Tokens -> TokenRows \cup {NotIssued}]
  /\ requests \in [Processes -> {Idle} \cup Active]

\* The database after the migrations: one project, no users.
Init ==
  /\ projects = {Default}
  /\ archived = {}
  /\ users = {}
  /\ instanceAdmins = {}
  /\ bindings = [p \in Projects |-> [u \in Users |-> NoRole]]
  /\ tokens = [t \in Tokens |-> NotIssued]
  /\ audit = << >>
  /\ requests = [s \in Processes |-> Idle]

-----------------------------------------------------------------------------
\* Authentication (auth/tokens.py), the scope check and the end of a request.

\* verify: the checks a token passes, in the current state of the database.
Verifies(t) ==
  /\ Issued(t) /\ ~tokens[t].revoked /\ ~tokens[t].expired
  /\ tokens[t].user \in users
  /\ IF tokens[t].project = Instance
     THEN tokens[t].user \in instanceAdmins
     ELSE bindings[tokens[t].project][tokens[t].user] # NoRole

EffectiveRole(t) ==
  IF tokens[t].project = Instance
  THEN tokens[t].role
  ELSE Lower(tokens[t].role, bindings[tokens[t].project][tokens[t].user])

FaultyPrincipalOf(t) == [user |-> tokens[t].user, token |-> t, role |-> tokens[t].role,
                         project |-> tokens[t].project]
PrincipalOf(t) == [user |-> tokens[t].user, token |-> t, role |-> EffectiveRole(t),
                   project |-> tokens[t].project]

Request(phase, principal, call, andIssue) ==
  [phase |-> phase, principal |-> principal, call |-> call, andIssue |-> andIssue]

\* handle: a server takes up a call made with token t.
Authenticate(s, t, call) ==
  /\ s \in Servers /\ requests[s] = Idle
  /\ Verifies(t)
  /\ requests' = [requests EXCEPT ![s] = Request("authenticated", PrincipalOf(t), call, FALSE)]
  /\ UNCHANGED database

\* cmd_token_create: grant first unless the user already has a role.
CliTokenCreate(c, p, u, r) ==
  /\ c \in Clis /\ requests[c] = Idle
  /\ LET issue == [op |-> "token.issue", project |-> p, user |-> u, role |-> r]
         grant == [op |-> "member.grant", project |-> p, user |-> u, role |-> r]
     IN  requests' = [requests EXCEPT ![c] =
                        IF bindings[p][u] = NoRole
                        THEN Request("authenticated", LocalOperator, grant, TRUE)
                        ELSE Request("authenticated", LocalOperator, issue, FALSE)]
  /\ UNCHANGED database

\* cmd_token_revoke of a project token that is active when it is looked up.
CliTokenRevoke(c, t) ==
  /\ c \in Clis /\ requests[c] = Idle
  /\ Issued(t) /\ ~tokens[t].revoked /\ tokens[t].project # Instance
  /\ requests' = [requests EXCEPT ![c] =
                    Request("authenticated", LocalOperator,
                            [op |-> "token.revoke", project |-> tokens[t].project, token |-> t],
                            FALSE)]
  /\ UNCHANGED database

\* cmd_project_create.
CliProjectCreate(c, p) ==
  /\ c \in Clis /\ requests[c] = Idle
  /\ requests' = [requests EXCEPT ![c] =
                    Request("authenticated", LocalOperator,
                            [op |-> "project.create", project |-> p], FALSE)]
  /\ UNCHANGED database

\* Whether the principal can see the call's project at all.
FaultyVisible(principal, call) == TRUE
Visible(principal, call) == principal.project \in {Instance, call.project}

\* Whether the project takes the call: an archived one only takes update_project.
FaultyWritable(call) == TRUE
Writable(call) == call.op = "project.update" \/ call.project \notin archived

\* _scope and the check for an archived project at the head of _write.
Scope(s) ==
  /\ requests[s] # Idle /\ requests[s].phase = "authenticated"
  /\ requests[s].call.op # "project.create"
  /\ LET principal == requests[s].principal
         call      == requests[s].call
     IN  /\ Visible(principal, call)
         /\ call.project \in projects
         /\ PermissionOf(call.op) \in Permissions(principal.role)
         /\ Writable(call)
  /\ requests' = [requests EXCEPT ![s].phase = "checked"]
  /\ UNCHANGED database

\* The checks create_project makes instead: an instance admin, and a key not in use.
ScopeCreate(s) ==
  /\ requests[s] # Idle /\ requests[s].phase = "authenticated"
  /\ requests[s].call.op = "project.create"
  /\ LET principal == requests[s].principal
     IN  /\ principal.project = Instance
         /\ principal.user \in instanceAdmins \/ principal.token = NoToken
  /\ requests[s].call.project \notin projects
  /\ requests' = [requests EXCEPT ![s].phase = "checked"]
  /\ UNCHANGED database

\* A check refuses the call, the transaction is rolled back, or the process is gone.
Abandon(s) ==
  /\ requests[s] # Idle
  /\ requests' = [requests EXCEPT ![s] = Idle]
  /\ UNCHANGED database

-----------------------------------------------------------------------------
\* The write transactions.

Checked(s, op) ==
  /\ requests[s] # Idle /\ requests[s].phase = "checked"
  /\ requests[s].call.op = op

\* The audit row _write appends in the transaction of the change it describes.
Audited(s) ==
  audit' = Record(audit, requests[s].call.project, requests[s].principal.user,
                  requests[s].principal.token, requests[s].call.op, requests[s].call)

Answer(s) == requests' = [requests EXCEPT ![s] = Idle]

Admins(p) == { u \in Users : bindings[p][u] = "admin" }

\* Whether u is the only admin of p.
FaultyOnlyAdmin(p, u) == FALSE
OnlyAdmin(p, u) == Admins(p) = {u}

\* grant_member.  The command line goes on to issue the token it was asked for.
GrantMember(s) ==
  /\ Checked(s, "member.grant")
  /\ LET call == requests[s].call
     IN  /\ ~(call.role # "admin" /\ OnlyAdmin(call.project, call.user))
         /\ users' = users \cup {call.user}
         /\ bindings' = [bindings EXCEPT ![call.project][call.user] = call.role]
         /\ Audited(s)
         /\ requests' = [requests EXCEPT ![s] =
                IF requests[s].andIssue
                THEN Request("authenticated", requests[s].principal,
                             [op |-> "token.issue", project |-> call.project,
                              user |-> call.user, role |-> call.role], FALSE)
                ELSE Idle]
  /\ UNCHANGED << projects, archived, instanceAdmins, tokens >>

\* revoke_tokens, of every token a user holds in a project.
FaultyRevokeTokensOf(p, u) == UNCHANGED tokens
RevokeTokensOf(p, u) ==
  tokens' = [t \in Tokens |-> IF tokens[t].project = p /\ tokens[t].user = u
                              THEN [tokens[t] EXCEPT !.revoked = TRUE]
                              ELSE tokens[t]]

\* remove_member: the binding and every active token of the user in the project.
RemoveMember(s) ==
  /\ Checked(s, "member.revoke")
  /\ LET call == requests[s].call
     IN  /\ bindings[call.project][call.user] # NoRole
         /\ ~OnlyAdmin(call.project, call.user)
         /\ bindings' = [bindings EXCEPT ![call.project][call.user] = NoRole]
         /\ RevokeTokensOf(call.project, call.user)
  /\ Audited(s) /\ Answer(s)
  /\ UNCHANGED << projects, archived, users, instanceAdmins >>

NewToken(t, p, u, r) ==
  tokens' = [tokens EXCEPT ![t] = [project |-> p, user |-> u, role |-> r,
                                   revoked |-> FALSE, expired |-> FALSE]]

\* issue_token: an active user with a role in the project, which the token may not exceed.
IssueToken(s, t) ==
  /\ Checked(s, "token.issue") /\ ~Issued(t)
  /\ LET call  == requests[s].call
         bound == bindings[call.project][call.user]
     IN  /\ call.user \in users
         /\ bound # NoRole
         /\ Lower(call.role, bound) = call.role
         /\ NewToken(t, call.project, call.user, call.role)
  /\ Audited(s) /\ Answer(s)
  /\ UNCHANGED << projects, archived, users, instanceAdmins, bindings >>

\* revoke_token: a token already revoked is left as it is, and nothing is audited.
RevokeToken(s) ==
  /\ Checked(s, "token.revoke")
  /\ LET call == requests[s].call
     IN  /\ Issued(call.token) /\ tokens[call.token].project = call.project
         /\ IF tokens[call.token].revoked
            THEN UNCHANGED << tokens, audit >>
            ELSE tokens' = [tokens EXCEPT ![call.token].revoked = TRUE] /\ Audited(s)
  /\ Answer(s)
  /\ UNCHANGED << projects, archived, users, instanceAdmins, bindings >>

\* update_project, of which only the archived flag is kept here.
UpdateProject(s) ==
  /\ Checked(s, "project.update")
  /\ LET call == requests[s].call
     IN  IF call.archived = (call.project \in archived)
         THEN UNCHANGED << archived, audit >>
         ELSE /\ archived' = IF call.archived THEN archived \cup {call.project}
                                              ELSE archived \ {call.project}
              /\ Audited(s)
  /\ Answer(s)
  /\ UNCHANGED << projects, users, instanceAdmins, bindings, tokens >>

\* create_project: the insertion fails on a key another process has taken meanwhile.
CreateProject(s) ==
  /\ Checked(s, "project.create")
  /\ LET p == requests[s].call.project
         u == requests[s].principal.user
     IN  /\ p \notin projects
         /\ projects' = projects \cup {p}
         /\ users' = users \cup {u}
         /\ bindings' = [bindings EXCEPT ![p][u] = "admin"]
  /\ Audited(s) /\ Answer(s)
  /\ UNCHANGED << archived, instanceAdmins, tokens >>

\* Every other write of a project: its own tables and one audit row.
Push(s) ==
  /\ Checked(s, "push")
  /\ Audited(s) /\ Answer(s)
  /\ UNCHANGED << projects, archived, users, instanceAdmins, bindings, tokens >>

\* Where no command line runs beside the server (Clis = {}), the operator's commands on
\* instance tokens are run between two requests; otherwise at any time.
OperatorRuns == Clis # {} \/ \A s \in Servers : requests[s] = Idle

\* cmd_init (bootstrap): an instance admin and an instance token, in two transactions
\* and without an audit row, since no project's chain is concerned.
BootstrapUser(u) ==
  /\ OperatorRuns
  /\ users' = users \cup {u}
  /\ instanceAdmins' = instanceAdmins \cup {u}
  /\ UNCHANGED << projects, archived, bindings, tokens, audit, requests >>

BootstrapToken(u, t) ==
  /\ OperatorRuns
  /\ u \in instanceAdmins /\ ~Issued(t)
  /\ NewToken(t, Instance, u, "admin")
  /\ UNCHANGED << projects, archived, users, instanceAdmins, bindings, audit, requests >>

\* cmd_token_revoke of an instance token, likewise without an audit row.
RevokeInstanceToken(t) ==
  /\ OperatorRuns
  /\ Issued(t) /\ tokens[t].project = Instance /\ ~tokens[t].revoked
  /\ tokens' = [tokens EXCEPT ![t].revoked = TRUE]
  /\ UNCHANGED << projects, archived, users, instanceAdmins, bindings, audit, requests >>

\* Time passes the expires_at of a token.
Expire(t) ==
  /\ Issued(t) /\ ~tokens[t].expired
  /\ tokens' = [tokens EXCEPT ![t].expired = TRUE]
  /\ UNCHANGED << projects, archived, users, instanceAdmins, bindings, audit, requests >>

-----------------------------------------------------------------------------
StartRequest ==
  \/ \E s \in Servers, t \in Tokens, call \in Calls : Authenticate(s, t, call)
  \/ \E c \in Clis, p \in Projects, u \in Users, r \in Roles : CliTokenCreate(c, p, u, r)
  \/ \E c \in Clis, t \in Tokens : CliTokenRevoke(c, t)
  \/ \E c \in Clis, p \in Projects : CliProjectCreate(c, p)

Transaction ==
  \E s \in Processes :
    \/ GrantMember(s)
    \/ RemoveMember(s)
    \/ \E t \in Tokens : IssueToken(s, t)
    \/ RevokeToken(s)
    \/ UpdateProject(s)
    \/ CreateProject(s)
    \/ Push(s)

Operate ==
  \/ \E u \in Users : BootstrapUser(u)
  \/ \E u \in Users, t \in Tokens : BootstrapToken(u, t)
  \/ \E t \in Tokens : RevokeInstanceToken(t)

Next ==
  \/ StartRequest
  \/ \E s \in Processes : Scope(s) \/ ScopeCreate(s) \/ Abandon(s)
  \/ Transaction
  \/ Operate
  \/ \E t \in Tokens : Expire(t)

Spec == Init /\ [][Next]_vars

-----------------------------------------------------------------------------
\* Safety.

\* Every project but the one the migration inserts has an admin, whatever its members,
\* several processes at once included: the guards of grant_member and remove_member read
\* the bindings inside the transaction that changes them.
CreatedProjectHasAdmin == \A p \in projects \ {Default} : Admins(p) # {}

\* A token that was not revoked still has an owner who may hold it: a member of its
\* project, or an instance admin.  remove_member revokes in the transaction that removes
\* the binding, and issue reads the binding in the one that inserts the token; were either
\* outside, granting the member again would bring an old token back to life.
ActiveTokenHasOwner ==
  \A t \in Tokens : Issued(t) /\ ~tokens[t].revoked =>
    /\ tokens[t].user \in users
    /\ IF tokens[t].project = Instance
       THEN tokens[t].user \in instanceAdmins
       ELSE bindings[tokens[t].project][tokens[t].user] # NoRole

\* A project that has an admin keeps one: no demotion or removal, and no other process's
\* grant, takes the last one away (platform_rbac.md, "Guard rails").
AdminsNeverVanish == [][\A p \in Projects : Admins(p) # {} => Admins(p)' # {}]_vars

\* The audit row a step appends.
Appended == Len(audit') > Len(audit)
NewestRow == audit'[Len(audit')]

\* A token of one project changes nothing of another: the rows it causes are in its
\* project's chain, and so are the bindings and tokens that change.
TokenStaysInProject ==
  [][Appended /\ NewestRow.token # NoToken /\ tokens[NewestRow.token].project # Instance =>
       LET own == tokens[NewestRow.token].project
       IN  /\ NewestRow.project = own
           /\ \A p \in Projects \ {own} : bindings'[p] = bindings[p]
           /\ \A t \in Tokens : tokens[t].project \notin {own, Instance} =>
                                   tokens'[t] = tokens[t]]_vars

=============================================================================
