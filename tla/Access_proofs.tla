--------------------------- MODULE Access_proofs ---------------------------
(***************************************************************************)
(* Proofs about Access and AccessHistory, for any number of users,         *)
(* projects, tokens, server processes and command lines.                   *)
(***************************************************************************)
EXTENDS AccessHistory, TLAPS

\* The arguments each kind of call carries.
LEMMA CallFields ==
  ASSUME NEW call \in Calls
  PROVE  /\ call.project \in Projects
         /\ call.op \in {"member.grant", "token.issue"} => call.user \in Users /\ call.role \in Roles
         /\ call.op = "member.revoke" => call.user \in Users
         /\ call.op = "token.revoke" => call.token \in Tokens
<1>1. CASE call \in GrantCalls
  BY <1>1 DEF GrantCalls
<1>2. CASE call \in RemoveCalls
  BY <1>2 DEF RemoveCalls
<1>3. CASE call \in IssueCalls
  BY <1>3 DEF IssueCalls
<1>4. CASE call \in RevokeCalls
  BY <1>4 DEF RevokeCalls
<1>5. CASE call \in UpdateCalls
  BY <1>5 DEF UpdateCalls
<1>6. CASE call \in CreateCalls
  BY <1>6 DEF CreateCalls
<1>7. CASE call \in PushCalls
  BY <1>7 DEF PushCalls
<1> QED
  BY <1>1, <1>2, <1>3, <1>4, <1>5, <1>6, <1>7 DEF Calls

\* A process that is not idle has a principal and a call.
LEMMA ActiveRequest ==
  ASSUME TypeOK, NEW s \in Processes, requests[s] # Idle
  PROVE  /\ requests[s] \in Active
         /\ requests[s].principal \in Principals
         /\ requests[s].call \in Calls
  BY DEF TypeOK, Active

\* The principal behind a token that verifies.
LEMMA PrincipalType ==
  ASSUME TypeOK, NEW t \in Tokens, Verifies(t)
  PROVE  PrincipalOf(t) \in Principals
<1>1. tokens[t] \in TokenRows
  BY DEF TypeOK, Verifies, Issued
<1>2. EffectiveRole(t) \in Roles
  BY <1>1 DEF TypeOK, Verifies, EffectiveRole, Lower, TokenRows
<1> QED
  BY <1>1, <1>2 DEF PrincipalOf, Principals, TokenRows

\* The steps that only move a request on keep the requests in their type.
LEMMA RequestType ==
  ASSUME TypeOK, NEW s \in Processes, NEW r \in Active \cup {Idle},
         requests' = [requests EXCEPT ![s] = r]
  PROVE  requests' \in [Processes -> {Idle} \cup Active]
  BY DEF TypeOK

\* Every action keeps every variable in its type.
LEMMA TypeStep == TypeOK /\ [Next]_vars => TypeOK'
<1> SUFFICES ASSUME TypeOK, [Next]_vars PROVE TypeOK'
  OBVIOUS
<1>0. Operator \in Users /\ NoRole \notin Roles
  BY AccessAssumption DEF Roles
<1>1. CASE UNCHANGED vars
  BY <1>1 DEF vars, TypeOK
<1>2. ASSUME NEW s \in Servers, NEW t \in Tokens, NEW call \in Calls, Authenticate(s, t, call)
      PROVE  TypeOK'
  <2>1. Request("authenticated", PrincipalOf(t), call, FALSE) \in Active
    BY <1>2, PrincipalType DEF Request, Active, Authenticate
  <2> QED
    BY <1>2, <2>1, RequestType DEF Authenticate, database, Processes, TypeOK
<1>3. ASSUME NEW s \in Clis, NEW call \in Calls, NEW b \in BOOLEAN, UNCHANGED database,
             requests' = [requests EXCEPT ![s] = Request("authenticated", LocalOperator, call, b)]
      PROVE  TypeOK'
  <2>1. Request("authenticated", LocalOperator, call, b) \in Active
    BY <1>0 DEF Request, Active, LocalOperator, Principals, Roles
  <2> QED
    BY <1>3, <2>1, RequestType DEF database, Processes, TypeOK
<1>4. ASSUME NEW c \in Clis, NEW p \in Projects, NEW u \in Users, NEW r \in Roles,
             CliTokenCreate(c, p, u, r)
      PROVE  TypeOK'
  <2> DEFINE grant == [op |-> "member.grant", project |-> p, user |-> u, role |-> r]
             issue == [op |-> "token.issue", project |-> p, user |-> u, role |-> r]
  <2>1. grant \in Calls /\ issue \in Calls
    BY DEF Calls, GrantCalls, IssueCalls
  <2>2. CASE bindings[p][u] = NoRole
    BY <1>4, <1>3, <2>1, <2>2 DEF CliTokenCreate
  <2>3. CASE bindings[p][u] # NoRole
    BY <1>4, <1>3, <2>1, <2>3 DEF CliTokenCreate
  <2> QED
    BY <2>2, <2>3
<1>5. ASSUME NEW c \in Clis, NEW t \in Tokens, CliTokenRevoke(c, t)
      PROVE  TypeOK'
  <2>1. [op |-> "token.revoke", project |-> tokens[t].project, token |-> t] \in Calls
    BY <1>5 DEF CliTokenRevoke, Issued, TypeOK, TokenRows, Calls, RevokeCalls
  <2> QED
    BY <1>5, <1>3, <2>1 DEF CliTokenRevoke
<1>6. ASSUME NEW c \in Clis, NEW p \in Projects, CliProjectCreate(c, p)
      PROVE  TypeOK'
  <2>1. [op |-> "project.create", project |-> p] \in Calls
    BY DEF Calls, CreateCalls
  <2> QED
    BY <1>6, <1>3, <2>1 DEF CliProjectCreate
<1>7. ASSUME NEW s \in Processes, Scope(s) \/ ScopeCreate(s)
      PROVE  TypeOK'
  <2>1. requests[s] \in Active
    BY <1>7, ActiveRequest DEF Scope, ScopeCreate
  <2>2. [requests[s] EXCEPT !.phase = "checked"] \in Active
    BY <2>1 DEF Active
  <2>3. requests' = [requests EXCEPT ![s] = [requests[s] EXCEPT !.phase = "checked"]]
    BY <1>7 DEF Scope, ScopeCreate
  <2> QED
    BY <1>7, <2>2, <2>3, RequestType DEF Scope, ScopeCreate, database, TypeOK
<1>8. ASSUME NEW s \in Processes, Abandon(s)
      PROVE  TypeOK'
  BY <1>8, RequestType DEF Abandon, database, TypeOK
<1>9. ASSUME NEW s \in Processes, GrantMember(s)
      PROVE  TypeOK'
  <2> DEFINE call == requests[s].call
             issue == [op |-> "token.issue", project |-> call.project,
                       user |-> call.user, role |-> call.role]
  <2>1. call \in Calls /\ requests[s].principal \in Principals
    BY <1>9, ActiveRequest DEF GrantMember, Checked
  <2>2. call.project \in Projects /\ call.user \in Users /\ call.role \in Roles
    BY <1>9, <2>1, CallFields DEF GrantMember, Checked
  <2>3. issue \in Calls
    BY <2>2 DEF Calls, IssueCalls
  <2>4. Request("authenticated", requests[s].principal, issue, FALSE) \in Active
    BY <2>1, <2>3 DEF Request, Active
  <2>5. requests' \in [Processes -> {Idle} \cup Active]
    BY <1>9, <2>4, RequestType DEF GrantMember
  <2>6. bindings' \in [Projects -> [Users -> Roles \cup {NoRole}]]
    BY <1>9, <2>2 DEF GrantMember, TypeOK
  <2>7. users' \in SUBSET Users /\ instanceAdmins' \in SUBSET users'
    BY <1>9, <2>2 DEF GrantMember, TypeOK
  <2> QED
    BY <1>9, <2>5, <2>6, <2>7 DEF GrantMember, TypeOK
<1>10. ASSUME NEW s \in Processes, RemoveMember(s)
       PROVE  TypeOK'
  <2> DEFINE call == requests[s].call
  <2>1. call.project \in Projects /\ call.user \in Users
    BY <1>10, ActiveRequest, CallFields DEF RemoveMember, Checked
  <2>2. bindings' \in [Projects -> [Users -> Roles \cup {NoRole}]]
    BY <1>10, <2>1 DEF RemoveMember, TypeOK
  <2>3. tokens' \in [Tokens -> TokenRows \cup {NotIssued}]
    <3>1. ASSUME NEW t \in Tokens, tokens[t].project = call.project
          PROVE  [tokens[t] EXCEPT !.revoked = TRUE] \in TokenRows
      <4>1. tokens[t] # NotIssued
        BY <3>1, <2>1, AccessAssumption DEF NotIssued
      <4>2. tokens[t] \in TokenRows
        BY <4>1 DEF TypeOK
      <4> QED
        BY <4>2 DEF TokenRows
    <3> QED
      BY <1>10, <3>1 DEF RemoveMember, RevokeTokensOf, TypeOK
  <2> QED
    BY <1>10, <2>2, <2>3, RequestType DEF RemoveMember, Answer, TypeOK
<1>11. ASSUME NEW t \in Tokens, NEW p \in Projects \cup {Instance}, NEW u \in Users,
              NEW r \in Roles, NewToken(t, p, u, r)
       PROVE  tokens' \in [Tokens -> TokenRows \cup {NotIssued}]
  BY <1>11 DEF NewToken, TypeOK, TokenRows
<1>12. ASSUME NEW s \in Processes, NEW t \in Tokens, IssueToken(s, t)
       PROVE  TypeOK'
  <2> DEFINE call == requests[s].call
  <2>1. call.project \in Projects /\ call.user \in Users /\ call.role \in Roles
    BY <1>12, ActiveRequest, CallFields DEF IssueToken, Checked
  <2>2. tokens' \in [Tokens -> TokenRows \cup {NotIssued}]
    BY <1>11, <1>12, <2>1 DEF IssueToken
  <2> QED
    BY <1>12, <2>2, RequestType DEF IssueToken, Answer, TypeOK
<1>13. ASSUME NEW t \in Tokens, Issued(t),
              \/ tokens' = [tokens EXCEPT ![t].revoked = TRUE]
              \/ tokens' = [tokens EXCEPT ![t].expired = TRUE]
       PROVE  tokens' \in [Tokens -> TokenRows \cup {NotIssued}]
  <2>1. tokens[t] \in TokenRows
    BY <1>13 DEF Issued, TypeOK
  <2>2. /\ [tokens[t] EXCEPT !.revoked = TRUE] \in TokenRows
        /\ [tokens[t] EXCEPT !.expired = TRUE] \in TokenRows
    BY <2>1 DEF TokenRows
  <2> QED
    BY <1>13, <2>2 DEF TypeOK
<1>14. ASSUME NEW s \in Processes, RevokeToken(s)
       PROVE  TypeOK'
  <2> DEFINE call == requests[s].call
  <2>1. call.token \in Tokens /\ Issued(call.token)
    BY <1>14, ActiveRequest, CallFields DEF RevokeToken, Checked
  <2>2. tokens' \in [Tokens -> TokenRows \cup {NotIssued}]
    BY <1>13, <1>14, <2>1 DEF RevokeToken, TypeOK
  <2> QED
    BY <1>14, <2>2, RequestType DEF RevokeToken, Answer, TypeOK
<1>15. ASSUME NEW s \in Processes, UpdateProject(s)
       PROVE  TypeOK'
  <2>1. requests[s].call.project \in Projects
    BY <1>15, ActiveRequest, CallFields DEF UpdateProject, Checked
  <2>2. archived' \in SUBSET Projects
    BY <1>15, <2>1 DEF UpdateProject, TypeOK
  <2> QED
    BY <1>15, <2>2, RequestType DEF UpdateProject, Answer, TypeOK
<1>16. ASSUME NEW s \in Processes, CreateProject(s)
       PROVE  TypeOK'
  <2> DEFINE p == requests[s].call.project
             u == requests[s].principal.user
  <2>1. p \in Projects /\ u \in Users
    BY <1>16, ActiveRequest, CallFields DEF CreateProject, Checked, Principals
  <2>2. bindings' \in [Projects -> [Users -> Roles \cup {NoRole}]]
    BY <1>16, <2>1 DEF CreateProject, TypeOK, Roles
  <2> QED
    BY <1>16, <2>1, <2>2, RequestType DEF CreateProject, Answer, TypeOK
<1>17. ASSUME NEW s \in Processes, Push(s)
       PROVE  TypeOK'
  BY <1>17, RequestType DEF Push, Answer, TypeOK
<1>18. ASSUME NEW u \in Users, BootstrapUser(u)
       PROVE  TypeOK'
  BY <1>18 DEF BootstrapUser, TypeOK
<1>19. ASSUME NEW u \in Users, NEW t \in Tokens, BootstrapToken(u, t)
       PROVE  TypeOK'
  <2>1. tokens' \in [Tokens -> TokenRows \cup {NotIssued}]
    BY <1>19, <1>11 DEF BootstrapToken, Roles
  <2> QED
    BY <1>19, <2>1 DEF BootstrapToken, TypeOK
<1>20. ASSUME NEW t \in Tokens, RevokeInstanceToken(t) \/ Expire(t)
       PROVE  TypeOK'
  <2>1. tokens' \in [Tokens -> TokenRows \cup {NotIssued}]
    BY <1>20, <1>13 DEF RevokeInstanceToken, Expire
  <2> QED
    BY <1>20, <2>1 DEF RevokeInstanceToken, Expire, TypeOK
<1> QED
  BY <1>1, <1>2, <1>4, <1>5, <1>6, <1>7, <1>8, <1>9, <1>10, <1>12, <1>14, <1>15, <1>16,
     <1>17, <1>18, <1>19, <1>20
  DEF Next, StartRequest, Transaction, Operate

\* The initial state is of the type.
LEMMA TypeInit == Init => TypeOK
  BY AccessAssumption DEF Init, TypeOK, Roles

\* Every variable of the platform's access tables, and every request in flight, has its
\* type in every reachable state.
THEOREM TypeCorrect == Spec => []TypeOK
  BY TypeInit, TypeStep, PTL DEF Spec

-----------------------------------------------------------------------------
\* The last admin.

\* A project that has an admin still has one after any step: the step that takes the role
\* of an admin away is a grant or a removal, and both refuse if he is the only one.
LEMMA AdminStep ==
  ASSUME TypeOK, [Next]_vars, NEW p \in Projects, Admins(p) # {}
  PROVE  Admins(p)' # {}
<1>1. CASE bindings' = bindings
  BY <1>1 DEF Admins
<1>2. ASSUME NEW s \in Processes, GrantMember(s)
      PROVE  Admins(p)' # {}
  <2> DEFINE call == requests[s].call
  <2>1. call.project \in Projects /\ call.user \in Users /\ call.role \in Roles
    BY <1>2, ActiveRequest, CallFields DEF GrantMember, Checked
  <2>2. PICK a \in Users : bindings[p][a] = "admin"
                           /\ (a = call.user /\ p = call.project => call.role = "admin")
    BY <1>2, <2>1 DEF GrantMember, OnlyAdmin, Admins
  <2>3. bindings'[p][a] = "admin"
    BY <1>2, <2>1, <2>2 DEF GrantMember, TypeOK
  <2> QED
    BY <2>3 DEF Admins
<1>3. ASSUME NEW s \in Processes, RemoveMember(s)
      PROVE  Admins(p)' # {}
  <2> DEFINE call == requests[s].call
  <2>1. call.project \in Projects /\ call.user \in Users
    BY <1>3, ActiveRequest, CallFields DEF RemoveMember, Checked
  <2>2. PICK a \in Users : bindings[p][a] = "admin" /\ ~(a = call.user /\ p = call.project)
    BY <1>3, <2>1 DEF RemoveMember, OnlyAdmin, Admins
  <2>3. bindings'[p][a] = "admin"
    BY <1>3, <2>1, <2>2 DEF RemoveMember, TypeOK
  <2> QED
    BY <2>3 DEF Admins
<1>4. ASSUME NEW s \in Processes, CreateProject(s)
      PROVE  Admins(p)' # {}
  <2>1. requests[s].call.project \in Projects /\ requests[s].principal.user \in Users
    BY <1>4, ActiveRequest, CallFields DEF CreateProject, Checked, Principals
  <2>2. PICK a \in Users : bindings[p][a] = "admin"
    BY DEF Admins
  <2>3. bindings'[p][a] = "admin"
    BY <1>4, <2>1, <2>2 DEF CreateProject, TypeOK
  <2> QED
    BY <2>3 DEF Admins
<1> QED
  BY <1>1, <1>2, <1>3, <1>4
  DEF Next, StartRequest, Transaction, Operate, vars, database, Authenticate, CliTokenCreate,
      CliTokenRevoke, CliProjectCreate, Scope, ScopeCreate, Abandon, IssueToken, RevokeToken,
      UpdateProject, Push, BootstrapUser, BootstrapToken, RevokeInstanceToken, Expire

\* A created project has its creator as admin, and keeps an admin ever after.
LEMMA CreatedStep ==
  ASSUME TypeOK, CreatedProjectHasAdmin, [Next]_vars
  PROVE  CreatedProjectHasAdmin'
<1> SUFFICES ASSUME NEW p \in projects' \ {Default} PROVE Admins(p)' # {}
  BY DEF CreatedProjectHasAdmin, Admins
<1>1. CASE p \in projects
  BY <1>1, AdminStep DEF CreatedProjectHasAdmin, TypeOK
<1>2. CASE p \notin projects
  <2>1. PICK s \in Processes : CreateProject(s)
    BY <1>2
    DEF Next, StartRequest, Transaction, Operate, vars, database, Authenticate,
        CliTokenCreate, CliTokenRevoke, CliProjectCreate, Scope, ScopeCreate, Abandon,
        GrantMember, RemoveMember, IssueToken, RevokeToken, UpdateProject, Push,
        BootstrapUser, BootstrapToken, RevokeInstanceToken, Expire
  <2>2. p = requests[s].call.project
    BY <1>2, <2>1 DEF CreateProject
  <2>3. p \in Projects /\ requests[s].principal.user \in Users
    BY <2>1, <2>2, ActiveRequest, CallFields DEF CreateProject, Checked, Principals
  <2>4. bindings'[p][requests[s].principal.user] = "admin"
    BY <2>1, <2>2, <2>3 DEF CreateProject, TypeOK
  <2> QED
    BY <2>3, <2>4 DEF Admins
<1> QED
  BY <1>1, <1>2

\* Every project created through the service has an admin in every reachable state, with
\* any number of servers and command lines on the database.
THEOREM CreatedProjectKeepsAdmin == Spec => []CreatedProjectHasAdmin
<1>1. Init => CreatedProjectHasAdmin
  BY DEF Init, CreatedProjectHasAdmin
<1>2. TypeOK /\ CreatedProjectHasAdmin /\ [Next]_vars => CreatedProjectHasAdmin'
  BY CreatedStep
<1> QED
  BY <1>1, <1>2, TypeCorrect, PTL DEF Spec

\* No step takes a project's last admin away.
THEOREM LastAdminStays == Spec => AdminsNeverVanish
<1>1. TypeOK /\ [Next]_vars => [\A p \in Projects : Admins(p) # {} => Admins(p)' # {}]_vars
  BY AdminStep
<1> QED
  BY <1>1, TypeCorrect, PTL DEF Spec, AdminsNeverVanish

-----------------------------------------------------------------------------
\* Tokens and their owners.

\* A token the step leaves alone keeps its owner, if the step only adds users, instance
\* admins and bindings.
LEMMA OwnerStays ==
  ASSUME ActiveTokenHasOwner, TypeOK,
         users \subseteq users', instanceAdmins \subseteq instanceAdmins',
         \A p \in Projects, u \in Users : bindings[p][u] # NoRole => bindings'[p][u] # NoRole,
         NEW t \in Tokens, Issued(t)', ~tokens'[t].revoked,
         tokens[t] # NotIssued, ~tokens[t].revoked,
         tokens'[t].user = tokens[t].user, tokens'[t].project = tokens[t].project
  PROVE  /\ tokens'[t].user \in users'
         /\ IF tokens'[t].project = Instance
            THEN tokens'[t].user \in instanceAdmins'
            ELSE bindings'[tokens'[t].project][tokens'[t].user] # NoRole
<1>1. tokens[t].user \in Users /\ tokens[t].project \in Projects \cup {Instance}
  BY DEF TypeOK, TokenRows
<1> QED
  BY <1>1 DEF ActiveTokenHasOwner, Issued

\* Issuing reads the owner's binding, and removing a member revokes his tokens, in the
\* transaction itself; no other step lowers what an active token rests on.
LEMMA OwnerStep ==
  ASSUME TypeOK, ActiveTokenHasOwner, [Next]_vars
  PROVE  ActiveTokenHasOwner'
<1> DEFINE Owned(t) == /\ tokens'[t].user \in users'
                      /\ IF tokens'[t].project = Instance
                         THEN tokens'[t].user \in instanceAdmins'
                         ELSE bindings'[tokens'[t].project][tokens'[t].user] # NoRole
<1> SUFFICES ASSUME NEW t \in Tokens, Issued(t)', ~tokens'[t].revoked PROVE Owned(t)
  BY DEF ActiveTokenHasOwner, Issued
<1>0. NoRole \notin Roles
  BY AccessAssumption DEF Roles
<1>1. CASE UNCHANGED << users, instanceAdmins, bindings, tokens >>
  BY <1>1, OwnerStays DEF Issued
<1>2. ASSUME NEW s \in Processes, GrantMember(s)
      PROVE  Owned(t)
  <2>1. /\ requests[s].call.project \in Projects /\ requests[s].call.user \in Users
        /\ requests[s].call.role \in Roles
    BY <1>2, ActiveRequest, CallFields DEF GrantMember, Checked
  <2>2. \A p \in Projects, u \in Users : bindings[p][u] # NoRole => bindings'[p][u] # NoRole
    BY <1>0, <1>2, <2>1 DEF GrantMember, TypeOK
  <2> QED
    BY <1>2, <2>2, OwnerStays DEF GrantMember, Issued
<1>3. ASSUME NEW s \in Processes, RemoveMember(s)
      PROVE  Owned(t)
  <2> DEFINE call == requests[s].call
  <2>1. call.project \in Projects /\ call.user \in Users
    BY <1>3, ActiveRequest, CallFields DEF RemoveMember, Checked
  <2>2. tokens'[t] = IF tokens[t].project = call.project /\ tokens[t].user = call.user
                     THEN [tokens[t] EXCEPT !.revoked = TRUE] ELSE tokens[t]
    BY <1>3 DEF RemoveMember, RevokeTokensOf
  <2>3. tokens[t] # NotIssued
    BY <2>1, <2>2, AccessAssumption DEF Issued, NotIssued
  <2>4. tokens[t] \in TokenRows
    BY <2>3 DEF TypeOK
  <2>5. ~(tokens[t].project = call.project /\ tokens[t].user = call.user)
    BY <2>2, <2>4 DEF TokenRows
  <2>6. tokens'[t] = tokens[t]
    BY <2>2, <2>5
  <2>7. tokens[t].project \in Projects =>
          bindings'[tokens[t].project][tokens[t].user] = bindings[tokens[t].project][tokens[t].user]
    BY <1>3, <2>1, <2>4, <2>5 DEF RemoveMember, TypeOK, TokenRows
  <2> QED
    BY <1>3, <2>3, <2>4, <2>6, <2>7 DEF ActiveTokenHasOwner, Issued, RemoveMember, TokenRows
<1>4. ASSUME NEW s \in Processes, NEW n \in Tokens, IssueToken(s, n)
      PROVE  Owned(t)
  <2> DEFINE call == requests[s].call
  <2>1. call.project \in Projects /\ call.project # Instance /\ call.user \in Users
    BY <1>4, ActiveRequest, CallFields, AccessAssumption DEF IssueToken, Checked
  <2>2. CASE t = n
    <3>1. /\ tokens'[t].project = call.project /\ tokens'[t].user = call.user
      BY <1>4, <2>2 DEF IssueToken, NewToken, TypeOK
    <3> QED
      BY <1>4, <2>1, <3>1 DEF IssueToken
  <2>3. CASE t # n
    <3>1. tokens'[t] = tokens[t]
      BY <1>4, <2>3 DEF IssueToken, NewToken, TypeOK
    <3> QED
      BY <1>4, <3>1, OwnerStays DEF IssueToken, Issued
  <2> QED
    BY <2>2, <2>3
<1>5. ASSUME NEW n \in Tokens, Issued(n),
             \/ tokens' = [tokens EXCEPT ![n].revoked = TRUE]
             \/ tokens' = [tokens EXCEPT ![n].expired = TRUE],
             UNCHANGED << users, instanceAdmins, bindings >>
      PROVE  Owned(t)
  <2>1. tokens[n] \in TokenRows
    BY <1>5 DEF Issued, TypeOK
  <2>2. CASE t = n
    <3>1. /\ tokens'[t].user = tokens[t].user /\ tokens'[t].project = tokens[t].project
          /\ ~tokens[t].revoked
      BY <1>5, <2>1, <2>2 DEF TypeOK, TokenRows
    <3> QED
      BY <1>5, <2>2, <3>1, OwnerStays DEF Issued
  <2>3. CASE t # n
    <3>1. tokens'[t] = tokens[t]
      BY <1>5, <2>3 DEF TypeOK
    <3> QED
      BY <1>5, <3>1, OwnerStays DEF Issued
  <2> QED
    BY <2>2, <2>3
<1>6. ASSUME NEW s \in Processes, RevokeToken(s)
      PROVE  Owned(t)
  <2>1. requests[s].call.token \in Tokens /\ Issued(requests[s].call.token)
    BY <1>6, ActiveRequest, CallFields DEF RevokeToken, Checked
  <2> QED
    BY <1>1, <1>5, <1>6, <2>1 DEF RevokeToken
<1>7. ASSUME NEW s \in Processes, CreateProject(s)
      PROVE  Owned(t)
  <2>1. requests[s].call.project \in Projects /\ requests[s].principal.user \in Users
    BY <1>7, ActiveRequest, CallFields DEF CreateProject, Checked, Principals
  <2>2. \A p \in Projects, u \in Users : bindings[p][u] # NoRole => bindings'[p][u] # NoRole
    BY <1>0, <1>7, <2>1 DEF CreateProject, TypeOK, Roles
  <2> QED
    BY <1>7, <2>2, OwnerStays DEF CreateProject, Issued
<1>8. ASSUME NEW u \in Users, BootstrapUser(u)
      PROVE  Owned(t)
  BY <1>8, OwnerStays DEF BootstrapUser, Issued
<1>9. ASSUME NEW u \in Users, NEW n \in Tokens, BootstrapToken(u, n)
      PROVE  Owned(t)
  <2>1. CASE t = n
    <3>1. tokens'[t].project = Instance /\ tokens'[t].user = u
      BY <1>9, <2>1 DEF BootstrapToken, NewToken, TypeOK
    <3> QED
      BY <1>9, <3>1 DEF BootstrapToken, TypeOK
  <2>2. CASE t # n
    <3>1. tokens'[t] = tokens[t]
      BY <1>9, <2>2 DEF BootstrapToken, NewToken, TypeOK
    <3> QED
      BY <1>9, <3>1, OwnerStays DEF BootstrapToken, Issued
  <2> QED
    BY <2>1, <2>2
<1>10. ASSUME NEW n \in Tokens, RevokeInstanceToken(n) \/ Expire(n)
       PROVE  Owned(t)
  BY <1>5, <1>10 DEF RevokeInstanceToken, Expire
<1> QED
  BY <1>1, <1>2, <1>3, <1>4, <1>6, <1>7, <1>8, <1>9, <1>10
  DEF Next, StartRequest, Transaction, Operate, vars, database, Authenticate, CliTokenCreate,
      CliTokenRevoke, CliProjectCreate, Scope, ScopeCreate, Abandon, UpdateProject, Push

\* In every reachable state the owner of an active token is a member of its project, or an
\* instance admin if it is an instance token: no removed member has a token left that a
\* later grant could bring back to life.
THEOREM ActiveTokenIsOwned == Spec => []ActiveTokenHasOwner
<1>1. Init => ActiveTokenHasOwner
  BY DEF Init, ActiveTokenHasOwner, Issued
<1>2. TypeOK /\ ActiveTokenHasOwner /\ [Next]_vars => ActiveTokenHasOwner'
  BY OwnerStep
<1> QED
  BY <1>1, <1>2, TypeCorrect, PTL DEF Spec

-----------------------------------------------------------------------------
\* Tokens and the project they are bound to.

\* What a request in flight can rely on, whatever the other processes have committed since:
\* its token was issued for the project its principal names, and once it is past the scope
\* check its call is in a project that principal can see.
InFlight(s) ==
  LET principal == requests[s].principal
  IN  /\ principal.token # NoToken =>
           Issued(principal.token) /\ tokens[principal.token].project = principal.project
      /\ requests[s].phase = "checked" => Visible(principal, requests[s].call)
RequestsInFlight == \A s \in Processes : requests[s] # Idle => InFlight(s)

\* The audit log is a sequence of rows.
LogIsSequence == \E S : audit \in Seq(S)

\* The project of a token is fixed when it is issued.
LEMMA TokenProjectStays ==
  ASSUME TypeOK, [Next]_vars, NEW t \in Tokens, Issued(t)
  PROVE  Issued(t)' /\ tokens'[t].project = tokens[t].project
<1>0. tokens[t] \in TokenRows /\ NotIssued.user \notin Users
  BY AccessAssumption DEF TypeOK, Issued, NotIssued
<1>1. ASSUME tokens'[t] \in { tokens[t], [tokens[t] EXCEPT !.revoked = TRUE],
                              [tokens[t] EXCEPT !.expired = TRUE] }
      PROVE  Issued(t)' /\ tokens'[t].project = tokens[t].project
  <2>1. tokens'[t].user = tokens[t].user /\ tokens'[t].project = tokens[t].project
    BY <1>0, <1>1 DEF TokenRows
  <2>2. tokens[t].user \in Users
    BY <1>0 DEF TokenRows
  <2> QED
    BY <1>0, <2>1, <2>2 DEF Issued
<1>2. CASE UNCHANGED tokens
  BY <1>1, <1>2
<1>3. ASSUME NEW s \in Processes, RemoveMember(s)
      PROVE  tokens'[t] \in { tokens[t], [tokens[t] EXCEPT !.revoked = TRUE] }
  BY <1>3 DEF RemoveMember, RevokeTokensOf
<1>4. ASSUME NEW n \in Tokens, ~Issued(n), NEW p, NEW u, NEW r, NewToken(n, p, u, r)
      PROVE  tokens'[t] = tokens[t]
  BY <1>4 DEF NewToken, TypeOK
<1>5. ASSUME NEW n, \/ tokens' = [tokens EXCEPT ![n].revoked = TRUE]
                    \/ tokens' = [tokens EXCEPT ![n].expired = TRUE]
      PROVE  tokens'[t] \in { tokens[t], [tokens[t] EXCEPT !.revoked = TRUE],
                              [tokens[t] EXCEPT !.expired = TRUE] }
  BY <1>5 DEF TypeOK
<1>6. ASSUME NEW s \in Processes, NEW n \in Tokens, IssueToken(s, n)
      PROVE  tokens'[t] = tokens[t]
  BY <1>4, <1>6 DEF IssueToken
<1>7. ASSUME NEW u \in Users, NEW n \in Tokens, BootstrapToken(u, n)
      PROVE  tokens'[t] = tokens[t]
  BY <1>4, <1>7 DEF BootstrapToken
<1>8. ASSUME NEW s \in Processes, RevokeToken(s)
      PROVE  tokens'[t] \in { tokens[t], [tokens[t] EXCEPT !.revoked = TRUE],
                              [tokens[t] EXCEPT !.expired = TRUE] }
  BY <1>5, <1>8 DEF RevokeToken
<1>9. ASSUME NEW n \in Tokens, RevokeInstanceToken(n) \/ Expire(n)
      PROVE  tokens'[t] \in { tokens[t], [tokens[t] EXCEPT !.revoked = TRUE],
                              [tokens[t] EXCEPT !.expired = TRUE] }
  BY <1>5, <1>9 DEF RevokeInstanceToken, Expire
<1>10. CASE StartRequest \/ \E s \in Processes : Scope(s) \/ ScopeCreate(s) \/ Abandon(s)
  BY <1>2, <1>10
  DEF StartRequest, database, Authenticate, CliTokenCreate, CliTokenRevoke, CliProjectCreate,
      Scope, ScopeCreate, Abandon
<1>11. CASE Transaction
  BY <1>1, <1>2, <1>3, <1>6, <1>8, <1>11
  DEF Transaction, GrantMember, UpdateProject, CreateProject, Push
<1>12. CASE Operate
  BY <1>1, <1>2, <1>7, <1>9, <1>12 DEF Operate, BootstrapUser
<1>13. CASE UNCHANGED vars
  BY <1>2, <1>13 DEF vars
<1> QED
  BY <1>1, <1>9, <1>10, <1>11, <1>12, <1>13 DEF Next

\* What a request in flight relies on stays true as it moves on and others commit.
LEMMA InFlightStep ==
  ASSUME TypeOK, RequestsInFlight, [Next]_vars
  PROVE  RequestsInFlight'
<1> SUFFICES ASSUME NEW s \in Processes, requests'[s] # Idle PROVE InFlight(s)'
  BY DEF RequestsInFlight, InFlight
<1> DEFINE SamePrincipal(q) == requests[q] # Idle /\ requests'[q].principal = requests[q].principal
           Authenticated(q) == requests'[q].phase = "authenticated"
<1>0. NoToken \notin Tokens /\ LocalOperator.token = NoToken
  BY AccessAssumption DEF LocalOperator
<1>1. ASSUME requests[s] # Idle, requests'[s].principal = requests[s].principal,
             \/ requests'[s].phase = "authenticated"
             \/ requests'[s].phase = requests[s].phase /\ requests'[s].call = requests[s].call
             \/ Visible(requests[s].principal, requests[s].call) /\ requests'[s].call = requests[s].call
      PROVE  InFlight(s)'
  <2> DEFINE t == requests[s].principal.token
  <2>1. t \in Tokens \cup {NoToken}
    BY <1>1, ActiveRequest DEF Principals
  <2>2. t # NoToken => Issued(t)' /\ tokens'[t].project = requests[s].principal.project
    BY <1>1, <2>1, TokenProjectStays DEF RequestsInFlight, InFlight
  <2>3. requests'[s].phase = "checked" => Visible(requests'[s].principal, requests'[s].call)
    BY <1>1 DEF RequestsInFlight, InFlight
  <2> QED
    BY <1>1, <2>2, <2>3 DEF InFlight, Issued, Visible
<1>2. CASE requests'[s] = requests[s]
  BY <1>1, <1>2
<1>3. ASSUME NEW q \in Processes, NEW r, requests' = [requests EXCEPT ![q] = r]
      PROVE  IF q = s THEN requests'[s] = r ELSE requests'[s] = requests[s]
  BY <1>3 DEF TypeOK
<1>4. ASSUME NEW q \in Servers, NEW t \in Tokens, NEW call \in Calls, Authenticate(q, t, call)
      PROVE  InFlight(s)'
  <2>1. CASE q = s
    <3>1. requests'[s] = Request("authenticated", PrincipalOf(t), call, FALSE)
      BY <1>3, <1>4, <2>1 DEF Authenticate, Processes
    <3>2. requests'[s].principal.token = t /\ requests'[s].principal.project = tokens[t].project
      BY <3>1 DEF Request, PrincipalOf
    <3>3. requests'[s].phase = "authenticated"
      BY <3>1 DEF Request
    <3>4. Issued(t)' /\ tokens'[t].project = tokens[t].project
      BY <1>4, TokenProjectStays DEF Authenticate, Verifies
    <3> QED
      BY <3>2, <3>3, <3>4 DEF InFlight, Issued
  <2>2. CASE q # s
    BY <1>2, <1>3, <1>4, <2>2 DEF Authenticate, Processes
  <2> QED
    BY <2>1, <2>2
<1>5. ASSUME NEW c \in Clis, NEW call, NEW b,
             requests' = [requests EXCEPT ![c] = Request("authenticated", LocalOperator, call, b)]
      PROVE  InFlight(s)'
  <2>1. CASE c = s
    <3>1. requests'[s] = Request("authenticated", LocalOperator, call, b)
      BY <1>3, <1>5, <2>1 DEF Processes
    <3>2. requests'[s].principal.token = NoToken /\ requests'[s].phase = "authenticated"
      BY <1>0, <3>1 DEF Request
    <3> QED
      BY <3>2 DEF InFlight
  <2>2. CASE c # s
    BY <1>2, <1>3, <1>5, <2>2 DEF Processes
  <2> QED
    BY <2>1, <2>2
<1>6. ASSUME NEW c \in Clis, NEW p \in Projects, NEW u \in Users, NEW r \in Roles,
             CliTokenCreate(c, p, u, r)
      PROVE  InFlight(s)'
  <2>1. CASE bindings[p][u] = NoRole
    BY <1>5, <1>6, <2>1 DEF CliTokenCreate
  <2>2. CASE bindings[p][u] # NoRole
    BY <1>5, <1>6, <2>2 DEF CliTokenCreate
  <2> QED
    BY <2>1, <2>2
<1>7. ASSUME NEW q \in Processes, Scope(q) \/ ScopeCreate(q)
      PROVE  InFlight(s)'
  <2>1. CASE q = s
    <3>1. requests[s] \in Active
      BY <1>7, <2>1, ActiveRequest DEF Scope, ScopeCreate
    <3>2. requests'[s] = [requests[s] EXCEPT !.phase = "checked"]
      BY <1>7, <2>1 DEF Scope, ScopeCreate, TypeOK
    <3>3. /\ requests'[s].principal = requests[s].principal
          /\ requests'[s].call = requests[s].call
      BY <3>1, <3>2 DEF Active
    <3>4. Visible(requests[s].principal, requests[s].call)
      BY <1>7, <2>1 DEF Scope, ScopeCreate, Visible
    <3> QED
      BY <1>1, <1>7, <2>1, <3>3, <3>4 DEF Scope, ScopeCreate
  <2>2. CASE q # s
    BY <1>2, <1>7, <2>2 DEF Scope, ScopeCreate, TypeOK
  <2> QED
    BY <2>1, <2>2
<1>8. ASSUME NEW q \in Processes, GrantMember(q)
      PROVE  InFlight(s)'
  <2>1. CASE q = s
    <3>1. \E call : requests'[s] = Request("authenticated", requests[s].principal, call, FALSE)
      BY <1>8, <2>1 DEF GrantMember, TypeOK
    <3>2. /\ requests'[s].principal = requests[s].principal
          /\ requests'[s].phase = "authenticated"
      BY <3>1 DEF Request
    <3> QED
      BY <1>1, <1>8, <2>1, <3>2 DEF GrantMember, Checked
  <2>2. CASE q # s
    <3>1. \E r : requests' = [requests EXCEPT ![q] = r]
      BY <1>8, Zenon DEF GrantMember
    <3> QED
      BY <1>2, <1>3, <2>2, <3>1
  <2> QED
    BY <2>1, <2>2
<1>9. ASSUME NEW q \in Processes, requests' = [requests EXCEPT ![q] = Idle]
      PROVE  InFlight(s)'
  BY <1>2, <1>3, <1>9
<1>10. CASE StartRequest
  <2>1. ASSUME NEW c \in Clis, NEW t \in Tokens, CliTokenRevoke(c, t)
        PROVE  InFlight(s)'
    BY <1>5, <2>1 DEF CliTokenRevoke
  <2>2. ASSUME NEW c \in Clis, NEW p \in Projects, CliProjectCreate(c, p)
        PROVE  InFlight(s)'
    BY <1>5, <2>2 DEF CliProjectCreate
  <2> QED
    BY <1>4, <1>6, <1>10, <2>1, <2>2 DEF StartRequest
<1>11. CASE \E q \in Processes : Scope(q) \/ ScopeCreate(q) \/ Abandon(q)
  <2>1. ASSUME NEW q \in Processes, Abandon(q)
        PROVE  InFlight(s)'
    BY <1>9, <2>1 DEF Abandon
  <2> QED
    BY <1>7, <1>11, <2>1
<1>12. CASE Transaction
  <2>1. ASSUME NEW q \in Processes,
               \/ RemoveMember(q) \/ \E t \in Tokens : IssueToken(q, t)
               \/ RevokeToken(q) \/ UpdateProject(q) \/ CreateProject(q) \/ Push(q)
        PROVE  InFlight(s)'
    <3>1. Answer(q)
      BY <2>1, Zenon
      DEF RemoveMember, IssueToken, RevokeToken, UpdateProject, CreateProject, Push
    <3> QED
      BY <1>9, <3>1 DEF Answer
  <2> QED
    BY <1>8, <1>12, <2>1 DEF Transaction
<1>13. CASE \/ UNCHANGED vars \/ Operate \/ \E t \in Tokens : Expire(t)
  BY <1>2, <1>13
  DEF vars, Operate, BootstrapUser, BootstrapToken, RevokeInstanceToken, Expire
<1> QED
  BY <1>10, <1>11, <1>12, <1>13 DEF Next

\* Only a transaction of a request writes to the audit log.
LEMMA AuditedByTransaction ==
  ASSUME [Next]_vars, ~Transaction
  PROVE  UNCHANGED audit
<1>1. CASE StartRequest \/ \E s \in Processes : Scope(s) \/ ScopeCreate(s) \/ Abandon(s)
  <2>1. UNCHANGED database
    BY <1>1, Zenon
    DEF StartRequest, Authenticate, CliTokenCreate, CliTokenRevoke, CliProjectCreate,
        Scope, ScopeCreate, Abandon
  <2> QED
    BY <2>1 DEF database
<1>2. CASE \/ UNCHANGED vars \/ Operate \/ \E t \in Tokens : Expire(t)
  BY <1>2 DEF vars, Operate, BootstrapUser, BootstrapToken, RevokeInstanceToken, Expire
<1> QED
  BY <1>1, <1>2 DEF Next

\* A transaction past the scope check appends the row of its call, or none.
LEMMA AuditedTransaction ==
  ASSUME Transaction
  PROVE  \E s \in Processes :
           /\ \/ GrantMember(s) \/ RemoveMember(s)
              \/ \E t \in Tokens : IssueToken(s, t)
              \/ RevokeToken(s) \/ UpdateProject(s) \/ CreateProject(s) \/ Push(s)
           /\ requests[s] # Idle /\ requests[s].phase = "checked"
           /\ Audited(s) \/ UNCHANGED audit
<1>1. PICK s \in Processes :
         \/ GrantMember(s) \/ RemoveMember(s) \/ \E t \in Tokens : IssueToken(s, t)
         \/ RevokeToken(s) \/ UpdateProject(s) \/ CreateProject(s) \/ Push(s)
  BY DEF Transaction
<1>2. requests[s] # Idle /\ requests[s].phase = "checked"
  BY <1>1, Zenon
  DEF GrantMember, RemoveMember, IssueToken, RevokeToken, UpdateProject, CreateProject, Push,
      Checked
<1>3. CASE \/ GrantMember(s) \/ RemoveMember(s) \/ \E t \in Tokens : IssueToken(s, t)
           \/ CreateProject(s) \/ Push(s)
  <2>1. Audited(s)
    BY <1>3, Zenon DEF GrantMember, RemoveMember, IssueToken, CreateProject, Push
  <2> QED
    BY <1>1, <1>2, <2>1
<1>4. CASE RevokeToken(s) \/ UpdateProject(s)
  <2>1. Audited(s) \/ UNCHANGED audit
    BY <1>4 DEF RevokeToken, UpdateProject
  <2> QED
    BY <1>1, <1>2, <2>1
<1> QED
  BY <1>1, <1>3, <1>4

\* The log stays a sequence: a step appends one row to it or leaves it alone.
LEMMA LogStep ==
  ASSUME LogIsSequence, [Next]_vars
  PROVE  LogIsSequence'
<1>1. PICK S : audit \in Seq(S)
  BY DEF LogIsSequence
<1>2. CASE UNCHANGED audit
  BY <1>1, <1>2 DEF LogIsSequence
<1>3. ASSUME NEW row, audit' = Append(audit, row)
      PROVE  LogIsSequence'
  <2>1. audit \in Seq(S \cup {row})
    BY <1>1
  <2>2. audit' \in Seq(S \cup {row})
    BY <1>3, <2>1
  <2> QED
    BY <2>2 DEF LogIsSequence
<1>4. ASSUME NEW s \in Processes, Audited(s)
      PROVE  LogIsSequence'
  BY <1>3, <1>4 DEF Audited, Record
<1>5. CASE Transaction
  BY <1>2, <1>4, <1>5, AuditedTransaction
<1>6. CASE ~Transaction
  BY <1>2, <1>6, AuditedByTransaction
<1> QED
  BY <1>5, <1>6

\* The row an audited transaction appends names the call and its project, and the caller's token.
LEMMA RowAppended ==
  ASSUME LogIsSequence, NEW s \in Processes, Audited(s)
  PROVE  /\ NewestRow.project = requests[s].call.project
         /\ NewestRow.action = requests[s].call.op
         /\ NewestRow.token = requests[s].principal.token
<1> DEFINE row == NewRow(NextSeq(audit), AuditHead(audit, requests[s].call.project),
                         requests[s].call.project, requests[s].principal.user,
                         requests[s].principal.token, requests[s].call.op, requests[s].call)
<1>1. audit' = Append(audit, row)
  BY DEF Audited, Record
<1>2. audit'[Len(audit')] = row
  <2> HIDE DEF row
  <2>1. PICK S : audit \in Seq(S)
    BY DEF LogIsSequence
  <2> QED
    BY <1>1, <2>1
<1> QED
  BY <1>2 DEF NewestRow, NewRow

\* A transaction of a request that came with a project token changes that project only.
LEMMA ProjectStep ==
  ASSUME TypeOK, RequestsInFlight, LogIsSequence, [Next]_vars, Appended,
         NewestRow.token # NoToken, tokens[NewestRow.token].project # Instance
  PROVE  LET own == tokens[NewestRow.token].project
         IN  /\ NewestRow.project = own
             /\ \A p \in Projects \ {own} : bindings'[p] = bindings[p]
             /\ \A t \in Tokens : tokens[t].project \notin {own, Instance} =>
                                     tokens'[t] = tokens[t]
<1> DEFINE own == tokens[NewestRow.token].project
<1>1. ~UNCHANGED audit
  <2>1. PICK S : audit \in Seq(S)
    BY DEF LogIsSequence
  <2> QED
    BY <2>1 DEF Appended
<1>2. Transaction
  BY <1>1, AuditedByTransaction
<1>3. PICK s \in Processes :
         /\ \/ GrantMember(s) \/ RemoveMember(s)
            \/ \E t \in Tokens : IssueToken(s, t)
            \/ RevokeToken(s) \/ UpdateProject(s) \/ CreateProject(s) \/ Push(s)
         /\ requests[s] # Idle /\ requests[s].phase = "checked"
         /\ Audited(s) \/ UNCHANGED audit
  BY <1>2, AuditedTransaction
<1> DEFINE call == requests[s].call
<1>4. requests[s] # Idle /\ requests[s].phase = "checked" /\ Audited(s)
  BY <1>1, <1>3
<1>5. call \in Calls /\ call.project \in Projects /\ requests[s].principal \in Principals
  BY <1>4, ActiveRequest, CallFields
<1>6. NewestRow.project = call.project /\ NewestRow.token = requests[s].principal.token
  BY <1>4, RowAppended
<1>7. call.project = own
  BY <1>4, <1>6 DEF RequestsInFlight, InFlight, Visible
<1>8. ASSUME NEW p \in Projects \ {own}
      PROVE  bindings'[p] = bindings[p]
  <2>1. CASE GrantMember(s) \/ RemoveMember(s) \/ CreateProject(s)
    BY <1>7, <2>1 DEF GrantMember, RemoveMember, CreateProject, TypeOK
  <2>2. CASE \/ \E t \in Tokens : IssueToken(s, t)
             \/ RevokeToken(s) \/ UpdateProject(s) \/ Push(s)
    BY <2>2 DEF IssueToken, RevokeToken, UpdateProject, Push
  <2> QED
    BY <1>3, <2>1, <2>2
<1>9. ASSUME NEW t \in Tokens, tokens[t].project \notin {own, Instance}
      PROVE  tokens'[t] = tokens[t]
  <2>1. CASE UNCHANGED tokens
    BY <2>1
  <2>2. CASE RemoveMember(s)
    BY <1>7, <1>9, <2>2 DEF RemoveMember, RevokeTokensOf
  <2>3. ASSUME NEW n \in Tokens, IssueToken(s, n)
        PROVE  tokens'[t] = tokens[t]
    <3>1. t # n
      BY <1>9, <2>3 DEF IssueToken, Issued, NotIssued
    <3> QED
      BY <2>3, <3>1 DEF IssueToken, NewToken, TypeOK
  <2>4. CASE RevokeToken(s)
    <3>1. tokens[call.token].project = own
      BY <1>7, <2>4 DEF RevokeToken
    <3>2. t # call.token
      BY <1>9, <3>1
    <3> QED
      BY <2>4, <3>2 DEF RevokeToken, TypeOK
  <2> QED
    BY <1>3, <2>1, <2>2, <2>3, <2>4 DEF GrantMember, UpdateProject, CreateProject, Push
<1> QED
  BY <1>6, <1>7, <1>8, <1>9

\* A token bound to one project never writes a row, a binding or a token of another, in any
\* interleaving with the processes that revoke, grant and remove meanwhile: the check that
\* compares the two projects is made once, and neither of them changes after it.
THEOREM TokenKeepsToItsProject == Spec => TokenStaysInProject
<1>1. Init => RequestsInFlight /\ LogIsSequence
  <2>1. Init => RequestsInFlight
    BY DEF Init, RequestsInFlight
  <2>2. Init => LogIsSequence
    <3>1. << >> \in Seq({})
      OBVIOUS
    <3> QED
      BY <3>1 DEF Init, LogIsSequence
  <2> QED
    BY <2>1, <2>2
<1>2. TypeOK /\ RequestsInFlight /\ LogIsSequence /\ [Next]_vars
        => (RequestsInFlight /\ LogIsSequence)'
  BY InFlightStep, LogStep
<1>3. TypeOK /\ RequestsInFlight /\ LogIsSequence /\ [Next]_vars =>
        [Appended /\ NewestRow.token # NoToken /\ tokens[NewestRow.token].project # Instance =>
           LET own == tokens[NewestRow.token].project
           IN  /\ NewestRow.project = own
               /\ \A p \in Projects \ {own} : bindings'[p] = bindings[p]
               /\ \A t \in Tokens : tokens[t].project \notin {own, Instance} =>
                                       tokens'[t] = tokens[t]]_vars
  BY ProjectStep
<1> QED
  BY <1>1, <1>2, <1>3, TypeCorrect, PTL DEF Spec, TokenStaysInProject

-----------------------------------------------------------------------------
(* Requests that are overtaken, and those that are not. *)

\* A step leaves a request as it is, takes one up, moves it past its scope check, or goes on
\* from the grant of `token create' to its issue.
LEMMA MovesOfARequest ==
  ASSUME TypeOK, [Next]_vars, NEW s \in Processes, requests'[s] # Idle
  PROVE  \/ requests'[s] = requests[s]
         \/ \E t \in Tokens : \E call :
              /\ Verifies(t) /\ UNCHANGED database
              /\ requests'[s] = Request("authenticated", PrincipalOf(t), call, FALSE)
         \/ \E call, b : requests'[s] = Request("authenticated", LocalOperator, call, b)
         \/ /\ Scope(s) \/ ScopeCreate(s)
            /\ requests'[s] = [requests[s] EXCEPT !.phase = "checked"]
         \/ /\ GrantMember(s) /\ requests[s].andIssue
            /\ \E call : requests'[s] = Request("authenticated", requests[s].principal, call, FALSE)
<1> DEFINE Kept == requests'[s] = requests[s]
           Operators == \E call, b : requests'[s] = Request("authenticated", LocalOperator, call, b)
<1>1. ASSUME NEW q \in Processes, NEW r, requests' = [requests EXCEPT ![q] = r]
      PROVE  IF q = s THEN requests'[s] = r ELSE Kept
  BY <1>1 DEF TypeOK
<1>2. ASSUME NEW q \in Servers, NEW t \in Tokens, NEW call \in Calls, Authenticate(q, t, call)
      PROVE  \/ Kept
             \/ /\ Verifies(t) /\ UNCHANGED database
                /\ requests'[s] = Request("authenticated", PrincipalOf(t), call, FALSE)
  BY <1>1, <1>2 DEF Authenticate, Processes
<1>3. ASSUME NEW c \in Clis, NEW call, NEW b,
             requests' = [requests EXCEPT ![c] = Request("authenticated", LocalOperator, call, b)]
      PROVE  Kept \/ Operators
  BY <1>1, <1>3 DEF Processes
<1>4. ASSUME NEW c \in Clis, NEW p \in Projects, NEW u \in Users, NEW r \in Roles,
             CliTokenCreate(c, p, u, r)
      PROVE  Kept \/ Operators
  <2>1. CASE bindings[p][u] = NoRole
    BY <1>3, <1>4, <2>1 DEF CliTokenCreate
  <2>2. CASE bindings[p][u] # NoRole
    BY <1>3, <1>4, <2>2 DEF CliTokenCreate
  <2> QED
    BY <2>1, <2>2
<1>5. ASSUME NEW c \in Clis, NEW t \in Tokens, CliTokenRevoke(c, t) PROVE Kept \/ Operators
  BY <1>3, <1>5 DEF CliTokenRevoke
<1>6. ASSUME NEW c \in Clis, NEW p \in Projects, CliProjectCreate(c, p) PROVE Kept \/ Operators
  BY <1>3, <1>6 DEF CliProjectCreate
<1>7. ASSUME NEW q \in Processes, Scope(q) \/ ScopeCreate(q)
      PROVE  \/ Kept
             \/ /\ Scope(s) \/ ScopeCreate(s)
                /\ requests'[s] = [requests[s] EXCEPT !.phase = "checked"]
  <2>1. requests' = [requests EXCEPT ![q] = [requests[q] EXCEPT !.phase = "checked"]]
    BY <1>7 DEF Scope, ScopeCreate
  <2> QED
    BY <1>1, <1>7, <2>1
<1>8. ASSUME NEW q \in Processes, requests' = [requests EXCEPT ![q] = Idle] PROVE Kept
  BY <1>1, <1>8
<1>9. ASSUME NEW q \in Processes, GrantMember(q)
      PROVE  \/ Kept
             \/ /\ GrantMember(s) /\ requests[s].andIssue
                /\ \E call : requests'[s] = Request("authenticated", requests[s].principal, call, FALSE)
  <2>1. \/ requests' = [requests EXCEPT ![q] = Idle]
        \/ /\ requests[q].andIssue
           /\ \E call : requests' = [requests EXCEPT ![q] =
                                    Request("authenticated", requests[q].principal, call, FALSE)]
    BY <1>9 DEF GrantMember
  <2> QED
    BY <1>1, <1>8, <1>9, <2>1
<1>10. CASE StartRequest
  BY <1>2, <1>4, <1>5, <1>6, <1>10, Zenon DEF StartRequest
<1>11. CASE \E q \in Processes : Scope(q) \/ ScopeCreate(q) \/ Abandon(q)
  BY <1>7, <1>8, <1>11 DEF Abandon
<1>12. CASE Transaction
  <2>1. ASSUME NEW q \in Processes,
               \/ RemoveMember(q) \/ \E t \in Tokens : IssueToken(q, t)
               \/ RevokeToken(q) \/ UpdateProject(q) \/ CreateProject(q) \/ Push(q)
        PROVE  Kept
    <3>1. Answer(q)
      BY <2>1, Zenon
      DEF RemoveMember, IssueToken, RevokeToken, UpdateProject, CreateProject, Push
    <3> QED
      BY <1>8, <3>1 DEF Answer
  <2> QED
    BY <1>9, <1>12, <2>1 DEF Transaction
<1>13. CASE \/ UNCHANGED vars \/ Operate \/ \E t \in Tokens : Expire(t)
  BY <1>13 DEF vars, Operate, BootstrapUser, BootstrapToken, RevokeInstanceToken, Expire
<1> QED
  BY <1>10, <1>11, <1>12, <1>13 DEF Next

\* No step takes a user, an instance admin or a project away, and only a project that exists is
\* archived.
LEMMA TablesGrow ==
  ASSUME [Next]_vars
  PROVE  /\ users \subseteq users' /\ instanceAdmins \subseteq instanceAdmins'
         /\ projects \subseteq projects'
         /\ \/ archived' \subseteq archived
            \/ \E s \in Processes :
                 UpdateProject(s) /\ archived' \subseteq archived \cup {requests[s].call.project}
<1>1. CASE StartRequest \/ \E s \in Processes : Scope(s) \/ ScopeCreate(s) \/ Abandon(s)
  <2>1. UNCHANGED database
    BY <1>1, Zenon
    DEF StartRequest, Authenticate, CliTokenCreate, CliTokenRevoke, CliProjectCreate,
        Scope, ScopeCreate, Abandon
  <2> QED
    BY <2>1 DEF database
<1>2. ASSUME NEW s \in Processes, UpdateProject(s)
      PROVE  /\ UNCHANGED << users, instanceAdmins, projects >>
             /\ archived' \subseteq archived \cup {requests[s].call.project}
  BY <1>2 DEF UpdateProject
<1>3. CASE Transaction
  BY <1>2, <1>3
  DEF Transaction, GrantMember, RemoveMember, IssueToken, RevokeToken, CreateProject, Push
<1>4. CASE \/ UNCHANGED vars \/ Operate \/ \E t \in Tokens : Expire(t)
  BY <1>4 DEF vars, Operate, BootstrapUser, BootstrapToken, RevokeInstanceToken, Expire
<1> QED
  BY <1>1, <1>3, <1>4 DEF Next

\* What holds of a request whatever others commit: the checks it has passed for good.
Settled(s) ==
  LET principal == requests[s].principal
      call      == requests[s].call
  IN  /\ principal.token # NoToken => ~ requests[s].andIssue
      /\ requests[s].phase = "checked" =>
           IF call.op = "project.create"
           THEN principal.project = Instance
           ELSE call.project \in projects /\ PermissionOf(call.op) \in Permissions(principal.role)

\* The owner of t has the role that the principal was given.
StillHas(t, role) ==
  /\ ~tokens[t].revoked
  /\ tokens[t].user \in users
  /\ IF tokens[t].project = Instance
     THEN tokens[t].user \in instanceAdmins
     ELSE bindings[tokens[t].project][tokens[t].user] # NoRole
  /\ EffectiveRole(t) = role

\* What holds of a request that was not overtaken: what it has read is still so.
Current(s) ==
  LET principal == requests[s].principal
      call      == requests[s].call
  IN  /\ principal.token # NoToken => StillHas(principal.token, principal.role)
      /\ requests[s].phase = "checked" => call.op = "project.create" \/ Writable(call)

HistoryInv ==
  /\ TypeOK /\ RequestsInFlight /\ LogIsSequence
  /\ archived \subseteq projects
  /\ \A s \in Processes : requests[s] # Idle => Settled(s) /\ (s \notin overtaken => Current(s))

LEMMA HistoryStart == HistoryInit => HistoryInv
<1> SUFFICES ASSUME HistoryInit PROVE HistoryInv
  OBVIOUS
<1>1. TypeOK
  BY TypeInit DEF HistoryInit
<1>2. RequestsInFlight /\ archived \subseteq projects
  BY DEF HistoryInit, Init, RequestsInFlight
<1>3. LogIsSequence
  <2>1. << >> \in Seq({})
    OBVIOUS
  <2> QED
    BY <2>1 DEF HistoryInit, Init, LogIsSequence
<1> QED
  BY <1>1, <1>2, <1>3 DEF HistoryInv, HistoryInit, Init

\* A request that waits through a step that changes nothing it has read stays as good as it was.
LEMMA NotOvertaken ==
  ASSUME TypeOK, TypeOK', [Next]_vars, RequestsInFlight,
         NEW s \in Processes, requests[s] # Idle, requests'[s] = requests[s],
         HasRead(s)' = HasRead(s), Current(s)
  PROVE  Current(s)'
<1> DEFINE principal == requests[s].principal
           t == principal.token
<1>1. /\ principal.token \in Tokens \cup {NoToken}
      /\ users \subseteq users' /\ instanceAdmins \subseteq instanceAdmins'
  BY ActiveRequest, TablesGrow DEF Principals
<1>2. requests[s].phase = "checked" => (requests[s].call.project \in archived' <=> requests[s].call.project \in archived)
  BY DEF HasRead
<1>3. ASSUME t # NoToken PROVE StillHas(t, principal.role)'
  <2>1. StillHas(t, principal.role) /\ Issued(t) /\ t \in Tokens
    BY <1>1, <1>3 DEF Current, RequestsInFlight, InFlight
  <2>2. TokenRead(t)' = TokenRead(t)
    BY <1>3 DEF HasRead
  <2>3. tokens[t] \in TokenRows /\ tokens'[t] \in TokenRows
    BY <2>1, TokenProjectStays DEF TypeOK, Issued
  <2>4. /\ [tokens'[t] EXCEPT !.expired = FALSE] = [tokens[t] EXCEPT !.expired = FALSE]
        /\ (IF tokens'[t].project = Instance THEN NoRole ELSE bindings'[tokens'[t].project][tokens'[t].user])
             = IF tokens[t].project = Instance THEN NoRole ELSE bindings[tokens[t].project][tokens[t].user]
    BY <2>2 DEF TokenRead
  <2>5. /\ tokens'[t].revoked = tokens[t].revoked /\ tokens'[t].user = tokens[t].user
        /\ tokens'[t].project = tokens[t].project /\ tokens'[t].role = tokens[t].role
    BY <2>3, <2>4 DEF TokenRows
  <2>6. tokens[t].project # Instance =>
          bindings'[tokens[t].project][tokens[t].user] = bindings[tokens[t].project][tokens[t].user]
    BY <2>4, <2>5
  <2>7. EffectiveRole(t)' = EffectiveRole(t)
    BY <2>5, <2>6 DEF EffectiveRole
  <2> QED
    BY <1>1, <2>1, <2>5, <2>6, <2>7 DEF StillHas
<1> QED
  BY <1>2, <1>3 DEF Current, Writable

\* Each move of a request keeps what holds of it.
LEMMA RequestKept ==
  ASSUME TypeOK, TypeOK', HistoryInv, HistoryNext, NEW s \in Processes, requests'[s] # Idle
  PROVE  Settled(s)' /\ (s \notin overtaken' => Current(s)')
<1>0. NoToken \notin Tokens /\ LocalOperator.token = NoToken
  BY AccessAssumption DEF LocalOperator
<1>1. projects \subseteq projects' /\ [Next]_vars
  BY TablesGrow DEF HistoryNext
<1>2. s \notin overtaken' => s \notin overtaken /\ (Waits(s) => HasRead(s)' = HasRead(s))
  BY DEF HistoryNext
<1>3. CASE requests'[s] = requests[s]
  <2>1. requests[s] # Idle
    BY <1>3
  <2>2. Settled(s)'
    BY <1>1, <1>3, <2>1 DEF HistoryInv, Settled
  <2>3. s \notin overtaken' => Current(s)'
    BY <1>1, <1>2, <1>3, <2>1, NotOvertaken DEF HistoryInv, Waits
  <2> QED
    BY <2>2, <2>3
<1>4. ASSUME NEW t \in Tokens, NEW call, Verifies(t), UNCHANGED database,
             requests'[s] = Request("authenticated", PrincipalOf(t), call, FALSE)
      PROVE  Settled(s)' /\ Current(s)'
  <2>1. /\ requests'[s].phase = "authenticated" /\ ~ requests'[s].andIssue
        /\ requests'[s].principal.token = t /\ requests'[s].principal.role = EffectiveRole(t)
    BY <1>4 DEF Request, PrincipalOf
  <2>2. StillHas(t, EffectiveRole(t))
    BY <1>4 DEF StillHas, Verifies
  <2>3. StillHas(t, EffectiveRole(t))'
    BY <1>4, <2>2 DEF StillHas, EffectiveRole, database
  <2>4. EffectiveRole(t)' = EffectiveRole(t)
    BY <1>4 DEF EffectiveRole, database
  <2> QED
    BY <2>1, <2>3, <2>4 DEF Settled, Current
<1>5. ASSUME NEW call, NEW b, requests'[s] = Request("authenticated", LocalOperator, call, b)
      PROVE  Settled(s)' /\ Current(s)'
  BY <1>0, <1>5 DEF Settled, Current, Request
<1>6. ASSUME Scope(s) \/ ScopeCreate(s), requests'[s] = [requests[s] EXCEPT !.phase = "checked"]
      PROVE  Settled(s)' /\ (s \notin overtaken' => Current(s)')
  <2>1. requests[s] # Idle /\ requests[s] \in Active /\ UNCHANGED database
    BY <1>6, ActiveRequest DEF Scope, ScopeCreate
  <2>2. /\ requests'[s].principal = requests[s].principal /\ requests'[s].call = requests[s].call
        /\ requests'[s].andIssue = requests[s].andIssue
    BY <1>6, <2>1 DEF Active
  <2>3. UNCHANGED << projects, archived, users, instanceAdmins, bindings, tokens >>
    BY <2>1 DEF database
  <2>4. /\ IF requests[s].call.op = "project.create"
           THEN requests[s].principal.project = Instance
           ELSE /\ requests[s].call.project \in projects /\ Writable(requests[s].call)
                /\ PermissionOf(requests[s].call.op) \in Permissions(requests[s].principal.role)
    BY <1>6 DEF Scope, ScopeCreate
  <2>5. Settled(s)'
    BY <2>1, <2>2, <2>3, <2>4 DEF HistoryInv, Settled
  <2>6. s \notin overtaken' => Current(s)'
    BY <1>2, <2>1, <2>2, <2>3, <2>4 DEF HistoryInv, Current, StillHas, EffectiveRole, Writable
  <2> QED
    BY <2>5, <2>6
<1>7. ASSUME GrantMember(s), requests[s].andIssue, NEW call,
             requests'[s] = Request("authenticated", requests[s].principal, call, FALSE)
      PROVE  Settled(s)' /\ Current(s)'
  <2>1. requests[s] # Idle
    BY <1>7 DEF GrantMember, Checked
  <2>2. requests[s].principal.token = NoToken
    BY <1>7, <2>1 DEF HistoryInv, Settled
  <2> QED
    BY <1>7, <2>2 DEF Settled, Current, Request
<1> QED
  BY <1>1, <1>3, <1>4, <1>5, <1>6, <1>7, MovesOfARequest

LEMMA HistoryStep == HistoryInv /\ [HistoryNext]_historyVars => HistoryInv'
<1> SUFFICES ASSUME HistoryInv, [HistoryNext]_historyVars PROVE HistoryInv'
  OBVIOUS
<1>1. [Next]_vars
  BY DEF HistoryNext, historyVars
<1>2. TypeOK /\ TypeOK' /\ RequestsInFlight' /\ LogIsSequence'
  BY <1>1, TypeStep, InFlightStep, LogStep DEF HistoryInv
<1>3. archived' \subseteq projects'
  <2>1. ASSUME NEW s \in Processes, UpdateProject(s) PROVE requests[s].call.project \in projects
    <3>1. /\ requests[s] # Idle /\ requests[s].phase = "checked"
          /\ requests[s].call.op = "project.update"
      BY <2>1 DEF UpdateProject, Checked
    <3> QED
      BY <3>1 DEF HistoryInv, Settled
  <2> QED
    BY <1>1, <2>1, TablesGrow DEF HistoryInv
<1>4. \A s \in Processes : requests'[s] # Idle => Settled(s)' /\ (s \notin overtaken' => Current(s)')
  <2>1. CASE HistoryNext
    BY <1>2, <2>1, RequestKept
  <2>2. CASE UNCHANGED historyVars
    BY <2>2 DEF HistoryInv, historyVars, vars, Settled, Current, StillHas, EffectiveRole, Writable
  <2> QED
    BY <2>1, <2>2
<1> QED
  BY <1>2, <1>3, <1>4 DEF HistoryInv

LEMMA HistoryInvariant == HistorySpec => []HistoryInv
  BY HistoryStart, HistoryStep, PTL DEF HistorySpec

\* The process that appends a row is in a transaction, past its checks, and does not wait.
LEMMA RowOfARequest ==
  ASSUME HistoryInv, [HistoryNext]_historyVars, Appended
  PROVE  \E s \in Processes :
           /\ requests[s] # Idle /\ requests[s].phase = "checked" /\ ~ Waits(s)
           /\ \/ CreateProject(s) /\ requests[s].call.op = "project.create"
              \/ requests[s].call.op # "project.create"
           /\ NewestRow.project = requests[s].call.project
           /\ NewestRow.action = requests[s].call.op
           /\ NewestRow.token = requests[s].principal.token
<1>1. ~ UNCHANGED audit
  <2>1. PICK S : audit \in Seq(S)
    BY DEF HistoryInv, LogIsSequence
  <2> QED
    BY <2>1 DEF Appended
<1>2. Transaction
  BY <1>1, AuditedByTransaction DEF HistoryNext, historyVars
<1>3. PICK s \in Processes :
         /\ \/ GrantMember(s) \/ RemoveMember(s)
            \/ \E t \in Tokens : IssueToken(s, t)
            \/ RevokeToken(s) \/ UpdateProject(s) \/ CreateProject(s) \/ Push(s)
         /\ requests[s] # Idle /\ requests[s].phase = "checked"
         /\ Audited(s) \/ UNCHANGED audit
  BY <1>2, AuditedTransaction
<1>4. ~ Waits(s)
  <2>1. CASE GrantMember(s)
    <3> DEFINE issue == [op |-> "token.issue", project |-> requests[s].call.project,
                         user |-> requests[s].call.user, role |-> requests[s].call.role]
    <3>1. \/ requests'[s] = Idle
          \/ requests'[s] = Request("authenticated", requests[s].principal, issue, FALSE)
      BY <2>1 DEF GrantMember, HistoryInv, TypeOK
    <3>2. requests'[s] = Idle \/ requests'[s].phase = "authenticated"
      <4> HIDE DEF issue
      <4> QED
        BY <3>1 DEF Request
    <3>3. requests[s] # Idle /\ requests[s].phase # "authenticated"
      BY <1>3
    <3> QED
      BY <3>2, <3>3 DEF Waits
  <2>2. CASE ~ GrantMember(s)
    <3>1. Answer(s)
      BY <1>3, <2>2, Zenon
      DEF RemoveMember, IssueToken, RevokeToken, UpdateProject, CreateProject, Push
    <3>2. requests \in [Processes -> {Idle} \cup Active]
      BY DEF HistoryInv, TypeOK
    <3>3. requests'[s] = Idle
      BY <3>1, <3>2 DEF Answer
    <3> QED
      BY <1>3, <3>3 DEF Waits
  <2> QED
    BY <2>1, <2>2
<1>5. CreateProject(s) \/ requests[s].call.op # "project.create"
  <2>1. CASE \/ GrantMember(s) \/ RemoveMember(s) \/ \E t \in Tokens : IssueToken(s, t)
             \/ RevokeToken(s) \/ UpdateProject(s) \/ Push(s)
    BY <2>1 DEF GrantMember, RemoveMember, IssueToken, RevokeToken, UpdateProject, Push, Checked
  <2> QED
    BY <1>3, <2>1
<1>6. /\ NewestRow.project = requests[s].call.project
      /\ NewestRow.action = requests[s].call.op
      /\ NewestRow.token = requests[s].principal.token
  BY <1>1, <1>3, RowAppended DEF HistoryInv
<1> QED
  BY <1>3, <1>4, <1>5, <1>6

\* Whatever other servers and command lines commit meanwhile: a row is written under a token only
\* if its owner may still do it at that moment, or the request had read his rights before they
\* changed.
THEOREM AuthorityHoldsAtCommit == HistorySpec => AuthorityAtCommit
<1>1. ASSUME HistoryInv, [HistoryNext]_historyVars, Appended, Undisturbed, NewestRow.token # NoToken
      PROVE  MayStill(NewestRow.token, NewestRow.action)
  <2>1. PICK s \in Processes :
           /\ requests[s] # Idle /\ requests[s].phase = "checked" /\ ~ Waits(s)
           /\ NewestRow.action = requests[s].call.op
           /\ NewestRow.token = requests[s].principal.token
    BY <1>1, RowOfARequest
  <2>2. Settled(s) /\ Current(s) /\ InFlight(s)
    BY <1>1, <2>1 DEF Undisturbed, HistoryInv, RequestsInFlight
  <2>3. StillHas(NewestRow.token, requests[s].principal.role)
    BY <1>1, <2>1, <2>2 DEF Current
  <2>4. IF NewestRow.action = "project.create"
        THEN tokens[NewestRow.token].project = Instance
        ELSE PermissionOf(NewestRow.action) \in Permissions(requests[s].principal.role)
    BY <1>1, <2>1, <2>2 DEF Settled, InFlight
  <2> QED
    BY <2>3, <2>4 DEF MayStill, StillHas
<1>2. HistoryInv /\ [HistoryNext]_historyVars =>
        [Appended /\ Undisturbed /\ NewestRow.token # NoToken =>
           MayStill(NewestRow.token, NewestRow.action)]_historyVars
  BY <1>1
<1> QED
  BY <1>2, HistoryInvariant, PTL DEF HistorySpec, AuthorityAtCommit

\* An archived project is written to by update_project alone, and by requests that were past
\* their check when it was archived.
THEOREM ArchivedStaysReadOnly == HistorySpec => ArchivedIsReadOnly
<1>1. ASSUME HistoryInv, [HistoryNext]_historyVars, Appended, Undisturbed, NewestRow.project \in archived
      PROVE  NewestRow.action = "project.update"
  <2>1. PICK s \in Processes :
           /\ requests[s] # Idle /\ requests[s].phase = "checked" /\ ~ Waits(s)
           /\ \/ CreateProject(s) /\ requests[s].call.op = "project.create"
              \/ requests[s].call.op # "project.create"
           /\ NewestRow.project = requests[s].call.project
           /\ NewestRow.action = requests[s].call.op
    BY <1>1, RowOfARequest
  <2>2. Current(s) /\ requests[s].call.project \in projects
    BY <1>1, <2>1 DEF Undisturbed, HistoryInv
  <2>3. requests[s].call.op # "project.create"
    BY <2>1, <2>2 DEF CreateProject
  <2> QED
    BY <1>1, <2>1, <2>2, <2>3 DEF Current, Writable
<1>2. HistoryInv /\ [HistoryNext]_historyVars =>
        [Appended /\ Undisturbed /\ NewestRow.project \in archived =>
           NewestRow.action = "project.update"]_historyVars
  BY <1>1
<1> QED
  BY <1>2, HistoryInvariant, PTL DEF HistorySpec, ArchivedIsReadOnly

\* The history variable only watches: what is proved of Access holds here too.
THEOREM HistoryIsAccess == HistorySpec => Spec
<1>1. HistoryInit => Init
  BY DEF HistoryInit
<1>2. [HistoryNext]_historyVars => [Next]_vars
  BY DEF HistoryNext, historyVars
<1> QED
  BY <1>1, <1>2, PTL DEF HistorySpec, Spec

=============================================================================
