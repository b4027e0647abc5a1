--------------------------- MODULE AccountsProofs ---------------------------
(***************************************************************************)
(* Proofs about Accounts, for every set of users and of clients and every  *)
(* bound, and about BrowserSession, which has the page as one client.      *)
(***************************************************************************)
EXTENDS BrowserSession, FiniteSetTheorems, TLAPS

\* What is known of a command in progress.
LEMMA RequestType ==
  ASSUME AccountsTypeOK, NEW c \in Clients
  PROVE  /\ req[c] \in Request /\ req[c].reply \in Said
         /\ Idle \in Request /\ Anonymous \in Said
  BY AccountsAssumption
     DEF AccountsTypeOK, RequestsTypeOK, Request, Said, Idle, Anonymous

\* A handler that goes on keeps a request.
LEMMA RequestGoesOn ==
  ASSUME NEW r \in Request, NEW pc \in {"authorized", "changed"},
         NEW user \in Users \union {"none"}, NEW hash \in 1..MaxHash, NEW said \in Said
  PROVE  /\ [r EXCEPT !.pc = pc, !.hash = hash, !.reply = said] \in Request
         /\ [r EXCEPT !.pc = pc, !.user = user, !.hash = hash, !.reply = said]
              \in Request
<1>1. hash \in 0..MaxHash
  BY AccountsAssumption
<1>2. QED
  BY <1>1 DEF Request

\* A reply ends a command with a request that names nobody.
LEMMA ReplyType ==
  ASSUME AccountsTypeOK, NEW c \in Clients, NEW pc \in Answered, Reply(c, pc)
  PROVE  RequestsTypeOK'
<1>1. [Idle EXCEPT !.op = req[c].op, !.pc = pc] \in Request
  BY RequestType DEF Request, Idle, Answered
<1>2. QED
  BY <1>1 DEF Reply, AccountsTypeOK, RequestsTypeOK, At, Answered, Idle

\* A success keeps no more than the answer.
LEMMA SucceedType ==
  ASSUME AccountsTypeOK, NEW c \in Clients, Succeed(c)
  PROVE  RequestsTypeOK'
<1>1. [Idle EXCEPT !.op = req[c].op, !.pc = "ok", !.token = req[c].token,
                   !.reply = req[c].reply] \in Request
  BY RequestType DEF Request, Idle, Answered
<1>2. QED
  BY <1>1 DEF Succeed, AccountsTypeOK, RequestsTypeOK, At, Answered, Idle

\* What an administrator makes of a user is a user.
LEMMA EditsType ==
  ASSUME AccountsTypeOK, NEW u \in Users, NEW value \in Edits(u)
  PROVE  value \in User
<1>1. users[u] \in User
  BY DEF AccountsTypeOK
<1>2. CASE value = Removed(u)
  BY <1>1, <1>2 DEF Removed, User
<1>3. CASE value # Removed(u)
  <2>1. PICK role \in {"admin", "user"}, enabled \in BOOLEAN, reset \in BOOLEAN :
          /\ reset => users[u].hash < MaxHash
          /\ value = Edited(u, role, enabled, reset)
    BY <1>3 DEF Edits
  <2>2. (IF reset THEN users[u].hash + 1 ELSE users[u].hash) \in 1..MaxHash
    BY <1>1, <2>1, AccountsAssumption DEF User
  <2>3. users[u].must \/ reset \in BOOLEAN
    BY <1>1, <2>1 DEF User
  <2>4. QED
    BY <2>1, <2>2, <2>3 DEF Edited, User
<1>4. QED
  BY <1>2, <1>3

\* The first state has the right types.
LEMMA TypeInit == AccountsInit => AccountsTypeOK
<1> SUFFICES ASSUME AccountsInit PROVE AccountsTypeOK
  OBVIOUS
<1>1. Cardinality(Clients) \in Nat
  BY FS_CardinalityType, AccountsAssumption
<1>2. PICK f \in [Clients -> Users], t \in [Clients -> 1..Cardinality(Clients)] :
        /\ jar = t
        /\ sessions = {[token |-> t[c], user |-> f[c], hash |-> 1] : c \in Clients}
  BY DEF AccountsInit
<1>3. 1..Cardinality(Clients) \subseteq Tokens /\ 1 \in 1..MaxHash
  BY <1>1, AccountsAssumption DEF Tokens
<1>4. sessions \subseteq Session
  BY <1>2, <1>3 DEF Session
<1>5. jar \in [Clients -> 0..MaxTokens]
  BY <1>2, <1>3 DEF Tokens
<1>6. users \in [Users -> User]
  BY <1>3 DEF AccountsInit, User
<1>7. RequestsTypeOK
  <2>1. Idle \in Request
    BY AccountsAssumption DEF Idle, Anonymous, Said, Request
  <2>2. QED
    BY <2>1 DEF AccountsInit, Idle, RequestsTypeOK, At
<1>8. QED
  BY <1>1, <1>4, <1>5, <1>6, <1>7, AccountsAssumption
     DEF AccountsTypeOK, AccountsInit

\* Every step keeps the types.
LEMMA TypeStep == AccountsTypeOK /\ [AccountsNext]_accounts => AccountsTypeOK'
<1> SUFFICES ASSUME AccountsTypeOK, [AccountsNext]_accounts PROVE AccountsTypeOK'
  OBVIOUS
<1>1. ASSUME NEW c \in Clients, FindUser(c) PROVE AccountsTypeOK'
  <2>1. CASE Active(req[c].user)
    <3> DEFINE u == req[c].user
    <3>1. u \in Users /\ users[u] \in User
      BY <1>1 DEF AccountsTypeOK, RequestsTypeOK, FindUser, At
    <3>a. [token |-> 0, role |-> users[u].role, must |-> users[u].must] \in Said
      BY <3>1, AccountsAssumption DEF User, Said
    <3>h. users[u].hash \in 1..MaxHash /\ "authorized" \in {"authorized", "changed"}
      BY <3>1 DEF User
    <3>2. [req[c] EXCEPT !.pc = "authorized", !.hash = users[u].hash,
             !.reply = [token |-> 0, role |-> users[u].role,
                        must |-> users[u].must]] \in Request
      BY <3>1, <3>a, <3>h, RequestType, RequestGoesOn, Zenon
    <3>3. req' = [req EXCEPT ![c] = [req[c] EXCEPT !.pc = "authorized",
             !.hash = users[u].hash,
             !.reply = [token |-> 0, role |-> users[u].role, must |-> users[u].must]]]
      BY <1>1, <2>1 DEF FindUser, AccountsTypeOK, Request
    <3>4. RequestsTypeOK'
      BY <3>1, <3>2, <3>3 DEF AccountsTypeOK, RequestsTypeOK, At, Request
    <3>5. QED
      BY <1>1, <3>4 DEF AccountsTypeOK, FindUser
  <2>2. CASE ~Active(req[c].user)
    <3>1. Reply(c, "401")
      BY <1>1, <2>2 DEF FindUser
    <3>2. RequestsTypeOK'
      BY <3>1, ReplyType DEF Answered
    <3>3. QED
      BY <1>1, <3>2 DEF AccountsTypeOK, FindUser
  <2>3. QED
    BY <2>1, <2>2
<1>2. ASSUME NEW c \in Clients, authorize(c) PROVE AccountsTypeOK'
  <2>1. CASE \E pc \in Answered : Reply(c, pc)
    <3>1. RequestsTypeOK'
      BY <2>1, ReplyType
    <3>2. QED
      BY <1>2, <3>1 DEF AccountsTypeOK, authorize
  <2>2. CASE ~ \E pc \in Answered : Reply(c, pc)
    <3>1. PICK s \in LoadSession(req[c].token) :
            req' = [req EXCEPT ![c].pc = "authorized", ![c].user = s.user,
                      ![c].hash = users[s.user].hash,
                      ![c].reply = [token |-> 0, role |-> users[s.user].role,
                                    must |-> users[s.user].must]]
      BY <1>2, <2>2 DEF authorize, Answered
    <3>2. s.user \in Users /\ users[s.user] \in User
      BY <3>1 DEF LoadSession, AccountsTypeOK, Session
    <3>a. [token |-> 0, role |-> users[s.user].role, must |-> users[s.user].must] \in Said
      BY <3>2, AccountsAssumption DEF User, Said
    <3>h. /\ users[s.user].hash \in 1..MaxHash /\ s.user \in Users \union {"none"}
          /\ "authorized" \in {"authorized", "changed"}
      BY <3>2 DEF User
    <3>3. [req[c] EXCEPT !.pc = "authorized", !.user = s.user,
             !.hash = users[s.user].hash,
             !.reply = [token |-> 0, role |-> users[s.user].role,
                        must |-> users[s.user].must]] \in Request
      BY <3>2, <3>a, <3>h, RequestType, RequestGoesOn, Zenon
    <3>4. req' = [req EXCEPT ![c] = [req[c] EXCEPT !.pc = "authorized",
             !.user = s.user, !.hash = users[s.user].hash,
             !.reply = [token |-> 0, role |-> users[s.user].role,
                        must |-> users[s.user].must]]]
      BY <3>1 DEF AccountsTypeOK, RequestsTypeOK, Request
    <3>5. RequestsTypeOK'
      BY <3>2, <3>3, <3>4 DEF AccountsTypeOK, RequestsTypeOK, At, Request
    <3>6. QED
      BY <1>2, <3>5 DEF AccountsTypeOK, authorize
  <2>3. QED
    BY <2>1, <2>2
<1>3. ASSUME NEW c \in Clients, Refuse(c) PROVE AccountsTypeOK'
  <2>1. RequestsTypeOK'
    BY <1>3, ReplyType DEF Refuse, Answered
  <2>2. QED
    BY <1>3, <2>1 DEF AccountsTypeOK, Refuse
<1>4. ASSUME NEW c \in Clients, ChangePassword(c) PROVE AccountsTypeOK'
  <2> DEFINE u == req[c].user
  <2>1. u \in Users /\ users[u] \in User
    BY <1>4 DEF AccountsTypeOK, ChangePassword, At, RequestsTypeOK
  <2>2. CASE Unchanged(u, req[c].hash)
    <3>1. users[u].hash + 1 \in 1..MaxHash
      BY <1>4, <2>1, <2>2, AccountsAssumption DEF ChangePassword, User
    <3>2. users' \in [Users -> User]
      <4>1. [users[u] EXCEPT !.hash = @ + 1, !.must = FALSE] \in User
        BY <2>1, <3>1 DEF User
      <4>2. users' = [users EXCEPT ![u] = [users[u] EXCEPT !.hash = @ + 1,
                                                          !.must = FALSE]]
        BY <1>4, <2>1, <2>2 DEF ChangePassword, User, AccountsTypeOK
      <4>3. QED
        BY <4>1, <4>2 DEF AccountsTypeOK
    <3>a. [req[c].reply EXCEPT !.must = FALSE] \in Said
      BY RequestType DEF Said
    <3>h. "changed" \in {"authorized", "changed"}
      OBVIOUS
    <3>3. [req[c] EXCEPT !.pc = "changed", !.hash = users[u].hash + 1,
             !.reply = [req[c].reply EXCEPT !.must = FALSE]] \in Request
      BY <3>1, <3>a, <3>h, RequestType, RequestGoesOn, Zenon
    <3>4. req' = [req EXCEPT ![c] = [req[c] EXCEPT !.pc = "changed",
             !.hash = users[u].hash + 1,
             !.reply = [req[c].reply EXCEPT !.must = FALSE]]]
      BY <1>4, <2>2, RequestType DEF ChangePassword, AccountsTypeOK, RequestsTypeOK, Request
    <3>5. RequestsTypeOK'
      BY <2>1, <3>3, <3>4 DEF AccountsTypeOK, RequestsTypeOK, At, Request
    <3>6. sessions' \subseteq Session
      BY <1>4, <2>2 DEF ChangePassword, AccountsTypeOK
    <3>7. QED
      BY <1>4, <3>2, <3>5, <3>6 DEF AccountsTypeOK, ChangePassword
  <2>3. CASE ~Unchanged(u, req[c].hash)
    <3>1. Reply(c, "failed") /\ UNCHANGED <<users, sessions>>
      BY <1>4, <2>3 DEF ChangePassword
    <3>2. RequestsTypeOK'
      BY <3>1, ReplyType DEF Answered
    <3>3. QED
      BY <1>4, <3>1, <3>2 DEF AccountsTypeOK, ChangePassword
  <2>4. QED
    BY <2>2, <2>3
<1>5. ASSUME NEW c \in Clients, CreateSession(c) PROVE AccountsTypeOK'
  <2> DEFINE u == req[c].user
             new == [token |-> lastToken + 1, user |-> u, hash |-> req[c].hash]
  <2>1. u \in Users /\ users[u] \in User
    BY <1>5 DEF AccountsTypeOK, CreateSession, At, RequestsTypeOK
  <2>2. CASE Unchanged(u, req[c].hash)
    <3>1. lastToken + 1 \in Tokens
      BY <1>5, <2>2, AccountsAssumption DEF CreateSession, AccountsTypeOK, Tokens
    <3>2. new \in Session
      BY <2>1, <2>2, <3>1 DEF Unchanged, User, Session
    <3>3. sessions' \subseteq Session
      BY <1>5, <2>2, <3>2 DEF CreateSession, Newest, AccountsTypeOK
    <3>4. lastToken' \in 0..MaxTokens
      BY <1>5, <2>2, <3>1 DEF CreateSession, Tokens
    <3>a. [req[c].reply EXCEPT !.token = lastToken + 1] \in Said
      BY RequestType, <3>1 DEF Said, Tokens
    <3>5. [req[c] EXCEPT !.pc = "created",
             !.reply = [req[c].reply EXCEPT !.token = lastToken + 1]] \in Request
      BY RequestType, <3>a DEF Request
    <3>6. req' = [req EXCEPT ![c] = [req[c] EXCEPT !.pc = "created",
             !.reply = [req[c].reply EXCEPT !.token = lastToken + 1]]]
      BY <1>5, <2>2, RequestType DEF CreateSession, AccountsTypeOK, RequestsTypeOK, Request
    <3>7. RequestsTypeOK'
      BY <2>1, <3>5, <3>6 DEF AccountsTypeOK, RequestsTypeOK, At, Request
    <3>8. QED
      BY <1>5, <3>3, <3>4, <3>7 DEF AccountsTypeOK, CreateSession
  <2>3. CASE ~Unchanged(u, req[c].hash)
    <3>1. Reply(c, "401") /\ UNCHANGED <<sessions, lastToken>>
      BY <1>5, <2>3 DEF CreateSession
    <3>2. RequestsTypeOK'
      BY <3>1, ReplyType DEF Answered
    <3>3. QED
      BY <1>5, <3>1, <3>2 DEF AccountsTypeOK, CreateSession
  <2>4. QED
    BY <2>2, <2>3
<1>6. ASSUME NEW c \in Clients, DropOldSession(c) \/ DeleteSession(c)
      PROVE AccountsTypeOK'
  <2>1. RequestsTypeOK'
    BY <1>6, SucceedType DEF DropOldSession, DeleteSession
  <2>2. sessions' \subseteq Session
    BY <1>6 DEF DropOldSession, DeleteSession, Without, AccountsTypeOK
  <2>3. QED
    BY <1>6, <2>1, <2>2 DEF AccountsTypeOK, DropOldSession, DeleteSession
<1>7. ASSUME NEW c \in Clients, UpdateUser(c) PROVE AccountsTypeOK'
  <2>1. PICK u, value :
        /\ u \in Users /\ value \in Edits(u)
        /\ IF Allowed(u, value)
             THEN Store(u, value) /\ Succeed(c) /\ edits' = edits + 1
             ELSE Reply(c, "failed") /\ UNCHANGED <<users, sessions, edits>>
    BY <1>7 DEF UpdateUser
  <2>2. RequestsTypeOK'
    BY <2>1, ReplyType, SucceedType DEF Answered
  <2>3. edits' \in 0..MaxEdits
    BY <1>7, <2>1, AccountsAssumption DEF UpdateUser, AccountsTypeOK
  <2>4. users' \in [Users -> User] /\ sessions' \subseteq Session
    BY <2>1, EditsType DEF Store, AccountsTypeOK
  <2>5. QED
    BY <1>7, <2>2, <2>3, <2>4 DEF AccountsTypeOK, UpdateUser
<1>8. ASSUME NEW c \in Clients, Command(c) PROVE AccountsTypeOK'
  <2>1. PICK op \in {"login", "password", "logout", "edit"},
             user \in Users \union {"none"} :
          (op = "login" => user \in Users) /\ Send(c, op, user, jar[c])
    BY <1>8 DEF Command
  <2>2. [Idle EXCEPT !.op = op, !.pc = "sent", !.token = jar[c], !.csrf = jar[c],
                     !.user = user] \in Request
    BY <2>1, RequestType DEF AccountsTypeOK, Idle, Request
  <2>3. RequestsTypeOK'
    BY <2>1, <2>2 DEF Send, AccountsTypeOK, RequestsTypeOK, At, Idle
  <2>4. QED
    BY <1>8, <2>3 DEF AccountsTypeOK, Command
<1>9. ASSUME NEW c \in Clients, Receive(c) PROVE AccountsTypeOK'
  <2>2. RequestsTypeOK'
    BY <1>9, RequestType DEF Receive, Finish, AccountsTypeOK, RequestsTypeOK, At, Idle
  <2>3. req[c].reply.token \in 0..MaxTokens /\ 0 \in 0..MaxTokens
    BY RequestType, AccountsAssumption DEF Said
  <2>4. jar' \in [Clients -> 0..MaxTokens]
    BY <1>9, <2>3 DEF Receive, KeepCookie, AccountsTypeOK
  <2>5. QED
    BY <1>9, <2>2, <2>4 DEF AccountsTypeOK, Receive
<1>10. CASE Expire
  BY <1>10 DEF Expire, AccountsTypeOK, RequestsTypeOK, At
<1>11. CASE UNCHANGED accounts
  BY <1>11 DEF accounts, AccountsTypeOK, RequestsTypeOK, At
<1>12. QED
  BY <1>1, <1>2, <1>3, <1>4, <1>5, <1>6, <1>7, <1>8, <1>9, <1>10, <1>11
     DEF AccountsNext, Handle

\* Every variable of the accounts keeps its type, whatever handlers interleave.
THEOREM TypeCorrect == AccountsSpec => []AccountsTypeOK
<1>1. AccountsInit => AccountsTypeOK
  BY TypeInit
<1>2. AccountsTypeOK /\ [AccountsNext]_accounts => AccountsTypeOK'
  BY TypeStep
<1>3. QED
  BY <1>1, <1>2, PTL DEF AccountsSpec

-----------------------------------------------------------------------------
\* A change of one's own password changes neither a role nor who may sign in.
LEMMA PasswordKeepsAdmins ==
  ASSUME AccountsTypeOK, NEW c \in Clients, ChangePassword(c)
  PROVE  Admins' = Admins
<1>1. CASE UNCHANGED users
  BY <1>1 DEF Admins
<1>2. CASE ~UNCHANGED users
  <2>1. users' = [users EXCEPT ![req[c].user].hash = @ + 1, ![req[c].user].must = FALSE]
    BY <1>2 DEF ChangePassword
  <2>2. \A u \in Users : users'[u].role = users[u].role
                         /\ users'[u].enabled = users[u].enabled
    BY <2>1 DEF AccountsTypeOK, User
  <2>3. QED
    BY <2>2 DEF Admins
<1>3. QED
  BY <1>1, <1>2

\* An edit that is allowed leaves an administrator.
LEMMA EditKeepsAnAdmin ==
  ASSUME AccountsTypeOK, AnAdministratorRemains, NEW c \in Clients, UpdateUser(c)
  PROVE  AnAdministratorRemains'
<1>1. PICK u, value :
      /\ u \in Users /\ value \in Edits(u)
      /\ IF Allowed(u, value)
           THEN Store(u, value)
           ELSE UNCHANGED users
  BY DEF UpdateUser
<1>2. CASE ~Allowed(u, value)
  BY <1>1, <1>2 DEF AnAdministratorRemains, Admins
<1>3. CASE Allowed(u, value)
  <2>1. users' = [users EXCEPT ![u] = value]
    BY <1>1, <1>3 DEF Store
  <2>2. Remaining(u) \subseteq Admins'
    BY <2>1 DEF Remaining, Admins, AccountsTypeOK
  <2>3. CASE value.role = "admin" /\ value.enabled
    BY <2>1, <2>3 DEF AnAdministratorRemains, Admins, AccountsTypeOK
  <2>4. CASE u \in Admins /\ ~(value.role = "admin" /\ value.enabled)
    BY <1>3, <2>2, <2>4 DEF Allowed, AnAdministratorRemains
  <2>5. CASE u \notin Admins
    BY <2>2, <2>5 DEF Remaining, AnAdministratorRemains
  <2>6. QED
    BY <2>3, <2>4, <2>5
<1>4. QED
  BY <1>2, <1>3

\* Of any number of administrators who demote, disable and remove each other at
\* the same time, one who can sign in remains.
THEOREM OneAdministratorRemains == AccountsSpec => []AnAdministratorRemains
<1>1. AccountsInit => AnAdministratorRemains
  BY AccountsAssumption DEF AccountsInit, AnAdministratorRemains, Admins
<1>2. ASSUME AccountsTypeOK, AnAdministratorRemains, [AccountsNext]_accounts
      PROVE  AnAdministratorRemains'
  <2>1. CASE UNCHANGED users
    BY <1>2, <2>1 DEF AnAdministratorRemains, Admins
  <2>2. ASSUME NEW c \in Clients, ChangePassword(c) PROVE AnAdministratorRemains'
    BY <1>2, <2>2, PasswordKeepsAdmins DEF AnAdministratorRemains
  <2>3. ASSUME NEW c \in Clients, UpdateUser(c) PROVE AnAdministratorRemains'
    BY <1>2, <2>3, EditKeepsAnAdmin
  <2>4. QED
    BY <1>2, <2>1, <2>2, <2>3
       DEF AccountsNext, Handle, FindUser, authorize, Refuse, CreateSession,
           DropOldSession, DeleteSession, Command, Receive, Expire, accounts
<1>3. QED
  BY <1>1, <1>2, TypeCorrect, PTL DEF AccountsSpec

-----------------------------------------------------------------------------
\* A user who is given a new password, or is edited or removed, has no session.
LEMMA RewrittenUserHasNoSession ==
  ASSUME AccountsTypeOK, SessionsAreCurrent, NEW u,
         \A v \in Users : v # u => users'[v] = users[v],
         sessions' = {s \in sessions : s.user # u}
  PROVE  SessionsAreCurrent'
  BY DEF SessionsAreCurrent, AccountsTypeOK, Session, Active

\* Whatever a sign-in or a password form read before an edit: no session is ever
\* of a disabled or removed account, or of another password than its user has.
THEOREM SessionsStayCurrent == AccountsSpec => []SessionsAreCurrent
<1>1. AccountsInit => SessionsAreCurrent
  BY DEF AccountsInit, SessionsAreCurrent, Active
<1>2. ASSUME AccountsTypeOK, SessionsAreCurrent, [AccountsNext]_accounts
      PROVE  SessionsAreCurrent'
  <2>1. CASE UNCHANGED users /\ sessions' \subseteq sessions
    BY <1>2, <2>1 DEF SessionsAreCurrent, Active
  <2>2. ASSUME NEW c \in Clients, ChangePassword(c) PROVE SessionsAreCurrent'
    <3>1. CASE UNCHANGED <<users, sessions>>
      BY <2>1, <3>1
    <3>2. CASE ~UNCHANGED <<users, sessions>>
      <4>1. /\ users' = [users EXCEPT ![req[c].user].hash = @ + 1,
                                      ![req[c].user].must = FALSE]
            /\ sessions' = {s \in sessions : s.user # req[c].user}
        BY <2>2, <3>2 DEF ChangePassword
      <4>2. \A v \in Users : v # req[c].user => users'[v] = users[v]
        BY <1>2, <4>1 DEF AccountsTypeOK
      <4>3. QED
        BY <1>2, <4>1, <4>2, RewrittenUserHasNoSession
    <3>3. QED
      BY <3>1, <3>2
  <2>3. ASSUME NEW c \in Clients, CreateSession(c) PROVE SessionsAreCurrent'
    <3>1. CASE Unchanged(req[c].user, req[c].hash)
      <4>1. \A s \in sessions' : \/ s \in sessions
                                 \/ s = [token |-> lastToken + 1, user |-> req[c].user,
                                         hash |-> req[c].hash]
        BY <2>3, <3>1 DEF CreateSession, Newest
      <4>2. UNCHANGED users
        BY <2>3 DEF CreateSession
      <4>3. QED
        BY <1>2, <3>1, <4>1, <4>2 DEF SessionsAreCurrent, Unchanged, Active
    <3>2. CASE ~Unchanged(req[c].user, req[c].hash)
      BY <2>1, <2>3, <3>2 DEF CreateSession
    <3>3. QED
      BY <3>1, <3>2
  <2>4. ASSUME NEW c \in Clients, UpdateUser(c) PROVE SessionsAreCurrent'
    <3>1. PICK u, value :
          /\ u \in Users /\ value \in Edits(u)
          /\ IF Allowed(u, value) THEN Store(u, value)
               ELSE UNCHANGED <<users, sessions>>
      BY <2>4 DEF UpdateUser
    <3>2. CASE Allowed(u, value)
      <4>1. \A v \in Users : v # u => users'[v] = users[v]
        BY <1>2, <3>1, <3>2 DEF Store, AccountsTypeOK
      <4>2. QED
        BY <1>2, <3>1, <3>2, <4>1, RewrittenUserHasNoSession DEF Store
    <3>3. CASE ~Allowed(u, value)
      BY <2>1, <3>1, <3>3
    <3>4. QED
      BY <3>2, <3>3
  <2>5. ASSUME NEW c \in Clients, FindUser(c) \/ authorize(c) \/ Refuse(c)
                 \/ DropOldSession(c) \/ DeleteSession(c) \/ Command(c) \/ Receive(c)
        PROVE  SessionsAreCurrent'
    BY <2>1, <2>5
       DEF FindUser, authorize, Refuse, DropOldSession, DeleteSession, Without,
           Command, Receive
  <2>6. CASE Expire
    BY <2>1, <2>6 DEF Expire
  <2>7. CASE UNCHANGED accounts
    BY <2>1, <2>7 DEF accounts
  <2>8. QED
    BY <1>2, <2>2, <2>3, <2>4, <2>5, <2>6, <2>7 DEF AccountsNext, Handle
<1>3. QED
  BY <1>1, <1>2, TypeCorrect, PTL DEF AccountsSpec

-----------------------------------------------------------------------------
(***************************************************************************)
(* The page.                                                               *)
(***************************************************************************)
\* The sessions the page may yet come to show, but for one it is being given.
Known == {session.token, refresh.token, refresh.value.token, jar[Page]}

\* The page's command has made a session that the page has not been told of.
Given == req[Page].pc = "created" \/ At(Page, {"login", "password"}, "ok")

\* What the page ended was given out, is nowhere on its way back to the page, and
\* is not the session that it is being given, which nobody knows yet.
OverInv ==
  /\ over \subseteq 0..lastToken /\ req[Page].token \in 0..lastToken
  /\ \A t \in Known : t \in 0..lastToken /\ (t # 0 => t \notin over)
  /\ Given => req[Page].reply.token \in (1..lastToken) \ (over \union Known)

\* A command that is sent with a known csrf token is a request.
LEMMA SendType ==
  ASSUME AccountsTypeOK, NEW op \in {"login", "password", "logout", "edit"},
         NEW user \in Users \union {"none"}, NEW csrf \in 0..MaxTokens,
         op = "login" => user \in Users, Send(Page, op, user, csrf)
  PROVE  RequestsTypeOK'
<1>1. Page \in Clients /\ jar[Page] \in 0..MaxTokens
  BY PageAssumption DEF AccountsTypeOK
<1>2. [Idle EXCEPT !.op = op, !.pc = "sent", !.token = jar[Page], !.csrf = csrf,
                   !.user = user] \in Request
  BY <1>1, RequestType DEF Idle, Request
<1>3. QED
  BY <1>1, <1>2 DEF Send, AccountsTypeOK, RequestsTypeOK, At, Idle

\* What the page is told of a session: its own token, or nothing.
LEMMA SessionOfType ==
  ASSUME AccountsTypeOK, NEW token \in 0..MaxTokens
  PROVE  /\ SessionOf(token) \in Said
         /\ SessionOf(token).token \in {0, token}
<1>1. CASE LoadSession(token) = {}
  BY <1>1, AccountsAssumption DEF SessionOf, Anonymous, Said
<1>2. CASE LoadSession(token) # {}
  <2> DEFINE s == CHOOSE s \in LoadSession(token) : TRUE
  <2>1. s \in sessions
    BY <1>2 DEF LoadSession
  <2>2. users[s.user] \in User
    BY <2>1 DEF AccountsTypeOK, Session
  <2>3. SessionOf(token) =
          [token |-> token, role |-> users[s.user].role, must |-> users[s.user].must]
    BY <1>2 DEF SessionOf
  <2>4. QED
    BY <2>2, <2>3 DEF User, Said
<1>3. QED
  BY <1>1, <1>2

\* Every step of the page and of the world around it keeps the types of the
\* accounts.
LEMMA PageTypeStep == TypeOK /\ [Next]_vars => AccountsTypeOK'
<1> SUFFICES ASSUME TypeOK, [Next]_vars PROVE AccountsTypeOK'
  OBVIOUS
<1>a. AccountsTypeOK /\ Page \in Clients
  BY PageAssumption DEF TypeOK
<1>1. CASE UNCHANGED accounts
  BY <1>a, <1>1, TypeStep
<1>2. CASE Handle(Page) \/ Expire \/ Receive(Page)
  BY <1>a, <1>2, TypeStep DEF AccountsNext
<1>3. CASE Login \/ SubmitPassword \/ Logout \/ EditUser
  <2>1. session.token \in 0..MaxTokens
    BY DEF TypeOK
  <2>2. RequestsTypeOK'
    <3>1. CASE Login
      BY <1>a, <2>1, <3>1, SendType, PageAssumption DEF Login
    <3>2. CASE SubmitPassword \/ Logout \/ EditUser
      BY <1>a, <2>1, <3>2, SendType DEF SubmitPassword, Logout, EditUser
    <3>3. QED
      BY <1>3, <3>1, <3>2
  <2>3. UNCHANGED <<users, sessions, lastToken, edits, jar>>
    BY <1>3 DEF Login, SubmitPassword, Logout, EditUser
  <2>4. QED
    BY <1>a, <2>2, <2>3 DEF AccountsTypeOK
<1>4. CASE EditElsewhere
  <2>1. PICK u, value : u \in Users /\ value \in Edits(u) /\ Store(u, value)
    BY <1>4 DEF EditElsewhere
  <2>2. users' \in [Users -> User] /\ sessions' \subseteq Session
    BY <1>a, <2>1, EditsType DEF Store, AccountsTypeOK
  <2>3. edits' \in 0..MaxEdits
    BY <1>a, <1>4, AccountsAssumption DEF EditElsewhere, AccountsTypeOK
  <2>4. RequestsTypeOK'
    BY <1>a, <1>4 DEF EditElsewhere, AccountsTypeOK, RequestsTypeOK, At
  <2>5. QED
    BY <1>a, <1>4, <2>2, <2>3, <2>4 DEF EditElsewhere, AccountsTypeOK
<1>5. CASE Answer
  <2>1. Receive(Page)
    BY <1>5 DEF Answer, Receive
  <2>2. QED
    BY <1>2, <2>1
<1>6. QED
  BY <1>1, <1>2, <1>3, <1>4, <1>5
     DEF Next, StartRefresh, ReadSession, ApplySession, RefreshFails, AnswerLost, Get,
         requireAuth, GetAnswer, GetFails, vars

\* What a request for the session is when it is sent, and when there is none.
LEMMA RefreshIs ==
  /\ \A t : Asked(t).pc = "asked" /\ Asked(t).token = t /\ Asked(t).value = Anonymous
  /\ NoRefresh.pc = "none" /\ NoRefresh.token = 0 /\ NoRefresh.value = Anonymous
  /\ ReadSession => /\ refresh'.pc = "read" /\ refresh'.token = 0
                    /\ refresh'.value = SessionOf(refresh.token)
  /\ Anonymous.token = 0
<1>1. \A t : /\ Asked(t).pc = "asked" /\ Asked(t).token = t
             /\ Asked(t).value = Anonymous
  <2> TAKE t
  <2>1. QED
    BY DEF Asked, NoRefresh
<1>2. NoRefresh.pc = "none" /\ NoRefresh.token = 0 /\ NoRefresh.value = Anonymous
  BY DEF NoRefresh
<1>3. ReadSession => /\ refresh'.pc = "read" /\ refresh'.token = 0
                     /\ refresh'.value = SessionOf(refresh.token)
  <2> DEFINE v == SessionOf(refresh.token)
  <2>1. ReadSession => refresh' = [NoRefresh EXCEPT !.pc = "read", !.value = v]
    BY DEF ReadSession
  <2> HIDE DEF v
  <2>2. QED
    BY <2>1 DEF NoRefresh, v
<1>4. Anonymous.token = 0
  BY DEF Anonymous
<1>5. QED
  BY <1>1, <1>2, <1>3, <1>4

\* Every variable of the page keeps its type, and a page that has an answer shows
\* no spinner.
LEMMA PageStep == TypeOK /\ [Next]_vars => TypeOK'
<1> SUFFICES ASSUME TypeOK, [Next]_vars PROVE TypeOK'
  OBVIOUS
<1>a. /\ AccountsTypeOK /\ AccountsTypeOK'
      /\ jar[Page] \in 0..MaxTokens /\ 0 \in 0..MaxTokens
      /\ req[Page].reply \in Said /\ req[Page].token \in 0..MaxTokens
  BY PageTypeStep, RequestType, PageAssumption, AccountsAssumption
     DEF TypeOK, AccountsTypeOK, Request
<1>b. Anonymous \in Said
  BY <1>a DEF Anonymous, Said
<1>c. /\ session \in Said /\ refresh.value \in Said
      /\ refresh.pc \in {"none", "asked", "read"} /\ refresh.token \in 0..MaxTokens
      /\ session.token \in 0..MaxTokens
  BY DEF TypeOK, Said
<1>d. ASSUME session' \in Said, refresh'.value \in Said,
             refresh'.pc \in {"none", "asked", "read"}, refresh'.token \in 0..MaxTokens,
             get'.pc \in {"none", "sent", "401", "change"}, over' \subseteq 0..MaxTokens,
             \/ UNCHANGED <<loading, ready, error>>
             \/ loading' = FALSE /\ ready' \in {TRUE, ready} /\ error' \in BOOLEAN
      PROVE  TypeOK'
  <2>1. (ready => ~loading) /\ {loading, ready, error} \subseteq BOOLEAN
    BY DEF TypeOK
  <2>2. {loading', ready', error'} \subseteq BOOLEAN
    <3>1. CASE UNCHANGED <<loading, ready, error>>
      BY <2>1, <3>1
    <3>2. CASE loading' = FALSE /\ ready' \in {TRUE, ready} /\ error' \in BOOLEAN
      BY <2>1, <3>2
    <3>3. QED
      BY <1>d, <3>1, <3>2
  <2>3. ready' => ~loading'
    BY <1>d, <2>1
  <2>4. {session', refresh'.value} \subseteq Said
    BY <1>d
  <2>5. QED
    BY <1>a, <1>d, <2>2, <2>3, <2>4 DEF TypeOK, Said
<1>1. CASE UNCHANGED page
  BY <1>a, <1>1 DEF TypeOK, page
<1>2. CASE Answer
  <2>1. get'.pc \in {"none", "sent", "401", "change"} /\ over \subseteq 0..MaxTokens
    BY <1>2 DEF Answer, TypeOK
  <2>2. CASE accept(req[Page].reply) /\ over' = over \union ({session.token} \ {0})
    <3>1. session' \in Said /\ refresh' = NoRefresh
      BY <1>a, <2>2 DEF accept
    <3>2. over' \subseteq 0..MaxTokens
      BY <1>c, <2>1, <2>2
    <3>3. loading' = FALSE /\ ready' = TRUE /\ error' = FALSE
      BY <2>2 DEF accept
    <3>4. QED
      BY <1>a, <1>b, <1>d, <2>1, <3>1, <3>2, <3>3, RefreshIs
  <2>3. ASSUME NEW t \in 0..MaxTokens, SignOut(t), over' \subseteq 0..MaxTokens
        PROVE  TypeOK'
    <3>1. session' = Anonymous /\ refresh' = Asked(t)
      BY <2>3 DEF SignOut
    <3>2. loading' = FALSE /\ ready' = TRUE /\ error' = FALSE
      BY <2>3 DEF SignOut
    <3>3. QED
      BY <1>b, <1>d, <2>1, <2>3, <3>1, <3>2, RefreshIs
  <2>4. CASE SignOut(0) /\ over' = over \union {req[Page].token}
    BY <1>a, <2>1, <2>3, <2>4
  <2>5. CASE SignOut(jar[Page]) /\ UNCHANGED over
    BY <1>a, <2>1, <2>3, <2>5
  <2>6. CASE /\ refresh' = Asked(jar[Page])
             /\ UNCHANGED <<session, loading, ready, error, over>>
    BY <1>a, <1>b, <1>c, <1>d, <2>1, <2>6, RefreshIs
  <2>7. CASE UNCHANGED <<session, loading, ready, error, refresh, over>>
    BY <1>c, <1>d, <2>1, <2>7
  <2>8. QED
    BY <1>2, <2>2, <2>4, <2>5, <2>6, <2>7 DEF Answer
<1>3. CASE StartRefresh \/ RefreshFails \/ ApplySession
  <2>1. session' \in Said /\ refresh' \in {Asked(jar[Page]), NoRefresh}
    BY <1>c, <1>3 DEF StartRefresh, RefreshFails, ApplySession
  <2>2. \/ UNCHANGED <<loading, ready, error>>
        \/ loading' = FALSE /\ ready' \in {TRUE, ready} /\ error' \in BOOLEAN
    BY <1>3 DEF StartRefresh, RefreshFails, ApplySession
  <2>3. get'.pc \in {"none", "sent", "401", "change"} /\ over' \subseteq 0..MaxTokens
    BY <1>3 DEF StartRefresh, RefreshFails, ApplySession, TypeOK
  <2>4. QED
    BY <1>a, <1>b, <1>d, <2>1, <2>2, <2>3, RefreshIs
<1>4. CASE ReadSession
  <2>1. SessionOf(refresh.token) \in Said
    BY <1>a, SessionOfType DEF TypeOK
  <2>2. QED
    BY <1>a, <1>4, <2>1, RefreshIs DEF ReadSession, TypeOK, Said
<1>5. CASE Get \/ requireAuth \/ GetFails
  BY <1>a, <1>5 DEF Get, requireAuth, GetFails, TypeOK, NoGet
<1>6. CASE GetAnswer
  <2>1. get'.pc = "none" /\ over' \subseteq 0..MaxTokens
    BY <1>6 DEF GetAnswer, NoGet, TypeOK
  <2>2. session' \in Said /\ refresh' = Asked(jar[Page])
    BY <1>b, <1>c, <1>6 DEF GetAnswer, SignOut
  <2>3. \/ UNCHANGED <<loading, ready, error>>
        \/ loading' = FALSE /\ ready' = TRUE /\ error' = FALSE
    BY <1>6 DEF GetAnswer, SignOut
  <2>4. QED
    BY <1>a, <1>b, <1>d, <2>1, <2>2, <2>3, RefreshIs
<1>7. QED
  BY <1>1, <1>2, <1>3, <1>4, <1>5, <1>6
     DEF Next, Expire, EditElsewhere, Login, SubmitPassword, Logout, EditUser,
         AnswerLost, vars

\* The first state of the page.
LEMMA PageInit == Init => TypeOK
<1> SUFFICES ASSUME Init PROVE TypeOK
  OBVIOUS
<1>1. AccountsTypeOK /\ jar[Page] \in 0..MaxTokens
  BY TypeInit, PageAssumption DEF Init, AccountsTypeOK
<1>2. refresh.pc = "asked" /\ refresh.token = jar[Page] /\ refresh.value = Anonymous
  BY RefreshIs DEF Init
<1>3. Anonymous \in Said
  BY AccountsAssumption DEF Anonymous, Said
<1>4. QED
  BY <1>1, <1>2, <1>3 DEF Init, TypeOK, NoGet, Said

\* The types of the page and of the accounts under it, for every edit elsewhere and
\* every order of requests and answers.
THEOREM PageTypeCorrect == Spec => []TypeOK
<1>1. QED
  BY PageInit, PageStep, PTL DEF Spec

-----------------------------------------------------------------------------
\* A command that is not answered yet tells the page of no session but a new one.
LEMMA HandleKeepsOver ==
  ASSUME TypeOK, OverInv, Handle(Page), UNCHANGED page
  PROVE  OverInv'
<1> DEFINE r == req[Page]
<1> DEFINE n == req'[Page]
<1>a. /\ Page \in Clients /\ req \in [Clients -> Request] /\ r \in Request
      /\ lastToken \in Nat
  BY PageAssumption, AccountsAssumption DEF TypeOK, AccountsTypeOK, RequestsTypeOK
<1>b. UNCHANGED <<over, session, refresh, jar>>
  BY DEF Handle, FindUser, authorize, Refuse, ChangePassword, CreateSession,
         DropOldSession, DeleteSession, UpdateUser, page
<1>1. CASE /\ UNCHANGED lastToken /\ n.token \in {0, r.token}
           /\ \/ n.pc # "created" /\ (n.op \in {"login", "password"} => n.pc # "ok")
              \/ r.pc = "created" /\ n.reply = r.reply
  BY <1>a, <1>b, <1>1 DEF OverInv, Given, Known, At
<1>2. ASSUME NEW pc \in {"401", "change", "failed"}, Reply(Page, pc), UNCHANGED lastToken
      PROVE  OverInv'
  <2>1. n = [Idle EXCEPT !.op = r.op, !.pc = pc]
    BY <1>a, <1>2 DEF Reply
  <2>2. n.token = 0 /\ n.pc = pc
    BY <2>1 DEF Idle
  <2>3. QED
    BY <1>1, <1>2, <2>2
<1>3. ASSUME Succeed(Page), UNCHANGED lastToken,
             r.pc = "created" \/ r.op \notin {"login", "password"}
      PROVE  OverInv'
  <2>1. n = [Idle EXCEPT !.op = r.op, !.pc = "ok", !.token = r.token, !.reply = r.reply]
    BY <1>a, <1>3 DEF Succeed
  <2>2. n.token = r.token /\ n.pc = "ok" /\ n.op = r.op /\ n.reply = r.reply
    BY <2>1 DEF Idle
  <2>3. QED
    BY <1>1, <1>3, <2>2
<1>4. CASE FindUser(Page) \/ authorize(Page)
  <2>1. CASE \E pc \in {"401", "change", "failed"} : Reply(Page, pc)
    BY <1>2, <1>4, <2>1 DEF FindUser, authorize
  <2>2. CASE ~ \E pc \in {"401", "change", "failed"} : Reply(Page, pc)
    <3>1. n.pc = "authorized" /\ n.token = r.token
      <4>1. PICK said, user, hash :
              \/ req' = [req EXCEPT ![Page].pc = "authorized", ![Page].hash = hash,
                                    ![Page].reply = said]
              \/ req' = [req EXCEPT ![Page].pc = "authorized", ![Page].user = user,
                                    ![Page].hash = hash, ![Page].reply = said]
        <5>1. CASE FindUser(Page)
          BY <2>2, <5>1 DEF FindUser
        <5>2. CASE authorize(Page)
          <6>1. PICK s : req' = [req EXCEPT ![Page].pc = "authorized",
                           ![Page].user = s.user, ![Page].hash = users[s.user].hash,
                           ![Page].reply = [token |-> 0, role |-> users[s.user].role,
                                            must |-> users[s.user].must]]
            BY <2>2, <5>2 DEF authorize
          <6>2. QED
            BY <6>1
        <5>3. QED
          BY <1>4, <5>1, <5>2
      <4>2. QED
        BY <1>a, <4>1 DEF Request
    <3>2. UNCHANGED lastToken
      BY <1>4 DEF FindUser, authorize
    <3>3. QED
      BY <1>1, <3>1, <3>2
  <2>3. QED
    BY <2>1, <2>2
<1>5. CASE Refuse(Page)
  BY <1>2, <1>5 DEF Refuse
<1>6. CASE ChangePassword(Page)
  <2>1. CASE Reply(Page, "failed")
    BY <1>2, <1>6, <2>1 DEF ChangePassword
  <2>2. CASE ~Reply(Page, "failed")
    <3>1. n.pc = "changed" /\ n.token = r.token
      BY <1>a, <1>6, <2>2 DEF ChangePassword, Request
    <3>2. QED
      BY <1>1, <1>6, <3>1 DEF ChangePassword
  <2>3. QED
    BY <2>1, <2>2
<1>7. CASE CreateSession(Page)
  <2>1. CASE Reply(Page, "401") /\ UNCHANGED lastToken
    BY <1>2, <2>1
  <2>2. CASE ~(Reply(Page, "401") /\ UNCHANGED lastToken)
    <3>1. lastToken' = lastToken + 1 /\ n.token = r.token
      BY <1>a, <1>7, <2>2 DEF CreateSession, Request
    <3>2. n.reply.token = lastToken + 1
      BY <1>a, <1>7, <2>2 DEF CreateSession, Request, Said
    <3>3. QED
      BY <1>a, <1>b, <3>1, <3>2 DEF OverInv, Given, Known, At
  <2>3. QED
    BY <2>1, <2>2
<1>8. CASE DropOldSession(Page)
  BY <1>3, <1>8 DEF DropOldSession
<1>9. CASE DeleteSession(Page)
  BY <1>3, <1>9 DEF DeleteSession, At
<1>10. CASE UpdateUser(Page)
  <2>1. CASE Succeed(Page)
    BY <1>3, <1>10, <2>1 DEF UpdateUser, At
  <2>2. CASE ~Succeed(Page)
    BY <1>2, <1>10, <2>2 DEF UpdateUser
  <2>3. QED
    BY <2>1, <2>2
<1>11. QED
  BY <1>4, <1>5, <1>6, <1>7, <1>8, <1>9, <1>10 DEF Handle

\* The answer of a sign-in or of a new password puts the session that was shown
\* aside, the answer of a logout the one of the cookie; each overtakes the request
\* for the session.
LEMMA AnswerKeepsOver ==
  ASSUME TypeOK, OverInv, Answer \/ AnswerLost
  PROVE  OverInv'
<1>a. /\ Page \in Clients /\ lastToken \in Nat /\ jar \in [Clients -> 0..MaxTokens]
      /\ req \in [Clients -> Request]
  BY PageAssumption, AccountsAssumption DEF TypeOK, AccountsTypeOK, RequestsTypeOK
<1>b. /\ UNCHANGED lastToken /\ req'[Page] = Idle
  BY <1>a DEF Answer, AnswerLost, Receive, Finish
<1>c. req'[Page].token = 0 /\ ~Given'
  BY <1>b DEF Given, At, Idle
<1>f. \/ jar'[Page] \in {0, jar[Page]}
      \/ Given /\ jar'[Page] = req[Page].reply.token
  BY <1>a DEF Answer, AnswerLost, Receive, KeepCookie, Given, At
<1>1. CASE UNCHANGED <<session, refresh, over>>
  BY <1>a, <1>b, <1>c, <1>f, <1>1 DEF OverInv, Known
<1>2. CASE /\ req[Page].pc = "ok" /\ req[Page].op \in {"login", "password"}
           /\ KeepCookie(Page) /\ accept(req[Page].reply)
           /\ over' = over \union ({session.token} \ {0})
  <2>1. Given /\ jar'[Page] = req[Page].reply.token
    BY <1>a, <1>2 DEF Given, At, KeepCookie
  <2>2. Known' = {req[Page].reply.token, 0}
    BY <1>2, RefreshIs, <2>1 DEF accept, Known
  <2>3. /\ session.token \in 0..lastToken
        /\ req[Page].reply.token \in 1..lastToken
        /\ req[Page].reply.token \notin over
        /\ req[Page].reply.token # session.token
    BY <2>1 DEF OverInv, Known
  <2>4. req[Page].reply.token \notin over' /\ over' \subseteq 0..lastToken
    BY <1>2, <2>3 DEF OverInv
  <2>5. QED
    BY <1>a, <1>b, <1>c, <2>2, <2>3, <2>4 DEF OverInv
<1>3. CASE /\ req[Page].pc = "ok" /\ req[Page].op = "logout"
           /\ KeepCookie(Page) /\ SignOut(0)
           /\ over' = over \union {req[Page].token}
  <2>1. jar'[Page] = 0
    BY <1>a, <1>3 DEF KeepCookie
  <2>2. Known' = {0}
    BY <1>3, RefreshIs, <2>1 DEF SignOut, Known
  <2>3. over' \subseteq 0..lastToken
    BY <1>3 DEF OverInv
  <2>4. QED
    BY <1>a, <1>b, <1>c, <2>2, <2>3 DEF OverInv
<1>4. CASE /\ SignOut(jar[Page]) \/ (refresh' = Asked(jar[Page]) /\ UNCHANGED session)
           /\ UNCHANGED over
  <2>1. session'.token \in {0, session.token}
    BY <1>4, RefreshIs DEF SignOut
  <2>2. refresh'.token = jar[Page] /\ refresh'.value.token = 0
    BY <1>4, RefreshIs DEF SignOut
  <2>3. QED
    BY <1>a, <1>b, <1>c, <1>f, <1>4, <2>1, <2>2 DEF OverInv, Known
<1>5. QED
  BY <1>1, <1>2, <1>3, <1>4 DEF Answer, AnswerLost, page

\* The refreshes ask with the cookie and bring back what it stands for.
LEMMA RefreshKeepsOver ==
  ASSUME TypeOK, OverInv,
         StartRefresh \/ ReadSession \/ ApplySession \/ RefreshFails \/ GetAnswer
  PROVE  OverInv'
<1>a. /\ lastToken \in Nat /\ AccountsTypeOK /\ refresh.token \in 0..MaxTokens
  BY AccountsAssumption DEF TypeOK, AccountsTypeOK
<1>b. UNCHANGED <<lastToken, jar, req, over>>
  BY DEF StartRefresh, ReadSession, ApplySession, RefreshFails, GetAnswer, accounts
<1>1. session'.token \in {0, session.token, refresh.value.token}
  BY RefreshIs DEF StartRefresh, ReadSession, ApplySession, RefreshFails, GetAnswer, SignOut
<1>2. refresh'.token \in {0, jar[Page], refresh.token}
  BY RefreshIs DEF StartRefresh, ApplySession, RefreshFails, GetAnswer, SignOut
<1>3. refresh'.value.token \in {0, refresh.token, refresh.value.token}
  <2>1. CASE ReadSession
    <3>1. refresh'.value = SessionOf(refresh.token)
      BY <2>1, RefreshIs
    <3>2. QED
      BY <1>a, <3>1, SessionOfType
  <2>2. CASE StartRefresh \/ ApplySession \/ RefreshFails \/ GetAnswer
    BY <2>2, RefreshIs DEF StartRefresh, ApplySession, RefreshFails, GetAnswer, SignOut
  <2>3. QED
    BY <2>1, <2>2
<1>4. Known' \subseteq Known \union {0}
  BY <1>b, <1>1, <1>2, <1>3 DEF Known
<1>5. QED
  BY <1>a, <1>b, <1>4 DEF OverInv, Given, At

\* A new command comes with the cookie.
LEMMA SendKeepsOver ==
  ASSUME TypeOK, OverInv, Login \/ SubmitPassword \/ Logout \/ EditUser
  PROVE  OverInv'
<1>1. PICK op, user : Send(Page, op, user, session.token)
  BY DEF Login, SubmitPassword, Logout, EditUser
<1>2. Page \in Clients /\ req \in [Clients -> Request]
  BY PageAssumption DEF TypeOK, AccountsTypeOK, RequestsTypeOK
<1>3. req'[Page].token = jar[Page] /\ req'[Page].pc = "sent"
  BY <1>1, <1>2 DEF Send, Idle
<1>4. UNCHANGED <<lastToken, jar, page>>
  BY DEF Login, SubmitPassword, Logout, EditUser
<1>5. QED
  BY <1>3, <1>4 DEF OverInv, Given, At, Known, page

\* No step of the page or of the world around it breaks OverInv.
LEMMA OverStep == TypeOK /\ OverInv /\ [Next]_vars => OverInv'
<1> SUFFICES ASSUME TypeOK, OverInv, [Next]_vars PROVE OverInv'
  OBVIOUS
<1>1. CASE UNCHANGED <<lastToken, jar, req, session, refresh, over>>
  BY <1>1 DEF OverInv, Given, At, Known
<1>2. QED
  BY <1>1, HandleKeepsOver, AnswerKeepsOver, RefreshKeepsOver, SendKeepsOver
     DEF Next, Expire, EditElsewhere, Get, requireAuth, GetFails, vars, accounts, page

\* However late an answer about it comes, and whatever happens to the accounts in
\* the meantime: a session that the page has ended is never on its screen again.
THEOREM EndedAlwaysStaysEnded == Spec => []EndedStaysEnded
<1>1. Init => OverInv
  <2> SUFFICES ASSUME Init PROVE OverInv
    OBVIOUS
  <2>1. Cardinality(Clients) \in Nat
    BY FS_CardinalityType, AccountsAssumption
  <2>2. /\ jar[Page] \in 0..lastToken /\ lastToken \in Nat
        /\ req[Page] = Idle /\ over = {} /\ session = Anonymous
    BY <2>1, PageAssumption DEF Init, AccountsInit
  <2>3. refresh.token = jar[Page] /\ refresh.value.token = 0
    BY DEF Init, Asked, NoRefresh, Anonymous
  <2>4. QED
    BY <2>2, <2>3 DEF OverInv, Known, Given, At, Idle, Anonymous
<1>2. OverInv => EndedStaysEnded
  BY DEF OverInv, Known, EndedStaysEnded
<1>3. QED
  BY <1>1, <1>2, OverStep, PageTypeCorrect, PTL DEF Spec
=============================================================================
