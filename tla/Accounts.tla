------------------------------ MODULE Accounts ------------------------------
(***************************************************************************)
(* The accounts and the sessions of the server: the handlers of            *)
(* /api/auth/... and of /api/admin/users, and the SQLite transactions they *)
(* are made of.  A handler reads the session first and changes the         *)
(* database later, in one or several transactions; handlers of different   *)
(* clients interleave, so what it read may have changed: an administrator  *)
(* edits, disables, removes and re-creates users all the while.            *)
(*                                                                         *)
(* A password is the number of times the user was given one (its salted    *)
(* hash never repeats); a session token and its csrf token are one number. *)
(* An account that is removed and created again is a new one of the same   *)
(* name.  A client has one command in progress.                            *)
(***************************************************************************)
EXTENDS Integers, FiniteSets

CONSTANTS
  Users,         \* user names
  Clients,       \* cookie jars
  MaxTokens,     \* bound on the sessions ever created
  MaxHash,       \* bound on the passwords given to a user
  MaxEdits,      \* bound on the edits of users
  SessionLimit   \* sessions CreateSession leaves a user

ASSUME AccountsAssumption ==
  /\ Users # {} /\ IsFiniteSet(Clients)
  /\ MaxTokens \in Nat /\ Cardinality(Clients) <= MaxTokens
  /\ MaxHash \in Nat \ {0} /\ MaxEdits \in Nat
  /\ SessionLimit \in Nat \ {0}

VARIABLES
  users,      \* the table users
  sessions,   \* the table sessions; hash is the password it was created with
  lastToken,  \* history: the last token given out
  edits,      \* history: the edits made
  jar,        \* the session cookie of each client, 0 for none
  req         \* the command of each client and its handler

accounts == <<users, sessions, lastToken, edits, jar, req>>

Tokens == 1..MaxTokens
User == [role : {"admin", "user", "none"}, enabled : BOOLEAN, must : BOOLEAN,
         hash : 1..MaxHash]
Session == [token : Tokens, user : Users, hash : 1..MaxHash]

\* What a session answer says of the user; Anonymous is the answer without one.
Anonymous == [token |-> 0, role |-> "none", must |-> FALSE]
Idle == [op |-> "none", pc |-> "idle", token |-> 0, csrf |-> 0, user |-> "none",
         hash |-> 0, reply |-> Anonymous]

Active(u) == users[u].role # "none" /\ users[u].enabled
Admins == {u \in Users : users[u].role = "admin" /\ users[u].enabled}

\* LoadSession: the session of a token, whose user must be enabled.
LoadSession(token) == {s \in sessions : s.token = token /\ Active(s.user)}
SessionOf(token) ==
  IF LoadSession(token) = {} THEN Anonymous
  ELSE LET s == CHOOSE s \in LoadSession(token) : TRUE
       IN [token |-> token, role |-> users[s.user].role, must |-> users[s.user].must]

-----------------------------------------------------------------------------
(***************************************************************************)
(* The handlers.  A command is sent, authorized, changed, created and      *)
(* answered; pc says how it was answered.                                  *)
(***************************************************************************)
At(c, ops, pc) == req[c].op \in ops /\ req[c].pc = pc
Reply(c, pc) ==
  req' = [req EXCEPT ![c] = [Idle EXCEPT !.op = req[c].op, !.pc = pc]]
Succeed(c) ==
  req' = [req EXCEPT ![c] = [Idle EXCEPT !.op = req[c].op, !.pc = "ok",
                               !.token = req[c].token, !.reply = req[c].reply]]

Send(c, op, user, csrf) ==
  /\ req[c] = Idle
  /\ req' = [req EXCEPT ![c] = [Idle EXCEPT !.op = op, !.pc = "sent",
               !.token = jar[c], !.csrf = csrf, !.user = user]]

\* authLogin up to the password check.
FindUser(c) ==
  /\ At(c, {"login"}, "sent")
  /\ LET u == req[c].user IN
     IF Active(u)
       THEN req' = [req EXCEPT ![c].pc = "authorized", ![c].hash = users[u].hash,
                      ![c].reply = [token |-> 0, role |-> users[u].role,
                                    must |-> users[u].must]]
       ELSE Reply(c, "401")
  /\ UNCHANGED <<users, sessions, lastToken, edits, jar>>

\* authorize: logout and the password form need no more than a session.
authorize(c) ==
  /\ At(c, {"password", "logout", "edit"}, "sent")
  /\ LET found == LoadSession(req[c].token) IN
     \/ found = {} /\ Reply(c, "401")
     \/ \E s \in found :
          \/ req[c].op = "edit" /\ users[s.user].must /\ Reply(c, "change")
          \/ /\ req[c].op = "edit" => ~users[s.user].must
             /\ \/ req[c].op = "edit" /\ users[s.user].role # "admin"
                \/ req[c].csrf # s.token
             /\ Reply(c, "failed")
          \/ /\ req[c].op = "edit" => ~users[s.user].must /\ users[s.user].role = "admin"
             /\ req[c].csrf = s.token
             /\ req' = [req EXCEPT ![c].pc = "authorized", ![c].user = s.user,
                          ![c].hash = users[s.user].hash,
                          ![c].reply = [token |-> 0, role |-> users[s.user].role,
                                        must |-> users[s.user].must]]
  /\ UNCHANGED <<users, sessions, lastToken, edits, jar>>

\* A refusal that changes nothing: too many attempts, a wrong password, a bad
\* input, a database that fails.
Refuse(c) ==
  /\ req[c].pc \in {"sent", "authorized", "changed"}
  /\ Reply(c, "failed")
  /\ UNCHANGED <<users, sessions, lastToken, edits, jar>>

\* Fault: the new password is written whatever the password is by now.
UncheckedPassword(u, hash) == Active(u)

\* The condition of ChangePassword and CreateSession.
Unchanged(u, hash) == Active(u) /\ users[u].hash = hash

ChangePassword(c) ==
  /\ At(c, {"password"}, "authorized")
  /\ LET u == req[c].user IN
     IF Unchanged(u, req[c].hash)
       THEN /\ users[u].hash < MaxHash
            /\ users' = [users EXCEPT ![u].hash = @ + 1, ![u].must = FALSE]
            /\ sessions' = {s \in sessions : s.user # u}
            /\ req' = [req EXCEPT ![c].pc = "changed", ![c].hash = users[u].hash + 1,
                                  ![c].reply.must = FALSE]
       ELSE Reply(c, "failed") /\ UNCHANGED <<users, sessions>>
  /\ UNCHANGED <<lastToken, edits, jar>>

\* The sessions a user keeps when one is added: the last SessionLimit.
Newest(S, u) ==
  {s \in S : s.user # u \/
     Cardinality({t \in S : t.user = u /\ t.token > s.token}) < SessionLimit}

\* CreateSession for the user as the handler read it.
CreateSession(c) ==
  /\ At(c, {"login"}, "authorized") \/ At(c, {"password"}, "changed")
  /\ LET u == req[c].user
         new == [token |-> lastToken + 1, user |-> u, hash |-> req[c].hash]
     IN IF Unchanged(u, req[c].hash)
          THEN /\ lastToken < MaxTokens
               /\ lastToken' = lastToken + 1
               /\ sessions' = Newest(sessions \union {new}, u)
               /\ req' = [req EXCEPT ![c].pc = "created",
                                     ![c].reply.token = lastToken + 1]
          ELSE Reply(c, "401") /\ UNCHANGED <<sessions, lastToken>>
  /\ UNCHANGED <<users, edits, jar>>

Without(token) == {s \in sessions : s.token # token}

\* The end of issueSession: the session the client came with is over.
DropOldSession(c) ==
  /\ req[c].pc = "created"
  /\ sessions' = Without(req[c].token)
  /\ Succeed(c)
  /\ UNCHANGED <<users, lastToken, edits, jar>>

DeleteSession(c) ==
  /\ At(c, {"logout"}, "authorized")
  /\ sessions' = Without(req[c].token)
  /\ Succeed(c)
  /\ UNCHANGED <<users, lastToken, edits, jar>>

\* Fault: the administrators that remain include the one that is changed.
RemainingWithSelf(u) == Admins

Remaining(u) == Admins \ {u}

\* What a user may become: created or removed, or with a role, switched on or off
\* and perhaps with a new password, which he must change.
Removed(u) == [users[u] EXCEPT !.role = "none", !.enabled = FALSE]
Edited(u, role, enabled, reset) ==
  [role |-> role, enabled |-> enabled, must |-> users[u].must \/ reset,
   hash |-> IF reset THEN users[u].hash + 1 ELSE users[u].hash]

Store(u, value) ==
  /\ users' = [users EXCEPT ![u] = value]
  /\ sessions' = {s \in sessions : s.user # u}

Edits(u) ==
  LET created == users[u].role = "none"
      resets == {r \in BOOLEAN : (r => users[u].hash < MaxHash) /\ (created => r)}
  IN {Edited(u, role, enabled, reset) :
        role \in {"admin", "user"}, enabled \in BOOLEAN, reset \in resets}
     \union (IF created THEN {} ELSE {Removed(u)})

\* The last administrator stays.
Allowed(u, value) ==
  u \in Admins /\ ~(value.role = "admin" /\ value.enabled) => Remaining(u) # {}

\* adminUsers and adminUserItem: to create a user, or to update or remove any
\* user but oneself.
UpdateUser(c) ==
  /\ At(c, {"edit"}, "authorized")
  /\ edits < MaxEdits
  /\ \E u \in Users \ {req[c].user} : \E value \in Edits(u) :
       IF Allowed(u, value)
         THEN Store(u, value) /\ Succeed(c) /\ edits' = edits + 1
         ELSE Reply(c, "failed") /\ UNCHANGED <<users, sessions, edits>>
  /\ UNCHANGED <<lastToken, jar>>

\* A session reaches its end.
Expire ==
  /\ \E s \in sessions : sessions' = sessions \ {s}
  /\ UNCHANGED <<users, lastToken, edits, jar, req>>

Handle(c) ==
  \/ FindUser(c) \/ authorize(c) \/ Refuse(c) \/ ChangePassword(c)
  \/ CreateSession(c) \/ DropOldSession(c) \/ DeleteSession(c)
  \/ UpdateUser(c)

-----------------------------------------------------------------------------
(***************************************************************************)
(* The client: its commands, their answers and its cookie.                 *)
(***************************************************************************)
Answered == {"ok", "401", "change", "failed"}

\* The browser keeps the cookie of an answer, whatever the page does with it.
KeepCookie(c) ==
  jar' = IF req[c].pc = "ok" /\ req[c].op \in {"login", "password"}
           THEN [jar EXCEPT ![c] = req[c].reply.token]
         ELSE IF req[c].pc = "ok" /\ req[c].op = "logout"
           THEN [jar EXCEPT ![c] = 0]
         ELSE jar

Finish(c) == req' = [req EXCEPT ![c] = Idle]

\* The answer arrives, or it is lost before its cookie or after it.
Receive(c) ==
  /\ req[c].pc \in Answered
  /\ KeepCookie(c) \/ UNCHANGED jar
  /\ Finish(c)
  /\ UNCHANGED <<users, sessions, lastToken, edits>>

\* Any command may be sent, with the csrf token of the cookie.
Command(c) ==
  /\ \/ \E u \in Users : Send(c, "login", u, jar[c])
     \/ \E op \in {"password", "logout", "edit"} :
          jar[c] # 0 /\ Send(c, op, "none", jar[c])
  /\ UNCHANGED <<users, sessions, lastToken, edits, jar>>

\* The service has run for a while: every user is an administrator, and each
\* client has signed in as another one.
AccountsInit ==
  /\ \E f \in [Clients -> Users], t \in [Clients -> 1..Cardinality(Clients)] :
       /\ \A c, d \in Clients : c # d => f[c] # f[d] /\ t[c] # t[d]
       /\ jar = t
       /\ sessions = {[token |-> t[c], user |-> f[c], hash |-> 1] : c \in Clients}
  /\ users = [u \in Users |-> [role |-> "admin", enabled |-> TRUE, must |-> FALSE,
                               hash |-> 1]]
  /\ lastToken = Cardinality(Clients)
  /\ edits = 0
  /\ req = [c \in Clients |-> Idle]

AccountsNext ==
  \/ \E c \in Clients : Handle(c) \/ Command(c) \/ Receive(c)
  \/ Expire

AccountsSpec == AccountsInit /\ [][AccountsNext]_accounts
-----------------------------------------------------------------------------
(***************************************************************************)
(* Properties.                                                             *)
(***************************************************************************)
Said == [token : 0..MaxTokens, role : {"admin", "user", "none"}, must : BOOLEAN]
Request ==
  [op : {"none", "login", "password", "logout", "edit"},
   pc : {"idle", "sent", "authorized", "changed", "created"} \union Answered,
   token : 0..MaxTokens, csrf : 0..MaxTokens, user : Users \union {"none"},
   hash : 0..MaxHash, reply : Said]

\* A handler that is past the session check knows whose account it is about.
RequestsTypeOK ==
  /\ req \in [Clients -> Request]
  /\ \A c \in Clients :
       req[c].pc \in {"authorized", "changed"} \/ At(c, {"login"}, "sent") =>
         req[c].user \in Users

\* The type of every variable.
AccountsTypeOK ==
  /\ users \in [Users -> User]
  /\ sessions \subseteq Session
  /\ lastToken \in 0..MaxTokens /\ edits \in 0..MaxEdits
  /\ jar \in [Clients -> 0..MaxTokens]
  /\ RequestsTypeOK

\* Whatever administrators do to each other at the same time, one who can sign in
\* remains.
AnAdministratorRemains == Admins # {}

\* No session outlives the password it was made with, or its user's account: one
\* created from what a handler read before an edit is refused.
SessionsAreCurrent ==
  \A s \in sessions : Active(s.user) /\ s.hash = users[s.user].hash
=============================================================================
