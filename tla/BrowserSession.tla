--------------------------- MODULE BrowserSession ---------------------------
(***************************************************************************)
(* The session as a page of the console knows it, over the accounts and    *)
(* sessions of the server.  AuthProvider keeps a copy of the session with  *)
(* its csrf token, asks for it again and again, takes it from the answers  *)
(* of a login and a password change, and throws it away when any request   *)
(* is answered 401; the router shows the login page, the password form or  *)
(* the tabs accordingly.  Answers arrive in any order: `revision' drops    *)
(* those that something newer has overtaken.                               *)
(*                                                                         *)
(* The page is the only client that acts here (in Accounts several do).  A *)
(* request for the session has no effect once it is overtaken: only the    *)
(* last is kept.                                                           *)
(***************************************************************************)
EXTENDS Accounts

CONSTANTS
  Page,   \* the client
  Mine    \* the users whose password the visitor knows

ASSUME PageAssumption == Page \in Clients /\ Mine \subseteq Users

VARIABLES
  session,  \* session and csrfToken: what the page shows and sends
  loading,  \* loading
  ready,    \* ready
  error,    \* error # ''
  refresh,  \* the latest request of GET /api/auth/session
  get,      \* a request of a tab in progress
  over      \* history: the sessions the page has ended itself

page == <<session, loading, ready, error, refresh, get, over>>
vars == <<accounts, page>>

NoRefresh == [pc |-> "none", token |-> 0, value |-> Anonymous]
NoGet == [pc |-> "none", token |-> 0]

-----------------------------------------------------------------------------
(***************************************************************************)
(* AuthProvider.                                                           *)
(***************************************************************************)
\* Fault: a session that is taken from an answer does not overtake a request.
acceptBesideRefresh(value) ==
  /\ session' = value
  /\ ready' = TRUE /\ error' = FALSE /\ loading' = FALSE
  /\ UNCHANGED refresh

accept(value) ==
  /\ session' = value
  /\ ready' = TRUE /\ error' = FALSE /\ loading' = FALSE
  /\ refresh' = NoRefresh

Asked(token) == [NoRefresh EXCEPT !.pc = "asked", !.token = token]

\* accept(anonymous) and refresh(), after a logout and on cg:unauthorized.
SignOut(token) ==
  /\ session' = Anonymous
  /\ ready' = TRUE /\ error' = FALSE /\ loading' = FALSE
  /\ refresh' = Asked(token)

\* Fault: the timer runs while nobody is signed in.
StartRefreshSignedOut ==
  /\ session.role = "none"
  /\ refresh' = Asked(jar[Page])
  /\ UNCHANGED <<accounts, session, loading, ready, error, get, over>>

\* The timer, the focus of the window, cg:session-refresh and the button retry.
StartRefresh ==
  /\ refresh' = Asked(jar[Page])
  /\ UNCHANGED <<accounts, session, loading, ready, error, get, over>>

\* authSession
ReadSession ==
  /\ refresh.pc = "asked"
  /\ refresh' = [NoRefresh EXCEPT !.pc = "read",
                                     !.value = SessionOf(refresh.token)]
  /\ UNCHANGED <<accounts, session, loading, ready, error, get, over>>

ApplySession ==
  /\ refresh.pc = "read"
  /\ session' = refresh.value
  /\ ready' = TRUE /\ error' = FALSE /\ loading' = FALSE
  /\ refresh' = NoRefresh
  /\ UNCHANGED <<accounts, get, over>>

RefreshFails ==
  /\ refresh.pc # "none"
  /\ error' = TRUE /\ loading' = FALSE
  /\ refresh' = NoRefresh
  /\ UNCHANGED <<accounts, session, ready, get, over>>

\* SessionReady, RequireSession, Login and Admin: what is on the screen.
Screen(s) ==
  IF loading THEN "loading"
  ELSE IF error /\ ~ready THEN "retry"
  ELSE IF s.role = "none" THEN "login"
  ELSE IF s.must THEN "password"
  ELSE s.role

\* The tabs of Admin: a reader is shown the ones that are not ownerOnly.
OwnerTabs == {"monitoring", "settings", "notifications", "users", "audit",
              "config", "operations", "updates"}
Tabs(s) ==
  IF Screen(s) \notin {"admin", "user"} THEN {}
  ELSE {"overview", "providers", "tasks", "billing", "account"} \union
       (IF Screen(s) = "admin" THEN OwnerTabs ELSE {})

-----------------------------------------------------------------------------
(***************************************************************************)
(* The commands of the page.                                               *)
(***************************************************************************)
\* Login.submit
Login ==
  /\ Screen(session) = "login"
  /\ \E u \in Mine : Send(Page, "login", u, session.token)
  /\ UNCHANGED <<users, sessions, lastToken, edits, jar, page>>

\* ChangePassword.submit, on the login page or in the tab account.
SubmitPassword ==
  /\ Screen(session) = "password" \/ "account" \in Tabs(session)
  /\ Send(Page, "password", "none", session.token)
  /\ UNCHANGED <<users, sessions, lastToken, edits, jar, page>>

\* exit, on the login page or in the header of the console.
Logout ==
  /\ Screen(session) = "password" \/ Tabs(session) # {}
  /\ Send(Page, "logout", "none", session.token)
  /\ UNCHANGED <<users, sessions, lastToken, edits, jar, page>>

\* UsersTab.remove and UserEditor.submit; the server chooses among the inputs.
EditUser ==
  /\ "users" \in Tabs(session)
  /\ Send(Page, "edit", "none", session.token)
  /\ UNCHANGED <<users, sessions, lastToken, edits, jar, page>>

\* The answer of a command: request() tells AuthProvider of a 401 unless the
\* command is a login, and of a password that must be changed.
Answer ==
  /\ req[Page].pc \in Answered
  /\ KeepCookie(Page)
  /\ Finish(Page)
  /\ \/ /\ req[Page].pc = "ok" /\ req[Page].op \in {"login", "password"}
        /\ accept(req[Page].reply)
        /\ over' = over \union ({session.token} \ {0})
     \/ /\ req[Page].pc = "ok" /\ req[Page].op = "logout"
        /\ SignOut(0)
        /\ over' = over \union {req[Page].token}
     \/ /\ req[Page].pc = "401" /\ req[Page].op # "login"
        /\ SignOut(jar[Page])
        /\ UNCHANGED over
     \/ /\ req[Page].pc = "change"
        /\ refresh' = Asked(jar[Page])
        /\ UNCHANGED <<session, loading, ready, error, over>>
     \/ /\ \/ req[Page].pc = "failed"
           \/ req[Page].pc = "401" /\ req[Page].op = "login"
           \/ req[Page].pc = "ok" /\ req[Page].op = "edit"
        /\ UNCHANGED <<session, loading, ready, error, refresh, over>>
  /\ UNCHANGED <<users, sessions, lastToken, edits, get>>

\* The answer is lost, before its cookie or after it.
AnswerLost == Receive(Page) /\ UNCHANGED page

-----------------------------------------------------------------------------
(***************************************************************************)
(* A tab's own request.  Only a refusal matters here, and it may be late.  *)
(***************************************************************************)
Get ==
  /\ get.pc = "none" /\ Tabs(session) # {}
  /\ get' = [pc |-> "sent", token |-> jar[Page]]
  /\ UNCHANGED <<accounts, session, loading, ready, error, refresh, over>>

requireAuth ==
  /\ get.pc = "sent"
  /\ LET s == SessionOf(get.token) IN
     get' = IF s = Anonymous THEN [NoGet EXCEPT !.pc = "401"]
           ELSE IF s.must THEN [NoGet EXCEPT !.pc = "change"]
           ELSE NoGet
  /\ UNCHANGED <<accounts, session, loading, ready, error, refresh, over>>

GetAnswer ==
  /\ get.pc \in {"401", "change"}
  /\ get' = NoGet
  /\ \/ get.pc = "401" /\ SignOut(jar[Page])
     \/ /\ get.pc = "change"
        /\ refresh' = Asked(jar[Page])
        /\ UNCHANGED <<session, loading, ready, error>>
  /\ UNCHANGED <<accounts, over>>

GetFails ==
  /\ get.pc # "none"
  /\ get' = NoGet
  /\ UNCHANGED <<accounts, session, loading, ready, error, refresh, over>>

-----------------------------------------------------------------------------
(***************************************************************************)
(* The rest of the world: an administrator on another client, whose edit   *)
(* is a transaction.                                                       *)
(***************************************************************************)
EditElsewhere ==
  /\ edits < MaxEdits
  /\ \E u \in Users : \E value \in Edits(u) :
       Allowed(u, value) /\ Store(u, value)
  /\ edits' = edits + 1
  /\ UNCHANGED <<lastToken, jar, req, page>>

Init ==
  /\ AccountsInit
  /\ \A s \in sessions : s.user \in Mine
  /\ session = Anonymous
  /\ loading = TRUE /\ ready = FALSE /\ error = FALSE
  /\ refresh = Asked(jar[Page])
  /\ get = NoGet
  /\ over = {}

Next ==
  \/ Handle(Page) /\ UNCHANGED page
  \/ Expire /\ UNCHANGED page
  \/ EditElsewhere
  \/ StartRefresh \/ ReadSession \/ ApplySession \/ RefreshFails
  \/ Login \/ SubmitPassword \/ Logout \/ EditUser \/ Answer \/ AnswerLost
  \/ Get \/ requireAuth \/ GetAnswer \/ GetFails

\* The timer runs; of the requests for the session that it makes, some are
\* answered before the next; the page's other requests end.
Fairness ==
  /\ WF_vars(StartRefresh)
  /\ SF_vars(ReadSession) /\ SF_vars(ApplySession)
  /\ WF_vars(Handle(Page) /\ UNCHANGED page)
  /\ WF_vars(Answer) /\ WF_vars(requireAuth \/ GetAnswer)

Spec == Init /\ [][Next]_vars /\ Fairness
-----------------------------------------------------------------------------
(***************************************************************************)
(* Properties.                                                             *)
(***************************************************************************)
\* The type of every variable; a page that has an answer shows no spinner.
TypeOK ==
  /\ AccountsTypeOK
  /\ ready => ~loading
  /\ {loading, ready, error} \subseteq BOOLEAN
  /\ {session, refresh.value} \subseteq
       [token : 0..MaxTokens, role : {"admin", "user", "none"}, must : BOOLEAN]
  /\ refresh.pc \in {"none", "asked", "read"} /\ refresh.token \in 0..MaxTokens
  /\ get.pc \in {"none", "sent", "401", "change"}
  /\ over \subseteq 0..MaxTokens

\* A session that the page has ended by a logout or has replaced by a new one is
\* never shown again, however late an answer about it comes.
EndedStaysEnded == session.token # 0 => session.token \notin over

\* When the accounts are left alone, the page comes to show what its session may
\* do: a demotion, a revocation and a lost answer all reach it.
PageCatchesUp ==
  <>[](Screen(session) = Screen(SessionOf(jar[Page])) /\ session = SessionOf(jar[Page]))
=============================================================================
