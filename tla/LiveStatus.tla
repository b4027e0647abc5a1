----------------------------- MODULE LiveStatus -----------------------------
(***************************************************************************)
(* The status page and the two ways it learns of a report: GET             *)
(* /api/status, asked by a timer or by the refresh button, and the event   *)
(* stream /api/events.  startStatusUpdates keeps a poll timer while no     *)
(* stream is live and a reconnect timer while no stream is open, and uses  *)
(* a revision to drop answers that something newer has overtaken; the      *)
(* server's Broker has room for one report per stream and replaces it.     *)
(*                                                                         *)
(* A report is its number in the order the server stored them; 0 is the    *)
(* report of a server that has not checked yet.  The length of a delay is  *)
(* not modelled, only whether its timer is set.  A page that is left and   *)
(* opened again starts a new controller, so one visit is modelled.         *)
(***************************************************************************)
EXTENDS Integers, Sequences

CONSTANTS
  MaxReports,  \* bound on the reports stored during the visit
  MaxWire      \* events the connection holds before the server's write blocks

ASSUME LiveStatusAssumption ==
  /\ MaxReports \in Nat
  /\ MaxWire \in Nat \ {0}

VARIABLES
  stored,          \* the report in SQLite
  unpublished,     \* it is stored and Publish has not been called for it
  allowed,         \* the session may see the status page
  revokedAt,       \* history: the report stored when it stopped to
  supported,       \* the browser has an EventSource
  mounted,         \* the page is on the screen: ~closed
  live,            \* live
  pollTimer,       \* pollTimer is set
  reconnectTimer,  \* reconnectTimer is set
  stream,          \* the connection and the server's handler at its other end
  fetch,           \* the requests of GET /api/status in progress
  shown,           \* the report the page has, None before the first
  error,           \* the page has a message of a failed request
  refreshing,      \* the refresh button is disabled
  signedOut        \* cg:unauthorized was dispatched

server == <<stored, unpublished, allowed, revokedAt>>
timers == <<live, pollTimer, reconnectTimer>>
page == <<shown, error>>
vars == <<server, supported, mounted, timers, stream, fetch, page, refreshing,
          signedOut>>

None == -1
Report == 0..MaxReports
AuthRequired == MaxReports + 1   \* the event auth-required
Callers == {"poll", "button"}

NoStream == [pc |-> "none", chan |-> None, held |-> None, wire |-> <<>>]
Opening == [NoStream EXCEPT !.pc = "opening"]
NoFetch == [pc |-> "idle", current |-> FALSE, value |-> None]
Asked == [pc |-> "asked", current |-> TRUE, value |-> None]

pending(f) == {c \in Callers : f[c].pc # "idle"}

\* `revision' moves on: no request in progress is the last thing that happened.
Overtaken(f) == [c \in Callers |-> [f[c] EXCEPT !.current = FALSE, !.value = None]]

-----------------------------------------------------------------------------
(***************************************************************************)
(* The controller's own operations.                                        *)
(***************************************************************************)
refresh(caller) ==
  /\ pollTimer' = FALSE
  /\ fetch' = [Overtaken(fetch) EXCEPT ![caller] = Asked]

\* Fault: a page whose request is in progress does not plan its reconnection.
disconnectedWhenIdle(f) ==
  /\ live' = FALSE
  /\ stream' = NoStream
  /\ pollTimer' = (pollTimer \/ pending(f) = {})
  /\ reconnectTimer' = (reconnectTimer \/ (supported /\ pending(f) = {}))

\* disconnected, and the requests f that are in progress then.
disconnected(f) ==
  /\ live' = FALSE
  /\ stream' = NoStream
  /\ pollTimer' = (pollTimer \/ pending(f) = {})
  /\ reconnectTimer' = (reconnectTimer \/ supported)

\* Fault: only an answer plans the next poll, a failure does not.
schedulePollOnce(f, answered) ==
  pollTimer' = (pollTimer \/ (answered /\ ~live /\ pending(f) = {}))

\* schedulePoll after a request has ended and left the requests f.
schedulePoll(f, answered) ==
  pollTimer' = (pollTimer \/ (~live /\ pending(f) = {}))

\* startStatusUpdates: poll() and connect(); creating the source may throw.
Init ==
  /\ stored \in Report
  /\ unpublished = FALSE
  /\ allowed = TRUE
  /\ revokedAt = None
  /\ supported \in BOOLEAN
  /\ mounted = TRUE
  /\ live = FALSE
  /\ pollTimer = FALSE
  /\ fetch = [c \in Callers |-> IF c = "poll" THEN Asked ELSE NoFetch]
  /\ \/ supported /\ stream = Opening /\ reconnectTimer = FALSE
     \/ stream = NoStream /\ reconnectTimer = supported
  /\ shown = None
  /\ error = FALSE
  /\ refreshing = FALSE
  /\ signedOut = FALSE

\* handleRefresh: the button, disabled until its request has ended.
HandleRefresh ==
  /\ mounted /\ ~refreshing
  /\ refreshing' = TRUE
  /\ refresh("button")
  /\ UNCHANGED <<server, supported, mounted, live, reconnectTimer, stream, page,
                 signedOut>>

poll ==
  /\ pollTimer
  /\ IF ~live /\ pending(fetch) = {}
       THEN refresh("poll")
       ELSE pollTimer' = FALSE /\ UNCHANGED fetch
  /\ UNCHANGED <<server, supported, mounted, live, reconnectTimer, stream, page,
                 refreshing, signedOut>>

connect ==
  /\ reconnectTimer
  /\ \/ /\ stream' = Opening
        /\ reconnectTimer' = FALSE
        /\ UNCHANGED <<live, pollTimer>>
     \/ disconnected(fetch)
  /\ UNCHANGED <<server, supported, mounted, fetch, page, refreshing, signedOut>>

-----------------------------------------------------------------------------
(***************************************************************************)
(* GET /api/status: the server checks the session, then reads the report.  *)
(***************************************************************************)
CheckStatusAccess(c) ==
  /\ fetch[c].pc = "asked"
  /\ fetch' = [fetch EXCEPT ![c].pc = IF allowed THEN "allowed" ELSE "denied"]
  /\ UNCHANGED <<server, supported, mounted, timers, stream, page, refreshing,
                 signedOut>>

ReadStatus(c) ==
  /\ fetch[c].pc = "allowed"
  /\ fetch' = [fetch EXCEPT ![c].pc = "read",
                            ![c].value = IF fetch[c].current THEN stored ELSE None]
  /\ UNCHANGED <<server, supported, mounted, timers, stream, page, refreshing,
                 signedOut>>

\* The end of a request: the `finally' of refresh and of handleRefresh.
Ended(c, answered) ==
  /\ fetch' = [fetch EXCEPT ![c] = NoFetch]
  /\ schedulePoll(fetch', answered)
  /\ refreshing' = (refreshing /\ c # "button")

Answer(c) ==
  /\ fetch[c].pc = "read"
  /\ Ended(c, TRUE)
  /\ IF fetch[c].current THEN shown' = fetch[c].value /\ error' = FALSE
                         ELSE UNCHANGED page
  /\ UNCHANGED <<server, supported, mounted, live, reconnectTimer, stream,
                 signedOut>>

Refused(c) ==
  /\ Ended(c, FALSE)
  /\ error' = (error \/ fetch[c].current)
  /\ UNCHANGED <<server, supported, mounted, live, reconnectTimer, stream, shown>>

\* decodeResponse dispatches cg:unauthorized for a 401.
Deny(c) ==
  /\ fetch[c].pc = "denied"
  /\ signedOut' = TRUE
  /\ Refused(c)

\* The request or its answer is lost.
Fail(c) ==
  /\ fetch[c].pc # "idle"
  /\ Refused(c)
  /\ UNCHANGED signedOut

-----------------------------------------------------------------------------
(***************************************************************************)
(* The event stream, the server's side.                                    *)
(***************************************************************************)
Enter(pc) == stream' = [stream EXCEPT !.pc = pc]
Deliver(event) == Append(stream.wire, event)

\* The channel is registered before the report is read.
Subscribe ==
  /\ stream.pc = "opening"
  /\ Enter(IF allowed THEN "subscribed" ELSE "ended")
  /\ UNCHANGED <<server, supported, mounted, timers, fetch, page, refreshing,
                 signedOut>>

\* The first report; a read that fails leaves the stream without one.
ReadFirst ==
  /\ stream.pc = "subscribed"
  /\ \/ stream' = [stream EXCEPT !.pc = "check", !.held = stored]
     \/ Enter("loop")
  /\ UNCHANGED <<server, supported, mounted, timers, fetch, page, refreshing,
                 signedOut>>

Take ==
  /\ stream.pc = "loop" /\ stream.chan # None
  /\ stream' = [stream EXCEPT !.pc = "check", !.held = stream.chan, !.chan = None]
  /\ UNCHANGED <<server, supported, mounted, timers, fetch, page, refreshing,
                 signedOut>>

\* Fault: the session is checked when the stream opens and not again.
AuthorizedAtFirst == TRUE

streamAuthorized == allowed

\* streamAuthorized between taking a report and writing it.
Authorize ==
  /\ stream.pc = "check"
  /\ IF streamAuthorized
       THEN Enter("write")
       ELSE /\ Len(stream.wire) < MaxWire
            /\ stream' = [stream EXCEPT !.pc = "ended", !.held = None,
                                        !.wire = Deliver(AuthRequired)]
  /\ UNCHANGED <<server, supported, mounted, timers, fetch, page, refreshing,
                 signedOut>>

WriteSSE ==
  /\ stream.pc = "write" /\ Len(stream.wire) < MaxWire
  /\ stream' = [stream EXCEPT !.pc = "loop", !.held = None,
                              !.wire = Deliver(stream.held)]
  /\ UNCHANGED <<server, supported, mounted, timers, fetch, page, refreshing,
                 signedOut>>

\* The keep-alive timer; a comment is not an event, so only a refusal shows.
KeepAlive ==
  /\ stream.pc = "loop"
  /\ ~streamAuthorized
  /\ Len(stream.wire) < MaxWire
  /\ stream' = [stream EXCEPT !.pc = "ended", !.wire = Deliver(AuthRequired)]
  /\ UNCHANGED <<server, supported, mounted, timers, fetch, page, refreshing,
                 signedOut>>

-----------------------------------------------------------------------------
(***************************************************************************)
(* The event stream, the page's side.                                      *)
(***************************************************************************)
\* Fault: an event does not make the requests in progress void.
OvertakenByEvent(f) == f

Event(f) == Overtaken(f)

OnMessage ==
  /\ stream.wire # <<>> /\ Head(stream.wire) # AuthRequired
  /\ fetch' = Event(fetch)
  /\ live' = TRUE
  /\ pollTimer' = FALSE /\ reconnectTimer' = FALSE
  /\ shown' = Head(stream.wire) /\ error' = FALSE
  /\ stream' = [stream EXCEPT !.wire = Tail(stream.wire)]
  /\ UNCHANGED <<server, supported, mounted, refreshing, signedOut>>

OnAuthRequired ==
  /\ stream.wire # <<>> /\ Head(stream.wire) = AuthRequired
  /\ disconnected(fetch)
  /\ signedOut' = TRUE
  /\ UNCHANGED <<server, supported, mounted, fetch, page, refreshing>>

\* The connection breaks, or an event cannot be read.
OnError ==
  /\ stream.pc # "none"
  /\ disconnected(fetch)
  /\ UNCHANGED <<server, supported, mounted, fetch, page, refreshing, signedOut>>

\* The page is left: the user goes elsewhere, or the router sends him to the
\* login page.  The controller is closed.
Close ==
  /\ mounted
  /\ mounted' = FALSE
  /\ live' = FALSE /\ pollTimer' = FALSE /\ reconnectTimer' = FALSE
  /\ stream' = NoStream
  /\ fetch' = [c \in Callers |-> NoFetch]
  /\ refreshing' = FALSE
  /\ UNCHANGED <<server, supported, page, signedOut>>

-----------------------------------------------------------------------------
(***************************************************************************)
(* The server: a check stores a report and then publishes it, both under   *)
(* configMu, where a settings change publishes too.                        *)
(***************************************************************************)
Record ==
  /\ ~unpublished /\ stored < MaxReports
  /\ stored' = stored + 1
  /\ unpublished' = TRUE
  /\ UNCHANGED <<allowed, revokedAt, supported, mounted, timers, stream, fetch,
                 page, refreshing, signedOut>>

\* Fault: a full channel keeps the report it has.
OfferToRoom(old, value) == IF old = None THEN value ELSE old

\* Broker.Publish to one client: a full channel gives up the report it has.
Offer(old, value) == value

Push ==
  stream' = IF stream.pc \in {"none", "opening", "ended"} THEN stream
            ELSE [stream EXCEPT !.chan = Offer(stream.chan, stored)]

Publish ==
  /\ unpublished
  /\ unpublished' = FALSE
  /\ Push
  /\ UNCHANGED <<stored, allowed, revokedAt, supported, mounted, timers, fetch,
                 page, refreshing, signedOut>>

\* A settings change publishes the stored report again, with configMu held.
publishLatest ==
  /\ ~unpublished
  /\ Push
  /\ UNCHANGED <<server, supported, mounted, timers, fetch, page, refreshing,
                 signedOut>>

\* The session is revoked, or the status page is made private.
Revoke ==
  /\ allowed
  /\ allowed' = FALSE
  /\ revokedAt' = stored
  /\ UNCHANGED <<stored, unpublished, supported, mounted, timers, stream, fetch,
                 page, refreshing, signedOut>>

\* The service is restarted: its streams end, and a report that was stored is
\* not published any more.
Restart ==
  /\ unpublished' = FALSE
  /\ stream' = IF stream.pc = "none" THEN stream
               ELSE [stream EXCEPT !.pc = "ended", !.chan = None, !.held = None]
  /\ UNCHANGED <<stored, allowed, revokedAt, supported, mounted, timers, fetch,
                 page, refreshing, signedOut>>

Stream == Subscribe \/ ReadFirst \/ Take \/ Authorize \/ WriteSSE \/ KeepAlive

Next ==
  \/ HandleRefresh \/ poll \/ connect
  \/ \E c \in Callers : CheckStatusAccess(c) \/ ReadStatus(c) \/ Answer(c) \/ Deny(c) \/ Fail(c)
  \/ Stream
  \/ OnMessage \/ OnAuthRequired \/ OnError \/ Close
  \/ Record \/ Publish \/ publishLatest \/ Revoke \/ Restart

\* The server's and the browser's own steps are fair.  Every request ends (the
\* browser gives up one that is never answered), the latest request gets through
\* if it is made again and again, and the browser reports a stream that has ended.
\* What the user, the administrator and the faults do is not fair.
Fairness ==
  /\ WF_vars(poll) /\ WF_vars(connect)
  /\ \A c \in Callers : WF_vars(Answer(c) \/ Deny(c) \/ Fail(c))
  /\ SF_vars(\E c \in Callers : fetch[c].current /\ CheckStatusAccess(c))
  /\ SF_vars(\E c \in Callers : fetch[c].current /\ ReadStatus(c))
  /\ SF_vars(\E c \in Callers : fetch[c].current /\ (Answer(c) \/ Deny(c)))
  /\ WF_vars(Stream) /\ WF_vars(Publish)
  /\ WF_vars(OnMessage \/ OnAuthRequired)
  /\ WF_vars(stream.pc = "ended" /\ stream.wire = <<>> /\ OnError)
  /\ WF_vars(signedOut /\ Close)

Spec == Init /\ [][Next]_vars /\ Fairness
-----------------------------------------------------------------------------
(***************************************************************************)
(* Properties.                                                             *)
(***************************************************************************)
StreamPC == {"none", "opening", "subscribed", "check", "write", "loop", "ended"}
FetchPC == {"idle", "asked", "allowed", "denied", "read"}

Connection == [pc : StreamPC, chan : Report \union {None}, held : Report \union {None},
               wire : Seq(Report \union {AuthRequired})]
Request == [pc : FetchPC, current : BOOLEAN, value : Report \union {None}]

\* The type of every variable; the refresh button is disabled exactly while its
\* request is in progress, and at most the latest request is still of use.
TypeOK ==
  /\ stored \in Report /\ revokedAt \in Report \union {None}
  /\ unpublished \in BOOLEAN /\ allowed \in BOOLEAN
  /\ supported \in BOOLEAN /\ mounted \in BOOLEAN
  /\ live \in BOOLEAN /\ pollTimer \in BOOLEAN /\ reconnectTimer \in BOOLEAN
  /\ stream \in Connection /\ Len(stream.wire) <= MaxWire
  /\ stream.pc \in {"check", "write"} => stream.held # None
  /\ fetch \in [Callers -> Request]
  /\ refreshing = (fetch["button"].pc # "idle")
  /\ \A c, d \in Callers : fetch[c].current /\ fetch[d].current => c = d
  /\ shown \in Report \union {None} /\ error \in BOOLEAN /\ signedOut \in BOOLEAN

\* A page is never without a next step: while no stream is live a request is in
\* progress or a poll is planned, and where the browser has an EventSource a
\* stream is open or a reconnection is planned.
NeverStranded ==
  mounted => /\ live \/ pollTimer \/ pending(fetch) # {}
             /\ supported => stream.pc # "none" \/ reconnectTimer

\* Reports on their way from the server's handler to the page, oldest first.
OnTheWay ==
  stream.wire \o (IF stream.held = None THEN <<>> ELSE <<stream.held>>)
              \o (IF stream.chan = None THEN <<>> ELSE <<stream.chan>>)

\* The newest report never gets stuck behind a buffer of one: a page with a live
\* stream shows it, or it is the last of what is on the way, or it has still to
\* be published.
NewestOnTheWay ==
  live /\ stream.pc \notin {"none", "ended"} /\ ~unpublished =>
    IF OnTheWay = <<>> THEN shown = stored
                       ELSE OnTheWay[Len(OnTheWay)] = stored

\* A stream never carries a report that was stored after the session was revoked.
NothingAfterRevocation ==
  ~allowed => \A i \in 1..Len(stream.wire) :
                stream.wire[i] = AuthRequired \/ stream.wire[i] <= revokedAt

\* Only an event can take the page back to an older report (the stream's first
\* report may be newer than the one in its channel); the answer of a request,
\* however late, never does.
AnswersOnlyAdvance ==
  [][\A c \in Callers : Answer(c) => shown' >= shown]_vars

\* main: what the page shows.
View ==
  IF shown = None THEN [body |-> IF error THEN "failed" ELSE "loading", report |-> None]
  ELSE [body |-> IF shown = 0 THEN "pending" ELSE "report", report |-> shown]

\* When the server has nothing new to say, an open page comes to show its last
\* report, whatever streams broke and requests failed on the way.
Converges == <>[](~mounted \/ View.report = stored \/ ~allowed)

\* A page whose session was revoked is left, whichever of the stream, the poll
\* and the reconnection is the one to learn of it.
RevocationReachesThePage == ~allowed ~> ~mounted
=============================================================================
