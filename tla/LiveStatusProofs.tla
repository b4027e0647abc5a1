-------------------------- MODULE LiveStatusProofs --------------------------
(***************************************************************************)
(* Proofs about LiveStatus, for every number of reports and every length   *)
(* of the wire.                                                            *)
(***************************************************************************)
EXTENDS LiveStatus, TLAPS

\* No connection carries anything while there is none, and none carries a report
\* that was not stored.
ConnectionInv ==
  /\ stream.pc = "none" => stream.wire = <<>>
  /\ stream.held <= stored /\ stream.chan <= stored
  /\ \A i \in 1..Len(stream.wire) :
       stream.wire[i] = AuthRequired \/ stream.wire[i] <= stored

\* What was checked before the session was revoked and has still to be written.
RevocationInv ==
  ~allowed => /\ revokedAt \in Report
              /\ stream.pc = "write" => stream.held <= revokedAt
              /\ \A i \in 1..Len(stream.wire) :
                   stream.wire[i] = AuthRequired \/ stream.wire[i] <= revokedAt

\* An answer that is still of use is not older than what the page shows.
AnswerInv ==
  /\ shown <= stored
  /\ \A c \in Callers :
       /\ fetch[c].value <= stored
       /\ fetch[c].current /\ fetch[c].pc = "read" => shown <= fetch[c].value

\* Nothing is delivered before the stream's first report, and a page with a live
\* stream plans no other.
StageInv ==
  /\ live => ~reconnectTimer /\ stream.pc \in {"check", "write", "loop", "ended"}
  /\ stream.pc \in {"none", "opening"} => stream.chan = None
  /\ stream.pc \in {"none", "opening", "subscribed"} =>
       stream.wire = <<>> /\ stream.held = None
  /\ stream.pc = "loop" => stream.held = None

\* Where the newest report is once it was published: in the channel, then with
\* the handler, then last on the wire, then on the page, where the answer of a
\* request can only repeat it.
NewestInv ==
  ~unpublished =>
    /\ stream.pc \in {"subscribed", "check", "write", "loop"} =>
         stream.chan \in {None, stored}
    /\ stream.pc \in {"check", "write"} /\ stream.chan = None =>
         stream.held = stored
    /\ stream.pc = "loop" /\ stream.chan = None /\ stream.wire # <<>> =>
         stream.wire[Len(stream.wire)] = stored
    /\ stream.pc = "loop" /\ stream.chan = None /\ stream.wire = <<>> /\ live =>
         /\ shown = stored
         /\ \A c \in Callers :
              fetch[c].current /\ fetch[c].pc = "read" => fetch[c].value = stored

-----------------------------------------------------------------------------
\* Reports and events are numbers.
LEMMA Numbers ==
  /\ None = -1 /\ None \notin Report /\ Report \subseteq Nat
  /\ AuthRequired \in Nat /\ AuthRequired \notin Report
  BY LiveStatusAssumption DEF None, Report, AuthRequired

\* An event that is written becomes the last of the wire.
LEMMA WireAppend ==
  ASSUME NEW w \in Seq(Report \union {AuthRequired}),
         NEW e \in Report \union {AuthRequired}
  PROVE  /\ Append(w, e) \in Seq(Report \union {AuthRequired})
         /\ Append(w, e) # <<>>
         /\ Len(Append(w, e)) = Len(w) + 1
         /\ \A i \in 1..Len(Append(w, e)) :
              Append(w, e)[i] = e \/ (i \in 1..Len(w) /\ Append(w, e)[i] = w[i])
  OBVIOUS

\* An event that is received was the first of the wire.
LEMMA WireTail ==
  ASSUME NEW w \in Seq(Report \union {AuthRequired}), w # <<>>
  PROVE  /\ Tail(w) \in Seq(Report \union {AuthRequired})
         /\ Len(Tail(w)) = Len(w) - 1
         /\ \A i \in 1..Len(Tail(w)) : i + 1 \in 1..Len(w) /\ Tail(w)[i] = w[i + 1]
         /\ Head(w) = w[1] /\ 1 \in 1..Len(w)
         /\ Head(w) \in Report \union {AuthRequired}
  OBVIOUS

\* No connection is a connection.
LEMMA NoStreamType ==
  /\ NoStream \in Connection /\ NoStream.wire = <<>> /\ NoStream.pc = "none"
  /\ NoStream.held = None /\ NoStream.chan = None
  BY DEF NoStream, Connection, StreamPC

\* A connection that is being opened carries nothing yet.
LEMMA OpeningType ==
  /\ Opening \in Connection /\ Opening.wire = <<>> /\ Opening.pc = "opening"
  /\ Opening.held = None /\ Opening.chan = None
  BY NoStreamType DEF Opening, Connection, StreamPC

\* The controller's timers keep their types when it is disconnected.
LEMMA DisconnectedType ==
  ASSUME TypeOK, disconnected(fetch)
  PROVE  /\ live' \in BOOLEAN /\ pollTimer' \in BOOLEAN /\ reconnectTimer' \in BOOLEAN
         /\ stream' \in Connection /\ Len(stream'.wire) <= MaxWire
         /\ stream'.pc = "none"
<1>1. NoStream.pc = "none" /\ Len(NoStream.wire) <= MaxWire
  BY LiveStatusAssumption DEF NoStream
<1>2. live' \in BOOLEAN /\ pollTimer' \in BOOLEAN /\ reconnectTimer' \in BOOLEAN
  BY Zenon DEF TypeOK, disconnected
<1>3. QED
  BY <1>1, <1>2, NoStreamType DEF disconnected

\* A request that is made is the only one of use.
LEMMA RefreshType ==
  ASSUME TypeOK, NEW caller \in Callers, refresh(caller)
  PROVE  /\ fetch' \in [Callers -> Request]
         /\ \A c, d \in Callers : fetch'[c].current /\ fetch'[d].current => c = d
         /\ \A c \in Callers : c # caller => fetch'[c].pc = fetch[c].pc
         /\ \A c \in Callers : fetch'[c].value = None
         /\ fetch'[caller] = Asked
         /\ pollTimer' \in BOOLEAN
  BY DEF TypeOK, refresh, Overtaken, Request, FetchPC, Asked

\* A request that ends leaves the other.
LEMMA EndedType ==
  ASSUME TypeOK, NEW caller \in Callers, NEW answered \in BOOLEAN,
         Ended(caller, answered)
  PROVE  /\ fetch' \in [Callers -> Request]
         /\ \A c, d \in Callers : fetch'[c].current /\ fetch'[d].current => c = d
         /\ pollTimer' \in BOOLEAN
         /\ refreshing' = (fetch'["button"].pc # "idle")
  BY DEF TypeOK, Ended, schedulePoll, Callers, NoFetch, Request, FetchPC

\* A step of the server's handler of the stream keeps its connection typed.
LEMMA StreamType ==
  ASSUME TypeOK, Stream
  PROVE  /\ stream' \in Connection /\ Len(stream'.wire) <= MaxWire
         /\ stream'.pc \in {"check", "write"} => stream'.held # None
         /\ stream'.pc # "none"
<1> USE Numbers DEF TypeOK, Connection, StreamPC
<1>0. ASSUME NEW event \in Report \union {AuthRequired}, Len(stream.wire) < MaxWire
      PROVE  /\ Deliver(event) \in Seq(Report \union {AuthRequired})
             /\ Len(Deliver(event)) <= MaxWire
  BY <1>0, WireAppend, LiveStatusAssumption DEF Deliver
<1>1. CASE Subscribe
  BY <1>1 DEF Subscribe, Enter
<1>2. CASE ReadFirst
  BY <1>2 DEF ReadFirst, Enter
<1>3. CASE Take
  BY <1>3 DEF Take
<1>4. CASE Authorize
  <2>1. CASE streamAuthorized
    BY <1>4, <2>1 DEF Authorize, Enter
  <2>2. CASE ~streamAuthorized
    <3>1. /\ Len(stream.wire) < MaxWire
          /\ stream' = [stream EXCEPT !.pc = "ended", !.held = None,
                                      !.wire = Deliver(AuthRequired)]
      BY <1>4, <2>2 DEF Authorize
    <3>2. QED
      BY <1>0, <3>1
  <2>3. QED
    BY <2>1, <2>2
<1>5. CASE WriteSSE
  BY <1>0, <1>5 DEF WriteSSE
<1>6. CASE KeepAlive
  BY <1>0, <1>6 DEF KeepAlive
<1>7. QED
  BY <1>1, <1>2, <1>3, <1>4, <1>5, <1>6 DEF Stream

\* The first state has the right types.
LEMMA TypeInit == Init => TypeOK
<1> SUFFICES ASSUME Init PROVE TypeOK
  OBVIOUS
<1>1. stream \in Connection /\ Len(stream.wire) <= MaxWire
      /\ stream.pc \notin {"check", "write"}
  BY NoStreamType, OpeningType, LiveStatusAssumption DEF Init
<1>2. /\ fetch \in [Callers -> Request]
      /\ \A c, d \in Callers : fetch[c].current /\ fetch[d].current => c = d
      /\ fetch["button"].pc = "idle"
  BY DEF Init, Callers, Asked, NoFetch, Request, FetchPC
<1>3. QED
  BY <1>1, <1>2 DEF Init, TypeOK

\* Every step keeps the types.
LEMMA TypeStep == TypeOK /\ [Next]_vars => TypeOK'
<1> SUFFICES ASSUME TypeOK, [Next]_vars PROVE TypeOK'
  OBVIOUS
<1>1. CASE HandleRefresh
  <2>1. "button" \in Callers /\ Asked.pc # "idle"
    BY DEF Callers, Asked
  <2>2. QED
    BY <1>1, <2>1, RefreshType DEF HandleRefresh, TypeOK, server, page
<1>2. CASE poll
  <2>1. CASE refresh("poll")
    <3>1. "poll" \in Callers /\ "button" \in Callers
      BY DEF Callers
    <3>2. QED
      BY <1>2, <2>1, <3>1, RefreshType DEF poll, TypeOK, server, page
  <2>2. CASE pollTimer' = FALSE /\ UNCHANGED fetch
    BY <1>2, <2>2 DEF poll, TypeOK, server, page
  <2>3. QED
    BY <1>2, <2>1, <2>2 DEF poll
<1>3. CASE connect
  <2>1. CASE disconnected(fetch)
    BY <1>3, <2>1, DisconnectedType DEF connect, TypeOK, server, page
  <2>2. CASE stream' = Opening
    <3>1. Opening \in Connection /\ Len(Opening.wire) <= MaxWire /\ Opening.pc = "opening"
      BY OpeningType, LiveStatusAssumption
    <3>2. live' \in BOOLEAN /\ pollTimer' \in BOOLEAN /\ reconnectTimer' \in BOOLEAN
      BY <1>3, Zenon DEF connect, disconnected, TypeOK
    <3>3. QED
      BY <1>3, <2>2, <3>1, <3>2 DEF connect, TypeOK, server, page
  <2>3. QED
    BY <1>3, <2>1, <2>2 DEF connect
<1>4. ASSUME NEW c \in Callers, CheckStatusAccess(c) \/ ReadStatus(c) PROVE TypeOK'
  <2>1. /\ fetch' \in [Callers -> Request]
        /\ \A d \in Callers : /\ fetch'[d].current = fetch[d].current
                              /\ fetch'[d].pc = "idle" <=> fetch[d].pc = "idle"
    BY <1>4 DEF CheckStatusAccess, ReadStatus, TypeOK, Request, FetchPC
  <2>2. "button" \in Callers
    BY DEF Callers
  <2>3. QED
    BY <1>4, <2>1, <2>2 DEF CheckStatusAccess, ReadStatus, TypeOK, server, timers, page
<1>5. ASSUME NEW c \in Callers, Answer(c) PROVE TypeOK'
  <2>1. shown' \in Report \union {None} /\ error' \in BOOLEAN
    BY <1>5 DEF Answer, TypeOK, Request, page
  <2>2. QED
    BY <1>5, <2>1, EndedType DEF Answer, TypeOK, server
<1>6. ASSUME NEW c \in Callers, Deny(c) \/ Fail(c) PROVE TypeOK'
  <2>1. error' \in BOOLEAN /\ signedOut' \in BOOLEAN
    BY <1>6 DEF Deny, Fail, Refused, TypeOK, Request
  <2>2. Ended(c, FALSE)
    BY <1>6 DEF Deny, Fail, Refused
  <2>3. QED
    BY <1>6, <2>1, <2>2, EndedType DEF Deny, Fail, Refused, TypeOK, server
<1>7. CASE Stream
  BY <1>7, StreamType
     DEF Stream, Subscribe, ReadFirst, Take, Authorize, WriteSSE, KeepAlive,
         TypeOK, server, timers, page
<1>8. CASE OnMessage
  <2>1. /\ fetch' \in [Callers -> Request]
        /\ \A c \in Callers : fetch'[c].pc = fetch[c].pc /\ ~fetch'[c].current
    BY <1>8 DEF OnMessage, Event, Overtaken, TypeOK, Request
  <2>2. stream.wire \in Seq(Report \union {AuthRequired})
    BY DEF TypeOK, Connection
  <2>3. stream' \in Connection /\ Len(stream'.wire) <= MaxWire
        /\ stream'.pc = stream.pc /\ stream'.held = stream.held
    <3>1. /\ Tail(stream.wire) \in Seq(Report \union {AuthRequired})
          /\ Len(Tail(stream.wire)) <= MaxWire
      BY <1>8, <2>2, WireTail, LiveStatusAssumption DEF OnMessage, TypeOK
    <3>2. QED
      BY <1>8, <3>1 DEF OnMessage, TypeOK, Connection
  <2>4. shown' \in Report /\ "button" \in Callers
    BY <1>8, <2>2, WireTail DEF OnMessage, Callers
  <2>5. QED
    BY <1>8, <2>1, <2>3, <2>4 DEF OnMessage, TypeOK, server
<1>9. CASE OnAuthRequired \/ OnError
  BY <1>9, DisconnectedType DEF OnAuthRequired, OnError, TypeOK, server, page
<1>10. CASE Close
  <2>1. Len(NoStream.wire) <= MaxWire /\ NoStream.pc = "none"
    BY LiveStatusAssumption DEF NoStream
  <2>2. /\ fetch' \in [Callers -> Request]
        /\ \A c \in Callers : ~fetch'[c].current
        /\ fetch'["button"].pc = "idle"
    BY <1>10 DEF Close, Callers, NoFetch, Request, FetchPC
  <2>3. QED
    BY <1>10, <2>1, <2>2, NoStreamType DEF Close, TypeOK, server, page
<1>11. CASE Record
  <2>1. stored' \in Report
    BY <1>11, LiveStatusAssumption DEF Record, TypeOK, Report
  <2>2. QED
    BY <1>11, <2>1 DEF Record, TypeOK, timers, page
<1>12. CASE Publish \/ publishLatest
  <2>1. stream' \in Connection /\ stream'.wire = stream.wire
        /\ stream'.pc = stream.pc /\ stream'.held = stream.held
    BY <1>12 DEF Publish, publishLatest, Push, Offer, TypeOK, Connection
  <2>2. QED
    BY <1>12, <2>1 DEF Publish, publishLatest, TypeOK, server, timers, page
<1>13. CASE Revoke
  BY <1>13 DEF Revoke, TypeOK, timers, page
<1>14. CASE Restart
  <2>1. /\ stream' \in Connection /\ stream'.wire = stream.wire
        /\ stream'.pc \notin {"check", "write"}
    BY <1>14 DEF Restart, TypeOK, Connection, StreamPC
  <2>2. QED
    BY <1>14, <2>1 DEF Restart, TypeOK, timers, page
<1>15. CASE UNCHANGED vars
  BY <1>15 DEF vars, server, timers, page, TypeOK
<1>16. QED
  BY <1>1, <1>2, <1>3, <1>4, <1>5, <1>6, <1>7, <1>8, <1>9, <1>10, <1>11, <1>12,
     <1>13, <1>14, <1>15 DEF Next

\* Every variable of the page, the streams and the requests keeps its type.
THEOREM TypeCorrect == Spec => []TypeOK
<1>1. Init => TypeOK
  BY TypeInit
<1>2. TypeOK /\ [Next]_vars => TypeOK'
  BY TypeStep
<1>3. QED
  BY <1>1, <1>2, PTL DEF Spec

-----------------------------------------------------------------------------
\* No step takes what the wire, the handler and the channel hold past the report
\* in the database.
LEMMA ConnectionStep ==
  ASSUME TypeOK, ConnectionInv, [Next]_vars
  PROVE  ConnectionInv'
<1> USE Numbers
<1>a. stream.wire \in Seq(Report \union {AuthRequired})
  BY DEF TypeOK, Connection
<1>1. CASE UNCHANGED <<stored, stream>>
  BY <1>1 DEF ConnectionInv
<1>2. CASE stored' = stored /\ (stream' = NoStream \/ stream' = Opening)
  BY <1>2, NoStreamType, OpeningType DEF ConnectionInv, TypeOK
<1>3. CASE connect
  BY <1>1, <1>2, <1>3 DEF connect, disconnected, server
<1>4. CASE Subscribe
  BY <1>4 DEF Subscribe, Enter, ConnectionInv, TypeOK, Connection, server
<1>5. CASE ReadFirst
  <2>1. stored <= stored /\ stored' = stored
    BY <1>5 DEF ReadFirst, TypeOK, server
  <2>2. /\ stream'.held \in {stored, stream.held} /\ stream'.pc # "none"
        /\ stream'.chan = stream.chan /\ stream'.wire = stream.wire
    BY <1>5 DEF ReadFirst, Enter, TypeOK, Connection
  <2>3. QED
    BY <2>1, <2>2 DEF ConnectionInv
<1>6. CASE Take
  BY <1>6 DEF Take, ConnectionInv, TypeOK, Connection, server
<1>7. ASSUME NEW event \in Report \union {AuthRequired},
             event = AuthRequired \/ event <= stored,
             stream'.wire = Deliver(event), stream'.pc # "none",
             stream'.held = None, stream'.chan = stream.chan, stored' = stored
      PROVE  ConnectionInv'
  BY <1>a, <1>7, WireAppend DEF Deliver, ConnectionInv, TypeOK
<1>8. CASE Authorize
  <2>1. CASE streamAuthorized
    BY <1>8, <2>1 DEF Authorize, Enter, ConnectionInv, TypeOK, Connection, server
  <2>2. CASE ~streamAuthorized
    <3>1. stream' = [stream EXCEPT !.pc = "ended", !.held = None,
                                   !.wire = Deliver(AuthRequired)]
      BY <1>8, <2>2 DEF Authorize
    <3>2. QED
      BY <1>7, <1>8, <3>1 DEF Authorize, TypeOK, Connection, server
  <2>3. QED
    BY <2>1, <2>2
<1>9. CASE WriteSSE
  <2>1. stream.held \in Report /\ stream.held <= stored
    BY <1>9 DEF WriteSSE, TypeOK, Connection, ConnectionInv
  <2>2. QED
    BY <1>7, <1>9, <2>1 DEF WriteSSE, TypeOK, Connection, server
<1>10. CASE KeepAlive
  <2>1. /\ stream'.wire = Deliver(AuthRequired) /\ stream'.pc = "ended"
        /\ stream'.held = stream.held /\ stream'.chan = stream.chan /\ stored' = stored
    BY <1>10 DEF KeepAlive, TypeOK, Connection, server
  <2>2. QED
    BY <1>a, <2>1, WireAppend DEF Deliver, ConnectionInv, TypeOK
<1>11. CASE OnMessage
  <2>1. /\ stream'.wire = Tail(stream.wire) /\ stream'.pc = stream.pc
        /\ stream'.held = stream.held /\ stream'.chan = stream.chan
        /\ stream.wire # <<>> /\ stored' = stored
    BY <1>11 DEF OnMessage, TypeOK, Connection, server
  <2>2. QED
    BY <1>a, <2>1, WireTail DEF ConnectionInv, TypeOK
<1>12. CASE OnAuthRequired \/ OnError \/ Close
  BY <1>2, <1>12 DEF OnAuthRequired, OnError, Close, disconnected, server
<1>13. CASE Record
  <2>1. stored < stored' /\ stream' = stream
    BY <1>13 DEF Record, TypeOK
  <2>2. \A r \in Report \union {None, AuthRequired} : r <= stored => r <= stored'
    BY <1>13 DEF Record, TypeOK
  <2>3. \A i \in 1..Len(stream.wire) : stream.wire[i] \in Report \union {AuthRequired}
    BY <1>a
  <2>4. stream.held \in Report \union {None} /\ stream.chan \in Report \union {None}
    BY DEF TypeOK, Connection
  <2>5. QED
    BY <2>1, <2>2, <2>3, <2>4 DEF ConnectionInv
<1>14. CASE Publish \/ publishLatest
  BY <1>1, <1>14
     DEF Publish, publishLatest, Push, Offer, ConnectionInv, TypeOK, Connection, server
<1>15. CASE Restart
  BY <1>15 DEF Restart, ConnectionInv, TypeOK, Connection
<1>16. CASE UNCHANGED vars
  BY <1>1, <1>16 DEF vars, server
<1>17. ASSUME NEW c \in Callers,
              CheckStatusAccess(c) \/ ReadStatus(c) \/ Answer(c) \/ Deny(c) \/ Fail(c)
       PROVE  ConnectionInv'
  BY <1>1, <1>17
     DEF CheckStatusAccess, ReadStatus, Answer, Deny, Fail, Refused, server
<1>18. CASE HandleRefresh \/ poll \/ Revoke
  BY <1>1, <1>18 DEF HandleRefresh, poll, Revoke, server
<1>19. QED
  BY <1>3, <1>4, <1>5, <1>6, <1>8, <1>9, <1>10, <1>11, <1>12, <1>13, <1>14, <1>15,
     <1>16, <1>17, <1>18 DEF Next, Stream

\* The page starts without an event.
LEMMA ConnectionInit == Init => ConnectionInv
  BY Numbers, NoStreamType, OpeningType DEF Init, ConnectionInv

-----------------------------------------------------------------------------
\* No step leaves the page without a next one.
LEMMA NeverStrandedStep ==
  ASSUME TypeOK, ConnectionInv, NeverStranded, [Next]_vars
  PROVE  NeverStranded'
<1>1. ASSUME disconnected(fetch), UNCHANGED <<supported, fetch, mounted>>
      PROVE  NeverStranded'
  BY <1>1, NoStreamType DEF disconnected, NeverStranded, pending
<1>2. ASSUME NEW caller \in Callers, refresh(caller),
             UNCHANGED <<supported, mounted, stream, reconnectTimer>>
      PROVE  NeverStranded'
  <2>1. caller \in pending(fetch')
    BY <1>2, RefreshType DEF pending, Asked
  <2>2. QED
    BY <1>2, <2>1 DEF NeverStranded
<1>3. ASSUME UNCHANGED <<supported, mounted, live, pollTimer, reconnectTimer>>,
             fetch' = fetch,
             stream.pc # "none" => stream'.pc # "none"
      PROVE  NeverStranded'
  BY <1>3 DEF NeverStranded
<1>4. CASE HandleRefresh
  <2>1. "button" \in Callers
    BY DEF Callers
  <2>2. QED
    BY <1>2, <1>4, <2>1 DEF HandleRefresh
<1>5. CASE poll
  <2>1. CASE refresh("poll")
    <3>1. "poll" \in Callers
      BY DEF Callers
    <3>2. QED
      BY <1>2, <1>5, <2>1, <3>1 DEF poll
  <2>2. CASE ~refresh("poll")
    BY <1>5, <2>2 DEF poll, NeverStranded
  <2>3. QED
    BY <2>1, <2>2
<1>6. CASE connect
  <2>1. CASE disconnected(fetch)
    BY <1>1, <1>6, <2>1 DEF connect
  <2>2. CASE stream' = Opening
    BY <1>1, <1>6, <2>2, OpeningType DEF connect, NeverStranded
  <2>3. QED
    BY <1>6, <2>1, <2>2 DEF connect
<1>7. ASSUME NEW c \in Callers, CheckStatusAccess(c) \/ ReadStatus(c)
      PROVE  NeverStranded'
  <2>1. \A d \in Callers : fetch'[d].pc = "idle" <=> fetch[d].pc = "idle"
    BY <1>7 DEF CheckStatusAccess, ReadStatus, TypeOK, Request, FetchPC
  <2>2. pending(fetch') = pending(fetch)
    BY <2>1 DEF pending
  <2>3. QED
    BY <1>7, <2>2 DEF CheckStatusAccess, ReadStatus, timers, NeverStranded
<1>8. ASSUME NEW c \in Callers, Answer(c) \/ Deny(c) \/ Fail(c)
      PROVE  NeverStranded'
  <2>1. live \/ pollTimer' \/ pending(fetch') # {}
    BY <1>8, Zenon DEF Answer, Deny, Fail, Refused, Ended, schedulePoll
  <2>2. UNCHANGED <<supported, mounted, live, reconnectTimer, stream>>
    BY <1>8 DEF Answer, Deny, Fail, Refused
  <2>3. QED
    BY <2>1, <2>2 DEF NeverStranded
<1>9. CASE Stream
  BY <1>3, <1>9, StreamType
     DEF Stream, Subscribe, ReadFirst, Take, Authorize, WriteSSE, KeepAlive, timers
<1>10. CASE OnMessage
  <2>1. stream'.pc = stream.pc /\ stream.pc # "none"
    BY <1>10 DEF OnMessage, ConnectionInv, TypeOK, Connection
  <2>2. QED
    BY <1>10, <2>1 DEF OnMessage, NeverStranded
<1>11. CASE OnAuthRequired \/ OnError
  BY <1>1, <1>11 DEF OnAuthRequired, OnError
<1>12. CASE Close
  BY <1>12 DEF Close, NeverStranded
<1>13. CASE Record \/ Revoke \/ UNCHANGED vars
  BY <1>3, <1>13 DEF Record, Revoke, vars, timers
<1>14. CASE Publish \/ publishLatest \/ Restart
  <2>1. stream.pc # "none" => stream'.pc # "none"
    BY <1>14 DEF Publish, publishLatest, Restart, Push, TypeOK, Connection
  <2>2. QED
    BY <1>3, <1>14, <2>1 DEF Publish, publishLatest, Restart, timers
<1>15. QED
  BY <1>4, <1>5, <1>6, <1>7, <1>8, <1>9, <1>10, <1>11, <1>12, <1>13, <1>14 DEF Next

\* Whatever requests fail and streams break: an open page has a request in
\* progress, a live stream or a timer set, and a stream or the timer of one.
THEOREM NeverIsStranded == Spec => []NeverStranded
<1>1. Init => NeverStranded
  <2>1. ASSUME Init PROVE "poll" \in pending(fetch)
    BY <2>1 DEF Init, pending, Callers, Asked
  <2>2. QED
    BY <2>1, OpeningType DEF Init, NeverStranded
<1>2. Init => ConnectionInv
  BY ConnectionInit
<1>3. TypeOK /\ ConnectionInv /\ [Next]_vars => ConnectionInv'
  BY ConnectionStep
<1>4. TypeOK /\ ConnectionInv /\ NeverStranded /\ [Next]_vars => NeverStranded'
  BY NeverStrandedStep
<1>5. QED
  BY <1>1, <1>2, <1>3, <1>4, TypeCorrect, PTL DEF Spec

-----------------------------------------------------------------------------
\* After the session was revoked, no step puts a later report on the wire.
LEMMA RevocationStep ==
  ASSUME TypeOK, ConnectionInv, RevocationInv, [Next]_vars
  PROVE  RevocationInv'
<1> USE Numbers
<1>a. stream.wire \in Seq(Report \union {AuthRequired})
  BY DEF TypeOK, Connection
<1>1. ASSUME UNCHANGED <<allowed, revokedAt>>, stream'.wire = stream.wire,
             stream'.pc = "write" => stream.pc = "write" /\ stream'.held = stream.held
      PROVE  RevocationInv'
  BY <1>1 DEF RevocationInv
<1>2. CASE UNCHANGED <<allowed, revokedAt>> /\ (stream' = NoStream \/ stream' = Opening)
  BY <1>2, NoStreamType, OpeningType DEF RevocationInv
<1>3. CASE connect
  BY <1>1, <1>2, <1>3 DEF connect, disconnected, server
<1>4. CASE Subscribe \/ ReadFirst \/ Take
  BY <1>1, <1>4 DEF Subscribe, ReadFirst, Take, Enter, TypeOK, Connection, server
<1>5. ASSUME NEW event \in Report \union {AuthRequired},
             ~allowed => event = AuthRequired \/ event <= revokedAt,
             stream'.wire = Deliver(event), stream'.pc # "write",
             UNCHANGED <<allowed, revokedAt>>
      PROVE  RevocationInv'
  BY <1>a, <1>5, WireAppend DEF Deliver, RevocationInv
<1>6. CASE Authorize
  <2>1. CASE allowed
    BY <1>6, <2>1 DEF Authorize, streamAuthorized, RevocationInv, server
  <2>2. CASE ~allowed
    <3>1. stream' = [stream EXCEPT !.pc = "ended", !.held = None,
                                   !.wire = Deliver(AuthRequired)]
      BY <1>6, <2>2 DEF Authorize, streamAuthorized
    <3>2. QED
      BY <1>5, <1>6, <3>1 DEF Authorize, TypeOK, Connection, server
  <2>3. QED
    BY <2>1, <2>2
<1>7. CASE WriteSSE
  <2>1. stream.held \in Report /\ (~allowed => stream.held <= revokedAt)
    BY <1>7 DEF WriteSSE, TypeOK, Connection, RevocationInv
  <2>2. QED
    BY <1>5, <1>7, <2>1 DEF WriteSSE, TypeOK, Connection, server
<1>8. CASE KeepAlive
  BY <1>5, <1>8 DEF KeepAlive, TypeOK, Connection, server
<1>9. CASE OnMessage
  <2>1. /\ stream'.wire = Tail(stream.wire) /\ stream'.pc = stream.pc
        /\ stream'.held = stream.held /\ stream.wire # <<>>
        /\ UNCHANGED <<allowed, revokedAt>>
    BY <1>9 DEF OnMessage, TypeOK, Connection, server
  <2>2. QED
    BY <1>a, <2>1, WireTail DEF RevocationInv
<1>10. CASE OnAuthRequired \/ OnError \/ Close
  BY <1>2, <1>10 DEF OnAuthRequired, OnError, Close, disconnected, server
<1>11. CASE Record
  BY <1>1, <1>11 DEF Record
<1>12. CASE Publish \/ publishLatest
  BY <1>1, <1>12
     DEF Publish, publishLatest, Push, Offer, TypeOK, Connection, server
<1>13. CASE Revoke
  BY <1>13 DEF Revoke, RevocationInv, ConnectionInv, TypeOK
<1>14. CASE Restart
  BY <1>1, <1>14 DEF Restart, TypeOK, Connection
<1>15. CASE UNCHANGED vars
  BY <1>1, <1>15 DEF vars, server
<1>16. ASSUME NEW c \in Callers,
              CheckStatusAccess(c) \/ ReadStatus(c) \/ Answer(c) \/ Deny(c) \/ Fail(c)
       PROVE  RevocationInv'
  BY <1>1, <1>16
     DEF CheckStatusAccess, ReadStatus, Answer, Deny, Fail, Refused, server
<1>17. CASE HandleRefresh \/ poll
  BY <1>1, <1>17 DEF HandleRefresh, poll, server
<1>18. QED
  BY <1>3, <1>4, <1>6, <1>7, <1>8, <1>9, <1>10, <1>11, <1>12, <1>13, <1>14, <1>15,
     <1>16, <1>17 DEF Next, Stream

\* However a revocation meets the handler of a stream: no report that was stored
\* after it is ever written to the stream.
THEOREM RevocationEndsTheStream == Spec => []NothingAfterRevocation
<1>1. Init => RevocationInv
  BY DEF Init, RevocationInv
<1>2. TypeOK /\ ConnectionInv /\ [Next]_vars => ConnectionInv'
  BY ConnectionStep
<1>3. TypeOK /\ ConnectionInv /\ RevocationInv /\ [Next]_vars => RevocationInv'
  BY RevocationStep
<1>4. RevocationInv => NothingAfterRevocation
  BY DEF RevocationInv, NothingAfterRevocation
<1>5. QED
  BY <1>1, <1>2, <1>3, <1>4, ConnectionInit, TypeCorrect, PTL DEF Spec

-----------------------------------------------------------------------------
\* A request or an event keeps the answers in progress no older than the page.
LEMMA AnswerStep ==
  ASSUME TypeOK, ConnectionInv, AnswerInv, [Next]_vars
  PROVE  AnswerInv'
<1> USE Numbers
<1>a. \A c \in Callers : fetch[c] \in Request
  BY DEF TypeOK
<1>1. ASSUME UNCHANGED <<stored, shown, fetch>>
      PROVE  AnswerInv'
  BY <1>1 DEF AnswerInv
<1>2. ASSUME NEW caller \in Callers, refresh(caller), UNCHANGED <<stored, shown>>
      PROVE  AnswerInv'
  <2>1. /\ \A c \in Callers : fetch'[c].value = None
        /\ \A c \in Callers : fetch'[c].current /\ fetch'[caller].current => c = caller
        /\ fetch'[caller] = Asked
    BY <1>2, RefreshType
  <2>2. Asked.current /\ Asked.pc = "asked"
    BY DEF Asked
  <2>3. QED
    BY <1>2, <2>1, <2>2 DEF AnswerInv, TypeOK
<1>3. CASE HandleRefresh
  BY <1>2, <1>3 DEF HandleRefresh, Callers, server, page
<1>4. CASE poll
  <2>1. CASE refresh("poll")
    BY <1>2, <1>4, <2>1 DEF poll, Callers, server, page
  <2>2. CASE ~refresh("poll")
    BY <1>1, <1>4, <2>2 DEF poll, server, page
  <2>3. QED
    BY <2>1, <2>2
<1>5. ASSUME NEW c \in Callers, CheckStatusAccess(c) PROVE AnswerInv'
  <2>1. \A d \in Callers : /\ fetch'[d].value = fetch[d].value
                          /\ fetch'[d].pc = "read" => fetch[d].pc = "read"
                          /\ fetch'[d].current = fetch[d].current
    BY <1>5 DEF CheckStatusAccess, TypeOK, Request
  <2>2. QED
    BY <1>5, <2>1 DEF CheckStatusAccess, AnswerInv, server, page
<1>6. ASSUME NEW c \in Callers, ReadStatus(c) PROVE AnswerInv'
  <2>1. /\ fetch'[c].value = IF fetch[c].current THEN stored ELSE None
        /\ fetch'[c].current = fetch[c].current
        /\ \A d \in Callers \ {c} : fetch'[d] = fetch[d]
    BY <1>6 DEF ReadStatus, TypeOK, Request
  <2>2. QED
    BY <1>6, <2>1 DEF ReadStatus, AnswerInv, TypeOK, server, page
<1>7. ASSUME NEW c \in Callers, Answer(c) PROVE AnswerInv'
  <2>1. /\ fetch'[c] = NoFetch /\ ~NoFetch.current /\ NoFetch.value = None
        /\ \A d \in Callers \ {c} : fetch'[d] = fetch[d]
    BY <1>7 DEF Answer, Ended, TypeOK, NoFetch
  <2>2. CASE fetch[c].current
    <3>1. shown' = fetch[c].value
      BY <1>7, <2>2 DEF Answer
    <3>2. \A d \in Callers \ {c} : ~fetch[d].current
      BY <2>2 DEF TypeOK
    <3>3. QED
      BY <1>7, <2>1, <3>1, <3>2 DEF Answer, AnswerInv, TypeOK, server
  <2>3. CASE ~fetch[c].current
    BY <1>7, <2>1, <2>3 DEF Answer, AnswerInv, TypeOK, server, page
  <2>4. QED
    BY <2>2, <2>3
<1>8. ASSUME NEW c \in Callers, Deny(c) \/ Fail(c) PROVE AnswerInv'
  <2>1. /\ fetch'[c] = NoFetch /\ ~NoFetch.current /\ NoFetch.value = None
        /\ \A d \in Callers \ {c} : fetch'[d] = fetch[d]
    BY <1>8 DEF Deny, Fail, Refused, Ended, TypeOK, NoFetch
  <2>2. stored' = stored /\ shown' = shown
    BY <1>8 DEF Deny, Fail, Refused, server
  <2>3. QED
    BY <2>1, <2>2 DEF AnswerInv, TypeOK
<1>9. CASE OnMessage
  <2>1. stream.wire \in Seq(Report \union {AuthRequired})
    BY DEF TypeOK, Connection
  <2>2. shown' <= stored /\ stored' = stored
    BY <1>9, <2>1, WireTail DEF OnMessage, ConnectionInv, server
  <2>3. \A c \in Callers : fetch'[c].value = None /\ ~fetch'[c].current
    BY <1>9 DEF OnMessage, Event, Overtaken, TypeOK, Request
  <2>4. QED
    BY <2>2, <2>3 DEF AnswerInv, TypeOK
<1>10. CASE Close
  <2>1. \A c \in Callers : fetch'[c].value = None /\ ~fetch'[c].current
    BY <1>10 DEF Close, NoFetch
  <2>2. QED
    BY <1>10, <2>1 DEF Close, AnswerInv, TypeOK, server, page
<1>11. CASE Record
  <2>1. /\ UNCHANGED <<shown, fetch>>
        /\ \A r \in Report \union {None} : r <= stored => r <= stored'
    BY <1>11 DEF Record, TypeOK, page
  <2>2. \A c \in Callers : fetch[c].value \in Report \union {None}
    BY <1>a DEF Request
  <2>3. QED
    BY <2>1, <2>2 DEF AnswerInv, TypeOK
<1>12. CASE Stream
  BY <1>1, <1>12
     DEF Stream, Subscribe, ReadFirst, Take, Authorize, WriteSSE, KeepAlive, server, page
<1>13. CASE \/ connect \/ OnAuthRequired \/ OnError \/ Publish \/ publishLatest
            \/ Revoke \/ Restart \/ UNCHANGED vars
  BY <1>1, <1>13
     DEF connect, OnAuthRequired, OnError, Publish, publishLatest, Revoke, Restart,
         vars, server, page
<1>14. QED
  BY <1>3, <1>4, <1>5, <1>6, <1>7, <1>8, <1>9, <1>10, <1>11, <1>12, <1>13 DEF Next

\* However requests, answers and events overtake each other: the answer of a
\* request never takes the page back to an older report.
THEOREM AnswersNeverTakeBack == Spec => AnswersOnlyAdvance
<1>1. Init => AnswerInv
  BY Numbers DEF Init, AnswerInv, Callers, Asked, NoFetch
<1>2. TypeOK /\ ConnectionInv /\ [Next]_vars => ConnectionInv'
  BY ConnectionStep
<1>3. TypeOK /\ ConnectionInv /\ AnswerInv /\ [Next]_vars => AnswerInv'
  BY AnswerStep
<1>4. TypeOK /\ AnswerInv /\ [Next]_vars =>
        [\A c \in Callers : Answer(c) => shown' >= shown]_vars
  <2>1. ASSUME TypeOK, AnswerInv, NEW c \in Callers, Answer(c)
        PROVE  shown' >= shown
    BY <2>1, Numbers DEF Answer, AnswerInv, TypeOK, Request, page
  <2>2. QED
    BY <2>1
<1>5. QED
  BY <1>1, <1>2, <1>3, <1>4, ConnectionInit, TypeCorrect, PTL DEF Spec, AnswersOnlyAdvance

-----------------------------------------------------------------------------
\* The last event of a wire stays the last one while others are taken from it.
LEMMA WireLast ==
  ASSUME NEW w \in Seq(Report \union {AuthRequired}), w # <<>>
  PROVE  /\ Tail(w) = <<>> => Head(w) = w[Len(w)]
         /\ Tail(w) # <<>> => Tail(w)[Len(Tail(w))] = w[Len(w)]
<1>0. ASSUME NEW s \in Seq(Report \union {AuthRequired})
      PROVE  s = <<>> <=> Len(s) = 0
  OBVIOUS
<1>1. /\ Len(w) \in Nat /\ Len(w) >= 1 /\ Head(w) = w[1]
      /\ Len(Tail(w)) = Len(w) - 1 /\ Tail(w) \in Seq(Report \union {AuthRequired})
      /\ \A i \in 1..Len(Tail(w)) : Tail(w)[i] = w[i + 1]
  BY <1>0, WireTail
<1>2. CASE Len(w) = 1
  <2>1. Tail(w) = <<>>
    <3>1. Len(Tail(w)) = 0 /\ Tail(w) \in Seq(Report \union {AuthRequired})
      BY <1>1, <1>2
    <3>2. QED
      BY <1>0, <3>1, Zenon
  <2>2. QED
    BY <1>1, <1>2, <2>1
<1>3. CASE Len(w) # 1
  <2>1. Len(w) - 1 \in 1..Len(Tail(w)) /\ Len(Tail(w)) # 0
    BY <1>1, <1>3
  <2>2. Tail(w)[Len(w) - 1] = w[(Len(w) - 1) + 1]
    BY <1>1, <2>1
  <2>3. QED
    BY <1>1, <2>1, <2>2
<1>4. QED
  BY <1>2, <1>3

\* A connection passes through its stages in order.
LEMMA StageStep ==
  ASSUME TypeOK, StageInv, [Next]_vars
  PROVE  StageInv'
<1> USE Numbers
<1>1. CASE UNCHANGED <<live, reconnectTimer, stream>>
  BY <1>1 DEF StageInv
<1>2. ASSUME live' = FALSE, stream' = NoStream \/ stream' = Opening
      PROVE  StageInv'
  BY <1>2, NoStreamType, OpeningType DEF StageInv
<1>3. CASE connect
  <2>1. ~live
    BY <1>3 DEF connect, StageInv
  <2>2. live' = FALSE
    <3>1. live' = live \/ live' = FALSE
      BY <1>3, Zenon DEF connect, disconnected
    <3>2. QED
      BY <2>1, <3>1, Zenon DEF TypeOK
  <2>3. QED
    BY <1>2, <1>3, <2>2 DEF connect, disconnected
<1>4. CASE Stream
  <2>1. UNCHANGED <<live, reconnectTimer>>
    BY <1>4 DEF Stream, Subscribe, ReadFirst, Take, Authorize, WriteSSE, KeepAlive, timers
  <2>2. CASE Subscribe
    BY <2>1, <2>2 DEF Subscribe, Enter, StageInv, TypeOK, Connection
  <2>3. CASE ReadFirst
    BY <2>1, <2>3 DEF ReadFirst, Enter, StageInv, TypeOK, Connection
  <2>4. CASE Take
    BY <2>1, <2>4 DEF Take, StageInv, TypeOK, Connection
  <2>5. CASE Authorize
    BY <2>1, <2>5 DEF Authorize, Enter, StageInv, TypeOK, Connection
  <2>6. CASE WriteSSE
    BY <2>1, <2>6 DEF WriteSSE, StageInv, TypeOK, Connection
  <2>7. CASE KeepAlive
    BY <2>1, <2>7 DEF KeepAlive, StageInv, TypeOK, Connection
  <2>8. QED
    BY <1>4, <2>2, <2>3, <2>4, <2>5, <2>6, <2>7 DEF Stream
<1>5. CASE OnMessage
  <2>1. /\ stream.wire # <<>> /\ ~reconnectTimer'
        /\ stream'.pc = stream.pc /\ stream'.held = stream.held
    BY <1>5 DEF OnMessage, TypeOK, Connection
  <2>2. stream.pc \in {"check", "write", "loop", "ended"}
    BY <2>1 DEF StageInv, TypeOK, Connection, StreamPC
  <2>3. QED
    BY <2>1, <2>2 DEF StageInv
<1>6. CASE OnAuthRequired \/ OnError \/ Close
  BY <1>2, <1>6 DEF OnAuthRequired, OnError, Close, disconnected
<1>7. CASE Publish \/ publishLatest
  BY <1>7
     DEF Publish, publishLatest, Push, StageInv, TypeOK, Connection, timers
<1>8. CASE Restart
  BY <1>8 DEF Restart, StageInv, TypeOK, Connection, timers
<1>9. ASSUME NEW c \in Callers,
             CheckStatusAccess(c) \/ ReadStatus(c) \/ Answer(c) \/ Deny(c) \/ Fail(c)
      PROVE  StageInv'
  BY <1>1, <1>9
     DEF CheckStatusAccess, ReadStatus, Answer, Deny, Fail, Refused, timers
<1>10. CASE HandleRefresh \/ poll \/ Record \/ Revoke \/ UNCHANGED vars
  BY <1>1, <1>10 DEF HandleRefresh, poll, Record, Revoke, vars, timers
<1>11. QED
  BY <1>3, <1>4, <1>5, <1>6, <1>7, <1>8, <1>9, <1>10 DEF Next

\* No step loses the newest report on its way.
LEMMA NewestStep ==
  ASSUME TypeOK, StageInv, NewestInv, [Next]_vars
  PROVE  NewestInv'
<1> USE Numbers
<1>a. /\ stream.wire \in Seq(Report \union {AuthRequired})
      /\ stored \in Report /\ stream \in Connection
  BY DEF TypeOK, Connection
<1>1. ASSUME UNCHANGED <<stored, unpublished, stream, live, shown>>,
             \A c \in Callers :
               fetch'[c].current /\ fetch'[c].pc = "read" =>
                 \/ fetch'[c].value = stored
                 \/ fetch'[c] = fetch[c]
      PROVE  NewestInv'
  BY <1>1 DEF NewestInv
<1>2. CASE stream' = NoStream \/ stream' = Opening
  BY <1>2, NoStreamType, OpeningType DEF NewestInv
<1>3. CASE HandleRefresh \/ poll
  <2>1. UNCHANGED <<stored, unpublished, stream, live, shown>>
    BY <1>3 DEF HandleRefresh, poll, server, page
  <2>2. CASE fetch' = fetch
    BY <1>1, <2>1, <2>2
  <2>3. ASSUME NEW caller \in Callers, refresh(caller) PROVE NewestInv'
    <3>1. /\ \A c, d \in Callers : fetch'[c].current /\ fetch'[d].current => c = d
          /\ fetch'[caller].current /\ fetch'[caller].pc = "asked"
      BY <2>3, RefreshType DEF Asked
    <3>2. \A c \in Callers : ~(fetch'[c].current /\ fetch'[c].pc = "read")
      BY <3>1
    <3>3. QED
      BY <1>1, <2>1, <3>2
  <2>4. QED
    BY <1>3, <2>2, <2>3 DEF HandleRefresh, poll, Callers
<1>4. CASE connect
  <2>1. stream' = Opening \/ stream' = NoStream
    BY <1>4 DEF connect, disconnected
  <2>2. QED
    BY <1>2, <2>1
<1>5. ASSUME NEW c \in Callers, CheckStatusAccess(c) PROVE NewestInv'
  <2>1. /\ UNCHANGED <<stored, unpublished, stream, live, shown>>
        /\ \A d \in Callers \ {c} : fetch'[d] = fetch[d]
        /\ fetch'[c].pc # "read"
    BY <1>5 DEF CheckStatusAccess, TypeOK, Request, server, page, timers
  <2>2. QED
    BY <1>1, <2>1
<1>6. ASSUME NEW c \in Callers, ReadStatus(c) PROVE NewestInv'
  <2>1. /\ UNCHANGED <<stored, unpublished, stream, live, shown>>
        /\ \A d \in Callers \ {c} : fetch'[d] = fetch[d]
        /\ fetch'[c].current => fetch'[c].value = stored
    BY <1>6 DEF ReadStatus, TypeOK, Request, server, page, timers
  <2>2. QED
    BY <1>1, <2>1
<1>7. ASSUME NEW c \in Callers, Answer(c) PROVE NewestInv'
  <2>1. /\ fetch'[c] = NoFetch /\ ~NoFetch.current
        /\ \A d \in Callers \ {c} : fetch'[d] = fetch[d]
        /\ UNCHANGED <<stored, unpublished, stream, live>> /\ fetch[c].pc = "read"
        /\ shown' \in {shown, fetch[c].value}
        /\ ~fetch[c].current => shown' = shown
    BY <1>7 DEF Answer, Ended, TypeOK, NoFetch, server, page
  <2>2. QED
    BY <2>1 DEF NewestInv
<1>8. ASSUME NEW c \in Callers, Deny(c) \/ Fail(c) PROVE NewestInv'
  <2>1. /\ fetch'[c] = NoFetch /\ ~NoFetch.current
        /\ \A d \in Callers \ {c} : fetch'[d] = fetch[d]
        /\ UNCHANGED <<stored, unpublished, stream, live, shown>>
    BY <1>8 DEF Deny, Fail, Refused, Ended, TypeOK, NoFetch, server
  <2>2. QED
    BY <1>1, <2>1
<1>9. CASE Subscribe
  <2>1. /\ stream.pc = "opening" /\ stream'.pc \in {"subscribed", "ended"}
        /\ stream'.chan = stream.chan
    BY <1>9, <1>a DEF Subscribe, Enter, Connection
  <2>2. QED
    BY <2>1 DEF StageInv, NewestInv
<1>10. CASE ReadFirst
  <2>1. /\ stream.pc = "subscribed" /\ stream.wire = <<>> /\ ~live
        /\ stream'.chan = stream.chan /\ stream'.wire = stream.wire
        /\ UNCHANGED <<stored, unpublished, live>>
        /\ \/ stream'.pc = "check" /\ stream'.held = stored
           \/ stream'.pc = "loop"
    BY <1>10, <1>a DEF ReadFirst, Enter, StageInv, Connection, server, timers
  <2>2. QED
    BY <2>1 DEF NewestInv
<1>11. CASE Take
  <2>1. /\ stream.pc = "loop" /\ stream.chan # None
        /\ stream'.chan = None /\ stream'.held = stream.chan /\ stream'.pc = "check"
        /\ UNCHANGED <<stored, unpublished>>
    BY <1>11, <1>a DEF Take, Connection, server
  <2>2. QED
    BY <2>1 DEF NewestInv
<1>12. CASE Authorize
  <2>1. /\ stream.pc = "check" /\ stream'.chan = stream.chan
        /\ UNCHANGED <<stored, unpublished>>
        /\ \/ stream'.pc = "write" /\ stream'.held = stream.held
           \/ stream'.pc = "ended"
    BY <1>12, <1>a DEF Authorize, Enter, Connection, server
  <2>2. QED
    BY <2>1 DEF NewestInv
<1>13. CASE WriteSSE
  <2>1. /\ stream.pc = "write" /\ stream.held \in Report \union {AuthRequired}
        /\ stream'.chan = stream.chan /\ stream'.pc = "loop"
        /\ stream'.wire = Append(stream.wire, stream.held)
        /\ UNCHANGED <<stored, unpublished>>
    BY <1>13, <1>a DEF WriteSSE, Deliver, TypeOK, Connection, server
  <2>2. /\ stream'.wire # <<>>
        /\ stream'.wire[Len(stream'.wire)] = stream.held
    BY <1>a, <2>1
  <2>3. QED
    BY <2>1, <2>2 DEF NewestInv
<1>14. CASE KeepAlive
  BY <1>14, <1>a DEF KeepAlive, NewestInv, Connection
<1>15. CASE OnMessage
  <2>1. /\ stream'.wire = Tail(stream.wire) /\ stream.wire # <<>>
        /\ shown' = Head(stream.wire)
        /\ stream'.pc = stream.pc /\ stream'.held = stream.held
        /\ stream'.chan = stream.chan
        /\ UNCHANGED <<stored, unpublished>>
    BY <1>15, <1>a DEF OnMessage, Connection, server
  <2>2. \A c \in Callers : ~fetch'[c].current
    BY <1>15 DEF OnMessage, Event, Overtaken, TypeOK, Request
  <2>3. /\ stream'.wire = <<>> => shown' = stream.wire[Len(stream.wire)]
        /\ stream'.wire # <<>> =>
             stream'.wire[Len(stream'.wire)] = stream.wire[Len(stream.wire)]
    BY <1>a, <2>1, WireLast
  <2>4. QED
    BY <2>1, <2>2, <2>3 DEF NewestInv
<1>16. CASE OnAuthRequired \/ OnError \/ Close
  BY <1>2, <1>16 DEF OnAuthRequired, OnError, Close, disconnected
<1>17. CASE Record
  BY <1>17 DEF Record, NewestInv
<1>18. CASE Publish \/ publishLatest
  <2>1. stored' = stored /\ Push
    BY <1>18 DEF Publish, publishLatest, server
  <2>2. \/ stream'.pc \in {"none", "opening", "ended"}
        \/ stream'.chan = stored
    BY <1>a, <2>1 DEF Push, Offer, Connection
  <2>3. QED
    BY <1>a, <2>1, <2>2 DEF NewestInv
<1>19. CASE Restart
  <2>1. stream'.pc \in {"none", "ended"}
    BY <1>19, <1>a DEF Restart, Connection
  <2>2. QED
    BY <2>1 DEF NewestInv
<1>20. CASE Revoke \/ UNCHANGED vars
  BY <1>1, <1>20 DEF Revoke, vars, server, page, timers
<1>21. QED
  BY <1>3, <1>4, <1>5, <1>6, <1>7, <1>8, <1>9, <1>10, <1>11, <1>12, <1>13, <1>14,
     <1>15, <1>16, <1>17, <1>18, <1>19, <1>20 DEF Next, Stream

\* What is on the way ends with the report in the channel, or else the one the
\* handler holds, or else the last of the wire.
LEMMA LastOnTheWay ==
  ASSUME stream \in Connection
  PROVE  IF stream.chan # None
           THEN OnTheWay # <<>> /\ OnTheWay[Len(OnTheWay)] = stream.chan
           ELSE IF stream.held # None
                  THEN OnTheWay # <<>> /\ OnTheWay[Len(OnTheWay)] = stream.held
                  ELSE OnTheWay = stream.wire
<1> DEFINE E == Report \union {None, AuthRequired}
           held == IF stream.held = None THEN <<>> ELSE <<stream.held>>
           chan == IF stream.chan = None THEN <<>> ELSE <<stream.chan>>
           sent == stream.wire \o held
<1>1. /\ stream.wire \in Seq(E) /\ stream.held \in E /\ stream.chan \in E
  BY DEF Connection
<1>2. held \in Seq(E) /\ chan \in Seq(E) /\ sent \in Seq(E)
  <2>1. <<stream.held>> \in Seq(E) /\ <<stream.chan>> \in Seq(E) /\ <<>> \in Seq(E)
    BY <1>1
  <2>2. held \in Seq(E) /\ chan \in Seq(E)
    BY <2>1
  <2>3. QED
    BY <1>1, <2>2
<1>3. OnTheWay = sent \o chan
  BY DEF OnTheWay
<1>4. ASSUME NEW w \in Seq(E), NEW e \in E
      PROVE  w \o <<e>> # <<>> /\ (w \o <<e>>)[Len(w \o <<e>>)] = e
  OBVIOUS
<1>5. ASSUME NEW w \in Seq(E) PROVE w \o <<>> = w
  OBVIOUS
<1>6. CASE stream.chan # None
  BY <1>1, <1>2, <1>3, <1>4, <1>6
<1>7. CASE stream.chan = None /\ stream.held # None
  BY <1>1, <1>2, <1>3, <1>4, <1>5, <1>7
<1>8. CASE stream.chan = None /\ stream.held = None
  BY <1>1, <1>2, <1>3, <1>5, <1>8
<1>9. QED
  BY <1>6, <1>7, <1>8

\* For every length of the wire and every meeting of publications, deliveries,
\* requests and restarts: the newest report never gets stuck behind an older one.
THEOREM NewestIsAlwaysOnTheWay == Spec => []NewestOnTheWay
<1>1. Init => StageInv /\ NewestInv
  BY NoStreamType, OpeningType DEF Init, StageInv, NewestInv
<1>2. TypeOK /\ StageInv /\ [Next]_vars => StageInv'
  BY StageStep
<1>3. TypeOK /\ StageInv /\ NewestInv /\ [Next]_vars => NewestInv'
  BY NewestStep
<1>4. TypeOK /\ StageInv /\ NewestInv => NewestOnTheWay
  <2> SUFFICES ASSUME TypeOK, StageInv, NewestInv, live, ~unpublished,
                      stream.pc \notin {"none", "ended"}
               PROVE  IF OnTheWay = <<>> THEN shown = stored
                      ELSE OnTheWay[Len(OnTheWay)] = stored
    BY DEF NewestOnTheWay
  <2>1. stream \in Connection /\ stream.pc \in {"check", "write", "loop"}
    BY DEF TypeOK, StageInv
  <2>2. stream.pc \in {"check", "write"} => stream.held # None
    BY DEF TypeOK
  <2>3. stream.pc = "loop" => stream.held = None
    BY DEF StageInv
  <2>4. QED
    BY <2>1, <2>2, <2>3, LastOnTheWay DEF NewestInv
<1>5. QED
  BY <1>1, <1>2, <1>3, <1>4, TypeCorrect, PTL DEF Spec
=============================================================================
