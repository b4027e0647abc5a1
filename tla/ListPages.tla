----------------------------- MODULE ListPages -----------------------------
(***************************************************************************)
(* The tabs that show rows for a query: TasksTab and NotificationsTab,     *)
(* AuditTab and MonitoringHistory, BillingTab.  Every change of the query  *)
(* asks the server again while earlier requests may still be answered, and *)
(* each tab keeps stale answers from being shown in one of two ways: the   *)
(* rows carry the query they answer (tasks, notifications), or they are    *)
(* removed when the query changes (audit, history, billing).  All of them  *)
(* also ignore the answer to a request that is not the last one.           *)
(*                                                                         *)
(* ProviderDialog, with its list of the models that an endpoint has, works *)
(* like the second kind: its query is the endpoint in the form.            *)
(*                                                                         *)
(* A query is a filter and a page.  Of the rows it matters whether one of  *)
(* them is still running and whether there are more.                       *)
(***************************************************************************)
EXTENDS AdminServer

CONSTANTS
  Filters,      \* what can be chosen; AllRows among them
  AllRows,      \* the filter of a tab when it is opened
  MaxPage,      \* bound on the pages of a list
  MaxRequests   \* bound on requests that have not been answered

ASSUME ListsAssumption == AllRows \in Filters /\ {MaxPage, MaxRequests} \subseteq Nat

VARIABLES
  query,       \* offset and filter; query and before; days; the endpoint
  rows,        \* data, page, available: what the last answer taken had
  requests,    \* what is under way
  loadError,   \* the last request failed
  sending,     \* NotificationsTab: sending; ProviderDialog: saving
  chosen       \* the dialog that asks before a notification is sent again

lists == <<query, rows, requests, loadError, sending, chosen>>

Tagged == {"tasks", "notifications"}
Paged == {"audit", "history"}
Refreshing == Tagged \union Paged \union {"billing"}
ListTabs == Refreshing \union {"form"}
Viewing == mounted /\ tab \in ListTabs

NoRows == [on |-> FALSE, query |-> [filter |-> AllRows, page |-> 0],
           running |-> FALSE, more |-> FALSE]
First(filter) == [filter |-> filter, page |-> 0]

loading == \E request \in requests : request.current

\* TasksTab and NotificationsTab: rows that answer another query are not shown.
tasks == IF rows.query = query THEN rows ELSE NoRows
items == IF rows.query = query THEN rows ELSE NoRows

\* AuditTab and MonitoringHistory show none while they load.
auditRows == IF loading THEN NoRows ELSE rows
historyRows == IF loading THEN NoRows ELSE rows

\* BillingTab shows what it has, ProviderDialog the models to choose from.
usage == rows
available == rows

Shown ==
  CASE tab = "tasks" -> tasks
    [] tab = "notifications" -> items
    [] tab = "audit" -> auditRows
    [] tab = "history" -> historyRows
    [] tab = "billing" -> usage
    [] OTHER -> available

-----------------------------------------------------------------------------
\* What was asked before is aborted, but its answer may be on the way.
Overtaken == {[request EXCEPT !.current = FALSE] : request \in requests}

Asking(next) ==
  /\ Cardinality(requests) < MaxRequests
  /\ requests' = Overtaken \union {[current |-> TRUE, query |-> next]}
  /\ loadError' = FALSE

\* The rows of a query are not shown for another one.
Cleared(next) ==
  CASE tab \in Tagged -> rows
    [] tab = "billing" -> IF rows.query = next THEN rows ELSE NoRows
    [] OTHER -> NoRows

\* The effect of a new query: load.  In the form it only aborts what is under way.
SetQuery(next) ==
  /\ query' = next
  /\ rows' = Cleared(next)
  /\ IF tab = "form"
       THEN requests' = Overtaken /\ loadError' = FALSE
       ELSE Asking(next)

Choose(tabs, filters) ==
  /\ Viewing /\ tab \in tabs /\ ~sending /\ ~chosen
  /\ \E filter \in filters : SetQuery(First(filter))
  /\ UNCHANGED <<page, server, command, left, sending, chosen>>

\* The status of the tasks or of the notifications.
setFilter == Choose(Tagged, Filters \ {query.filter})

\* The form over the audit and the history also asks for the same query again.
apply == Choose(Paged, Filters)

setDays == Choose({"billing"}, Filters \ {query.filter})

\* A field of the connection, in the form of a provider.
setConnection == Choose({"form"}, Filters \ {query.filter})

\* Only NotificationsTab does not go on from rows that could not be loaded again.
Turn ==
  /\ Viewing /\ tab \in Tagged \union Paged /\ ~loading /\ ~sending /\ ~chosen
  /\ \/ /\ Shown.on /\ Shown.more /\ query.page < MaxPage
        /\ tab = "notifications" => ~loadError
        /\ SetQuery([query EXCEPT !.page = @ + 1])
     \/ query.page > 0 /\ SetQuery([query EXCEPT !.page = @ - 1])
  /\ UNCHANGED <<page, server, command, left, sending, chosen>>

\* The refresh button of the audit and of the history also returns to the first page.
RefreshRows ==
  /\ Viewing /\ tab \in Refreshing /\ ~loading /\ ~chosen
  /\ SetQuery(IF tab \in Paged THEN First(query.filter) ELSE query)
  /\ UNCHANGED <<page, server, command, left, sending, chosen>>

\* A row that is running, or being sent, is looked at again after two seconds; the
\* history after each action of the MonitoringTab.
LookAgain ==
  /\ Viewing
  /\ tab = "history" \/ (tab \in Tagged /\ Shown.on /\ Shown.running /\ ~loading)
  /\ SetQuery(query)
  /\ UNCHANGED <<page, server, command, left, sending, chosen>>

\* sync of ProviderDialog
SyncModels ==
  /\ Open("form") /\ ~loading /\ ~sending
  /\ Asking(query)
  /\ UNCHANGED <<page, server, command, left, query, rows, sending, chosen>>

\* Fault: every answer is taken.
TakesAll(request) == TRUE

\* request === requestId.current, !controller.signal.aborted
Takes(request) == request.current

RowsAnswer ==
  /\ \E request \in requests, running \in BOOLEAN, more \in BOOLEAN :
       /\ tab \in Tagged \/ ~running
       /\ tab \in Tagged \union Paged \/ ~more
       /\ requests' = requests \ {request}
       /\ rows' = IF Takes(request)
                    THEN [on |-> TRUE, query |-> request.query,
                          running |-> running, more |-> more]
                    ELSE rows
  /\ UNCHANGED <<page, server, command, left, query, loadError, sending, chosen>>

RowsFail ==
  /\ \E request \in requests :
       /\ requests' = requests \ {request}
       /\ loadError' = (loadError \/ Takes(request))
       /\ IF Takes(request) THEN Trouble ELSE UNCHANGED left
  /\ UNCHANGED <<page, server, command, query, rows, sending, chosen>>

-----------------------------------------------------------------------------
(***************************************************************************)
(* NotificationsTab sends; ProviderDialog saves.                           *)
(***************************************************************************)
\* retryButton: a row that failed.
AskRetry ==
  /\ Open("notifications") /\ (Shown.on \/ chosen) /\ ~sending
  /\ chosen' = ~chosen
  /\ UNCHANGED <<page, server, command, left, query, rows, requests, loadError,
                 sending>>

\* submit of the form waits for sync.
send ==
  /\ \/ Open("notifications")
     \/ Open("form") /\ ~loading
  /\ ~sending
  /\ sending' = TRUE
  /\ UNCHANGED <<page, server, command, left, query, rows, requests, loadError,
                 chosen>>

\* The notification sent is the first of all rows.  The form that was saved is closed;
\* the next one starts anew.
SendEnds ==
  /\ mounted /\ sending
  /\ sending' = FALSE /\ chosen' = FALSE
  /\ SetQuery(First(AllRows))
  /\ UNCHANGED <<page, server, command, left>>

\* The form stays open with the error.
SendFails ==
  /\ Open("form") /\ sending
  /\ sending' = FALSE
  /\ UNCHANGED <<page, server, command, left, query, rows, requests, loadError,
                 chosen>>

-----------------------------------------------------------------------------
ListsClosed ==
  /\ query = First(AllRows) /\ rows = NoRows /\ requests = {} /\ loadError = FALSE
  /\ sending = FALSE /\ chosen = FALSE

OpenLists ==
  /\ IF tab \in Refreshing THEN Asking(query) ELSE UNCHANGED <<requests, loadError>>
  /\ UNCHANGED <<query, rows, sending, chosen>>

LeaveLists ==
  /\ query' = First(AllRows) /\ rows' = NoRows /\ requests' = {}
  /\ loadError' = FALSE /\ sending' = FALSE /\ chosen' = FALSE

ListsNext ==
  \/ setFilter \/ apply \/ setDays \/ setConnection \/ Turn \/ RefreshRows
  \/ LookAgain \/ SyncModels \/ RowsAnswer \/ RowsFail \/ AskRetry \/ send \/ SendEnds \/ SendFails

(***************************************************************************)
(* The rows that are shown answer the query that is shown, however the     *)
(* answers overtake each other: no row of another filter, page, range or   *)
(* endpoint is taken for one of this.                                      *)
(***************************************************************************)
RowsAnswerTheQuery == Shown.on => Shown.query = query
=============================================================================
