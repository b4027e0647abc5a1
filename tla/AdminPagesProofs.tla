-------------------------- MODULE AdminPagesProofs --------------------------
(***************************************************************************)
(* Proofs about AdminPages, for every set of filters, of edits and of      *)
(* providers, every number of tasks and every bound; the last part shows   *)
(* that the overview implements TaskFollower.                              *)
(***************************************************************************)
EXTENDS AdminPages, TLAPS

Query == [filter : Filters, page : Nat]
Rows == [on : BOOLEAN, query : Query, running : BOOLEAN, more : BOOLEAN]
RowsRequest == [current : BOOLEAN, query : Query]

\* The last request asks for the query of the page, and where the rows do not
\* carry their query they are removed with it.
ListsInv ==
  /\ query \in Query /\ rows \in Rows /\ requests \subseteq RowsRequest
  /\ \A request \in requests : request.current => request.query = query
  /\ rows.on => tab \in Tagged \/ rows.query = query

Edition == [ids : SUBSET Providers, edition : Nat]
Dialogs == [kind : {"none", "new", "edit", "delete", "batch"},
            at : {"open", "sent", "done", "refused"}, ids : SUBSET Providers,
            value : Edition]

\* What the page has reported as done is so on the server, and in every answer that
\* is still to be taken.
ProvidersInv ==
  /\ config \in Edition /\ list \in Edition /\ dialog \in Dialogs
  /\ listing \in [on : BOOLEAN, read : BOOLEAN, value : Edition]
  /\ selected \in SUBSET Providers /\ loadFailed \in BOOLEAN
  /\ own \in [kept : Nat, gone : SUBSET Providers]
  /\ own.gone \intersect config.ids = {} /\ own.kept <= config.edition
  /\ listing.read => /\ own.gone \intersect listing.value.ids = {}
                     /\ own.kept <= listing.value.edition
  /\ dialog.at = "done" => /\ own.gone \intersect dialog.value.ids = {}
                           /\ dialog.value.edition <= config.edition

Document == [edits : SUBSET (Mine \union Theirs), version : Int]
OwnSteps == {"load", "reload", "read", "act", "save", "saved", "refused", "refresh"}

\* What a request in progress may do to the page and to the document.
EditsInv ==
  /\ EditsAreKept
  /\ doc \in Document /\ doc.version \in Nat
  /\ draft \in Document /\ saved \in Document /\ sent \in Document
  /\ typed \subseteq Mine /\ entry \subseteq Mine /\ accepted \subseteq Mine \union Theirs
  /\ step \in OwnSteps \union {"none", "failed", "text", "import"}
  /\ step \in OwnSteps => tab \in Tabs
  /\ step = "import" => tab = "config"
  /\ entry # {} => tab = "settings"
  /\ tab \notin Tabs \/ ~mounted => typed = {}
  /\ step \in {"load", "reload", "read", "act", "saved"} => typed \subseteq accepted
  /\ step = "save" => /\ draft.edits \union entry \subseteq sent.edits
                      /\ sent.version = draft.version
  /\ saved.edits \subseteq draft.edits \intersect accepted
  /\ draft.version = saved.version /\ saved.version <= doc.version
  /\ tab \in Tabs => doc.edits \subseteq accepted
  /\ tab = "monitoring" /\ saved.version = doc.version => accepted \subseteq saved.edits
  /\ step \in {"saved", "read"} =>
       /\ sent.edits \subseteq accepted /\ sent.version <= doc.version
       /\ tab = "monitoring" /\ sent.version = doc.version => accepted \subseteq sent.edits

-----------------------------------------------------------------------------
\* A step of one tab changes neither which tab it is nor, but for the two that say
\* so, whether it is open.
LEMMA TabStays ==
  ASSUME [AdminNext]_vars
  PROVE  tab' = tab /\ (OpenTab \/ LeaveTab \/ mounted' = mounted)
<1>1. CASE OpenTab \/ LeaveTab \/ AdminServerStep
  BY <1>1 DEF OpenTab, LeaveTab, AdminServerStep, ServerStep, ServeRun, page
<1>2. CASE OverviewNext
  BY <1>2
     DEF OverviewNext, Refresh, ServeLoad, LoadAnswers, LoadFails, PollTick, ServePoll,
         PollTakesState, PollTakesTask, PollTakesReport, PollFails, run, RunAnswers,
         RunFails, stop, StopAnswers, page
<1>3. CASE ProvidersNext
  BY <1>3
     DEF ProvidersNext, RefreshProviders, ServeProviders, ProvidersAnswer,
         ProvidersFail, select, OpenBatch, OpenRow, OpenForm, OpenDialog, Cancel,
         Confirm, ServeChange, OtherChange, ChangeAnswers, ChangeRefused, ChangeFails,
         page
<1>4. CASE ChecksNext
  BY <1>4
     DEF ChecksNext, rerun, OpenModels, ModelsAnswer, CloseModels, runModels,
         CheckAnswers, PollChecks, ServeRound, TakeRound, RoundFails, page
<1>5. CASE EditingNext
  BY <1>5
     DEF EditingNext, set, update, Type, TakeBack, commit, save, saveMonitoring, act,
         discard, ServeSave, OtherSave, SaveAnswers, ActAnswers, Refused, Refreshed,
         ReadDocument, DocumentAnswers, RequestFails, AskToLeave, Stay, exportConfig,
         importConfig, ImportAnswers, page
<1>6. CASE ListsNext
  BY <1>6
     DEF ListsNext, setFilter, apply, setDays, setConnection, Choose, Turn, RefreshRows,
         LookAgain, SyncModels, RowsAnswer, RowsFail, AskRetry, send, SendEnds,
         SendFails, page
<1>7. CASE UNCHANGED vars
  BY <1>7 DEF vars, page
<1>8. QED
  BY <1>1, <1>2, <1>3, <1>4, <1>5, <1>6, <1>7 DEF AdminNext

-----------------------------------------------------------------------------
(***************************************************************************)
(* The tabs with rows.                                                     *)
(***************************************************************************)
\* A query of a chosen filter is a query.
LEMMA QueryType ==
  ASSUME ListsInv
  PROVE  /\ \A filter \in Filters : First(filter) \in Query
         /\ NoRows \in Rows /\ ~NoRows.on
         /\ query.filter \in Filters
  BY ListsAssumption DEF ListsInv, First, Query, NoRows, Rows

\* A request overtakes all others.
LEMMA AskingStep ==
  ASSUME ListsInv, NEW next \in Query, Asking(next) \/ requests' = Overtaken
  PROVE  /\ requests' \subseteq RowsRequest
         /\ \A request \in requests' : request.current => request.query = next
<1>1. \A request \in Overtaken : request \in RowsRequest /\ ~request.current
  BY DEF Overtaken, ListsInv, RowsRequest
<1> DEFINE last == [current |-> TRUE, query |-> next]
<1>2. last \in RowsRequest /\ last.query = next
  BY DEF RowsRequest
<1>3. requests' \subseteq Overtaken \union {last}
  BY DEF Asking
<1> HIDE DEF last
<1>4. QED
  BY <1>1, <1>2, <1>3

\* A new query takes away the rows of another one.
LEMMA SetQueryStep ==
  ASSUME ListsInv, tab' = tab, NEW next \in Query, SetQuery(next)
  PROVE  ListsInv'
<1>1. /\ requests' \subseteq RowsRequest
      /\ \A request \in requests' : request.current => request.query = next
  BY AskingStep DEF SetQuery
<1>2. rows' \in Rows /\ (rows'.on => tab \in Tagged \/ rows'.query = next)
  BY QueryType DEF SetQuery, Cleared, ListsInv, Tagged
<1>3. QED
  BY <1>1, <1>2 DEF ListsInv, SetQuery

\* Whatever a tab with rows does, the last request is for its query.
LEMMA ListsStep ==
  ASSUME ListsInv, ListsNext, tab' = tab
  PROVE  ListsInv'
<1>1. CASE setFilter \/ apply \/ setDays \/ setConnection
  <2>1. PICK filter \in Filters : SetQuery(First(filter))
    BY <1>1 DEF setFilter, apply, setDays, setConnection, Choose
  <2>2. QED
    BY <2>1, QueryType, SetQueryStep
<1>2. CASE Turn
  <2>1. [query EXCEPT !.page = @ + 1] \in Query
    BY DEF ListsInv, Query
  <2>2. query.page > 0 => [query EXCEPT !.page = @ - 1] \in Query
    BY DEF ListsInv, Query
  <2>3. QED
    BY <1>2, <2>1, <2>2, SetQueryStep DEF Turn
<1>3. CASE RefreshRows
  <2>1. (IF tab \in Paged THEN First(query.filter) ELSE query) \in Query
    BY QueryType DEF ListsInv
  <2>2. QED
    BY <1>3, <2>1, SetQueryStep DEF RefreshRows
<1>4. CASE LookAgain
  BY <1>4, SetQueryStep DEF LookAgain, ListsInv
<1>5. CASE SyncModels
  <2>1. query \in Query
    BY DEF ListsInv
  <2>2. QED
    BY <1>5, <2>1, AskingStep DEF SyncModels, ListsInv
<1>6. CASE RowsAnswer
  <2>1. PICK request \in requests, running \in BOOLEAN, more \in BOOLEAN :
          /\ requests' = requests \ {request}
          /\ rows' = IF Takes(request)
                       THEN [on |-> TRUE, query |-> request.query,
                             running |-> running, more |-> more]
                       ELSE rows
    BY <1>6 DEF RowsAnswer
  <2>2. request \in RowsRequest /\ (Takes(request) => request.query = query)
    BY DEF Takes, ListsInv
  <2>3. rows' \in Rows /\ (Takes(request) => rows'.query = query)
    BY <2>1, <2>2 DEF Rows, RowsRequest, ListsInv
  <2>4. query' = query
    BY <1>6 DEF RowsAnswer
  <2>5. QED
    BY <2>1, <2>3, <2>4 DEF ListsInv
<1>7. CASE RowsFail
  BY <1>7 DEF RowsFail, ListsInv
<1>8. CASE AskRetry \/ send \/ SendFails
  BY <1>8 DEF AskRetry, send, SendFails, ListsInv
<1>9. CASE SendEnds
  BY <1>9, QueryType, SetQueryStep, ListsAssumption DEF SendEnds
<1>10. QED
  BY <1>1, <1>2, <1>3, <1>4, <1>5, <1>6, <1>7, <1>8, <1>9 DEF ListsNext

\* The other tabs leave the rows alone; a tab that is opened or left has none.
LEMMA ListsTabStep ==
  ASSUME ListsInv, [AdminNext]_vars
  PROVE  ListsInv'
<1>1. tab' = tab
  BY TabStays
<1>2. CASE UNCHANGED lists
  BY <1>1, <1>2 DEF lists, ListsInv
<1>3. CASE LeaveLists
  BY <1>1, <1>3, QueryType, ListsAssumption DEF LeaveLists, ListsInv
<1>4. CASE OpenLists
  <2>1. query \in Query
    BY DEF ListsInv
  <2>2. CASE Asking(query)
    BY <1>1, <1>4, <2>1, <2>2, AskingStep DEF OpenLists, ListsInv
  <2>3. CASE ~Asking(query)
    BY <1>1, <1>4, <2>3 DEF OpenLists, ListsInv
  <2>4. QED
    BY <2>2, <2>3
<1>5. CASE ListsNext
  BY <1>1, <1>5, ListsStep
<1>6. QED
  BY <1>2, <1>3, <1>4, <1>5
     DEF AdminNext, OpenTab, LeaveTab, AdminServerStep, OnlyOverview, OnlyProviders,
         OnlyChecks, OnlyEditing, pages, vars

\* However the answers of a tab overtake each other: the rows it shows answer the
\* query that it shows.
THEOREM RowsAlwaysAnswer == AdminSpec => []RowsAnswerTheQuery
<1>1. AdminInit => ListsInv
  <2>1. First(AllRows) \in Query /\ NoRows \in Rows /\ ~NoRows.on
    BY ListsAssumption DEF First, Query, NoRows, Rows
  <2>2. QED
    BY <2>1 DEF AdminInit, ListsClosed, ListsInv
<1>2. ListsInv /\ [AdminNext]_vars => ListsInv'
  BY ListsTabStep
<1>3. ListsInv => RowsAnswerTheQuery
  BY QueryType
     DEF ListsInv, RowsAnswerTheQuery, Shown, tasks, items, auditRows, historyRows,
         usage, available, Tagged
<1>4. QED
  BY <1>1, <1>2, <1>3, PTL DEF AdminSpec

-----------------------------------------------------------------------------
(***************************************************************************)
(* The tabs that edit a document.                                          *)
(***************************************************************************)
\* Whatever is typed, sent, answered or lost, by this page or by another one.
LEMMA EditsStep ==
  ASSUME EditsInv, EditingNext, tab' = tab, mounted' = mounted
  PROVE  EditsInv'
<1> USE DEF EditsInv, EditsAreKept, Document, OwnSteps, Tabs
<1>1. CASE set
  BY <1>1 DEF set, Type, Enabled, Editing
<1>2. CASE update
  BY <1>2 DEF update, Type, Enabled, Editing
<1>3. CASE TakeBack
  BY <1>3 DEF TakeBack, Enabled, Editing
<1>4. CASE commit
  BY <1>4 DEF commit, Enabled, Editing
<1>5. CASE save
  BY <1>5 DEF save, Send, Enabled, Editing
<1>6. CASE saveMonitoring
  BY <1>6 DEF saveMonitoring, Send, Enabled, Editing
<1>7. CASE act
  <2>1. typed \subseteq accepted
    BY <1>7 DEF act, dirty
  <2>2. QED
    BY <1>7, <2>1 DEF act, Send, Editing, Blank
<1>8. CASE discard
  BY <1>8 DEF discard, Send, Enabled, Editing, Blank
<1>9. CASE ServeSave
  BY <1>9 DEF ServeSave, Current
<1>10. CASE OtherSave
  BY <1>10 DEF OtherSave
<1>11. CASE SaveAnswers
  BY <1>11 DEF SaveAnswers
<1>12. CASE ActAnswers \/ Refused \/ Refreshed
  BY <1>12 DEF ActAnswers, Refused, Refreshed
<1>13. CASE ReadDocument
  BY <1>13 DEF ReadDocument
<1>14. CASE DocumentAnswers
  BY <1>14 DEF DocumentAnswers
<1>15. CASE RequestFails
  BY <1>15 DEF RequestFails
<1>16. CASE AskToLeave \/ Stay
  BY <1>16 DEF AskToLeave, Stay
<1>17. CASE exportConfig
  BY <1>17 DEF exportConfig
<1>18. CASE importConfig
  <2>1. PICK edits \in {sent.edits} \union {{edit} : edit \in Mine} :
          Send([edits |-> edits, version |-> 0], "import")
    BY <1>18 DEF importConfig
  <2>2. edits \in SUBSET (Mine \union Theirs)
    BY <2>1
  <2>3. sent' \in Document /\ step' = "import"
    BY <2>1, <2>2 DEF Send
  <2>4. tab = "config" /\ UNCHANGED <<doc, draft, saved, entry, typed, accepted>>
    BY <1>18 DEF importConfig, Open
  <2>5. QED
    BY <2>3, <2>4
<1>19. CASE ImportAnswers
  BY <1>19 DEF ImportAnswers
<1>20. QED
  BY <1>1, <1>2, <1>3, <1>4, <1>5, <1>6, <1>7, <1>8, <1>9, <1>10, <1>11, <1>12,
     <1>13, <1>14, <1>15, <1>16, <1>17, <1>18, <1>19 DEF EditingNext

\* A tab is opened with nothing typed; one that is left may still have sent its
\* document, and gives up the rest.
LEMMA EditsTabStep ==
  ASSUME EditsInv, [AdminNext]_vars
  PROVE  EditsInv'
<1>1. tab' = tab /\ (OpenTab \/ LeaveTab \/ mounted' = mounted)
  BY TabStays
<1> USE DEF EditsInv, EditsAreKept, Document, OwnSteps, Tabs
<1>2. CASE UNCHANGED <<editing, mounted>>
  BY <1>1, <1>2 DEF editing
<1>3. CASE OpenTab
  <2>1. mounted' /\ ~mounted
    BY <1>3 DEF OpenTab
  <2>2. CASE UNCHANGED editing
    BY <1>1, <2>1, <2>2 DEF editing
  <2>3. CASE OpenEditing
    BY <1>1, <2>1, <2>3 DEF OpenEditing
  <2>4. QED
    BY <1>3, <2>2, <2>3
       DEF OpenTab, OnlyOverview, OnlyProviders, OnlyChecks, OnlyLists
<1>4. CASE LeaveTab
  <2>1. ~mounted'
    BY <1>4 DEF LeaveTab
  <2>2. CASE UNCHANGED editing /\ tab \notin Tabs \union {"config"}
    BY <1>1, <2>1, <2>2 DEF editing
  <2>3. CASE LeaveEditing
    <3>1. /\ draft' = Unloaded /\ saved' = Unloaded /\ sent' = Blank /\ entry' = {}
          /\ typed' = {} /\ step' = "none"
          /\ Unloaded \in Document /\ Blank \in Document
          /\ Unloaded.edits = {} /\ Unloaded.version = -1
      BY <2>3 DEF LeaveEditing, Unloaded, Blank
    <3>2. CASE UNCHANGED <<doc, accepted>>
      BY <1>1, <2>1, <3>1, <3>2
    <3>3. CASE ~UNCHANGED <<doc, accepted>>
      <4>1. /\ step = "save" /\ Current(sent)
            /\ doc' = [edits |-> sent.edits, version |-> doc.version + 1]
            /\ accepted' = accepted \union sent.edits
        BY <2>3, <3>3 DEF LeaveEditing
      <4>2. tab = "monitoring" => accepted \subseteq sent.edits
        BY <4>1 DEF Current
      <4>3. QED
        BY <1>1, <2>1, <3>1, <4>1, <4>2
    <3>4. QED
      BY <3>2, <3>3
  <2>4. QED
    BY <1>4, <2>2, <2>3
       DEF LeaveTab, OnlyOverview, OnlyProviders, OnlyChecks, OnlyLists, ListTabs,
           Refreshing, Tagged, Paged
<1>5. CASE EditingNext /\ mounted' = mounted
  BY <1>1, <1>5, EditsStep
<1>6. QED
  BY <1>1, <1>2, <1>3, <1>4, <1>5
     DEF AdminNext, AdminServerStep, OnlyOverview, OnlyProviders, OnlyChecks, OnlyLists,
         pages, vars, page

\* However saves, reads, lost answers and the saves of other administrators follow
\* each other: what was typed is on the page or accepted, and of the settings of
\* monitoring nothing accepted is lost.
THEOREM EditsAreAlwaysKept == AdminSpec => []EditsAreKept
<1>1. AdminInit => EditsInv
  <2>1. Unloaded \in Document /\ Blank \in Document
    BY DEF Unloaded, Blank, Document
  <2>2. QED
    BY <2>1 DEF AdminInit, EditingClosed, EditsInv, EditsAreKept, Unloaded, Blank, OwnSteps
<1>2. EditsInv /\ [AdminNext]_vars => EditsInv'
  BY EditsTabStep
<1>3. EditsInv => EditsAreKept
  BY DEF EditsInv
<1>4. QED
  BY <1>1, <1>2, <1>3, PTL DEF AdminSpec

-----------------------------------------------------------------------------
(***************************************************************************)
(* The providers and the dialogs that change them.                         *)
(***************************************************************************)
\* A change makes a new edition, without what was reported as deleted.
LEMMA ChangeStep ==
  ASSUME ProvidersInv, NEW kind, NEW ids \in SUBSET Providers, Change(kind, ids)
  PROVE  /\ config' \in Edition
         /\ own' \in [kept : Nat, gone : SUBSET Providers]
         /\ own'.gone \subseteq own.gone /\ own'.kept = own.kept
         /\ own'.gone \intersect config'.ids = {}
         /\ config'.edition = config.edition + 1
  BY DEF ProvidersInv, Change, Edition

\* Whatever a dialog asks for, other administrators change and answers come late.
LEMMA ProvidersStep ==
  ASSUME ProvidersInv, ProvidersStay, ProvidersNext
  PROVE  ProvidersInv' /\ ProvidersStay'
<1> USE DEF ProvidersInv, ProvidersStay, Edition, Dialogs
<1>a. None \in Edition /\ None.ids = {} /\ None.edition = 0
  BY DEF None
<1>b. NoLoad \in [on : BOOLEAN, read : BOOLEAN, value : Edition]
      /\ ~NoLoad.on /\ ~NoLoad.read
  BY <1>a DEF NoLoad
<1>c. Closed \in Dialogs /\ Closed.at = "open"
  BY <1>a DEF Closed
<1>d. Reload => /\ listing' \in [on : BOOLEAN, read : BOOLEAN, value : Edition]
                /\ listing'.on /\ ~listing'.read /\ loadFailed' = FALSE
  BY <1>b DEF Reload, NoLoad
<1>1. CASE RefreshProviders
  BY <1>1, <1>d DEF RefreshProviders
<1>2. CASE ServeProviders
  BY <1>2 DEF ServeProviders
<1>3. CASE ProvidersAnswer
  BY <1>3, <1>b DEF ProvidersAnswer
<1>4. CASE ProvidersFail
  BY <1>4, <1>b DEF ProvidersFail
<1>5. CASE select
  BY <1>5 DEF select
<1>6. ASSUME NEW kind \in {"none", "new", "edit", "delete", "batch"},
             NEW ids \in SUBSET Providers, OpenDialog(kind, ids)
      PROVE  ProvidersInv' /\ ProvidersStay'
  <2>1. dialog' \in Dialogs /\ dialog'.at = "open"
    BY <1>6, <1>c DEF OpenDialog
  <2>2. QED
    BY <1>6, <2>1 DEF OpenDialog, listed
<1>7. CASE OpenBatch
  BY <1>6, <1>7 DEF OpenBatch
<1>8. CASE OpenRow
  BY <1>6, <1>8 DEF OpenRow
<1>9. CASE OpenForm
  BY <1>6, <1>9 DEF OpenForm
<1>10. CASE Cancel
  BY <1>10, <1>c DEF Cancel, listed
<1>11. CASE Confirm
  <2>1. dialog' \in Dialogs /\ dialog'.at = "sent"
    BY <1>11 DEF Confirm
  <2>2. QED
    BY <1>11, <2>1 DEF Confirm, listed
<1>12. CASE ServeChange
  <2>1. CASE Applies(dialog)
    <3>1. Change(dialog.kind, dialog.ids)
          /\ dialog' = [dialog EXCEPT !.at = "done", !.value = config']
      BY <1>12, <2>1 DEF ServeChange
    <3>2. /\ config' \in Edition
          /\ own' \in [kept : Nat, gone : SUBSET Providers]
          /\ own'.gone \subseteq own.gone /\ own'.kept = own.kept
          /\ own'.gone \intersect config'.ids = {}
          /\ config'.edition = config.edition + 1
      BY <3>1, ChangeStep
    <3>3. dialog' \in Dialogs /\ dialog'.value = config'
      BY <3>1, <3>2
    <3>4. UNCHANGED <<list, listing, loadFailed, selected>>
      BY <1>12 DEF ServeChange
    <3>5. QED
      BY <3>2, <3>3, <3>4
  <2>2. CASE ~Applies(dialog)
    BY <1>12, <2>2 DEF ServeChange
  <2>3. QED
    BY <2>1, <2>2
<1>13. CASE OtherChange
  <2>1. PICK kind \in {"new", "edit", "delete"}, id \in Providers : Change(kind, {id})
    BY <1>13 DEF OtherChange
  <2>2. /\ config' \in Edition
        /\ own' \in [kept : Nat, gone : SUBSET Providers]
        /\ own'.gone \subseteq own.gone /\ own'.kept = own.kept
        /\ own'.gone \intersect config'.ids = {}
        /\ config'.edition = config.edition + 1
    BY <2>1, ChangeStep
  <2>3. UNCHANGED <<list, listing, loadFailed, selected, dialog>>
    BY <1>13 DEF OtherChange
  <2>4. QED
    BY <2>2, <2>3
<1>14. CASE ChangeAnswers
  <2>1. dialog' \in Dialogs /\ dialog'.at = "open" /\ UNCHANGED config
    BY <1>14, <1>c DEF ChangeAnswers
  <2>a. /\ dialog.value \in Edition /\ dialog.ids \in SUBSET Providers
        /\ own.gone \intersect dialog.value.ids = {}
        /\ dialog.value.edition <= config.edition
    BY <1>14 DEF ChangeAnswers
  <2>2. CASE dialog.kind = "batch"
    <3>1. batch /\ own' = [kept |-> dialog.value.edition, gone |-> own.gone]
      BY <1>14, <2>2 DEF ChangeAnswers, Reported
    <3>2. /\ own' \in [kept : Nat, gone : SUBSET Providers]
          /\ own'.kept = dialog.value.edition /\ own'.gone = own.gone
      BY <2>a, <3>1
    <3>3. /\ list' = dialog.value /\ selected' = {} /\ loadFailed' = FALSE
          /\ listing' \in [on : BOOLEAN, read : BOOLEAN, value : Edition]
          /\ ~listing'.read
      BY <1>b, <3>1 DEF batch
    <3>4. ProvidersInv'
      BY <2>1, <2>a, <3>2, <3>3
    <3>5. ProvidersStay'
      BY <2>a, <3>2, <3>3
    <3>6. QED
      BY <3>4, <3>5
  <2>3. CASE dialog.kind = "delete"
    <3>1. remove /\ own' = [kept |-> dialog.value.edition,
                            gone |-> own.gone \union (dialog.ids \ config.ids)]
      BY <1>14, <2>3 DEF ChangeAnswers, Reported
    <3>2. /\ list' \in Edition /\ list'.ids = list.ids \ dialog.ids
          /\ selected' = selected \ dialog.ids
      BY <3>1 DEF remove
    <3>3. QED
      BY <1>d, <2>1, <2>a, <3>1, <3>2 DEF remove
  <2>4. CASE dialog.kind \notin {"batch", "delete"}
    <3>1. onSave /\ own' = [kept |-> dialog.value.edition, gone |-> own.gone]
      BY <1>14, <2>4 DEF ChangeAnswers, Reported
    <3>2. QED
      BY <1>d, <2>1, <2>a, <3>1 DEF onSave
  <2>5. QED
    BY <2>2, <2>3, <2>4
<1>15. CASE ChangeRefused \/ ChangeFails
  <2>1. dialog' \in Dialogs /\ dialog'.at = "open"
    <3>1. [dialog EXCEPT !.at = "open", !.value = None] \in Dialogs
      BY <1>a
    <3>2. dialog' = Closed \/ dialog' = [dialog EXCEPT !.at = "open", !.value = None]
      BY <1>15, Zenon DEF ChangeRefused, ChangeFails, AfterError
    <3>3. QED
      BY <1>c, <3>1, <3>2
  <2>2. QED
    BY <1>15, <2>1 DEF ChangeRefused, ChangeFails, listed
<1>16. QED
  BY <1>1, <1>2, <1>3, <1>4, <1>5, <1>7, <1>8, <1>9, <1>10, <1>11, <1>12, <1>13,
     <1>14, <1>15 DEF ProvidersNext

\* The other tabs leave the list alone; a tab that is opened or left has none.
LEMMA ProvidersTabStep ==
  ASSUME ProvidersInv, ProvidersStay, [AdminNext]_vars
  PROVE  ProvidersInv' /\ ProvidersStay'
<1>a. None \in Edition /\ None.ids = {} /\ None.edition = 0
  BY DEF None, Edition
<1>1. CASE UNCHANGED providers
  BY <1>1 DEF providers, ProvidersInv, ProvidersStay
<1>2. CASE OpenProviders
  BY <1>2, <1>a DEF OpenProviders, Reload, NoLoad, ProvidersInv, ProvidersStay
<1>3. CASE LeaveProviders
  <2>1. /\ NoLoad \in [on : BOOLEAN, read : BOOLEAN, value : Edition] /\ ~NoLoad.read
        /\ Closed \in Dialogs /\ Closed.at = "open"
    BY <1>a DEF NoLoad, Closed, Dialogs
  <2>2. /\ own' \in [kept : Nat, gone : SUBSET Providers]
        /\ own'.kept = 0 /\ own'.gone = {}
    BY <1>3 DEF LeaveProviders
  <2>3. /\ list' = None /\ listing' = NoLoad /\ dialog' = Closed /\ selected' = {}
        /\ loadFailed' = FALSE /\ config' = config
    BY <1>3 DEF LeaveProviders
  <2>4. config.edition \in Nat
    BY DEF ProvidersInv, Edition
  <2>5. ProvidersInv'
    <3>1. /\ listing' \in [on : BOOLEAN, read : BOOLEAN, value : Edition] /\ ~listing'.read
          /\ dialog' \in Dialogs /\ dialog'.at # "done"
          /\ list' \in Edition /\ config' \in Edition /\ config'.edition \in Nat
      BY <1>a, <2>1, <2>3, <2>4 DEF ProvidersInv
    <3>2. selected' \in SUBSET Providers /\ loadFailed' \in BOOLEAN
      BY <2>3
    <3>3. own'.kept <= config'.edition /\ own'.gone \intersect config'.ids = {}
      BY <2>2, <3>1
    <3>4. QED
      BY <2>2, <3>1, <3>2, <3>3 DEF ProvidersInv
  <2>6. ProvidersStay'
    BY <1>a, <2>2, <2>3 DEF ProvidersStay
  <2>7. QED
    BY <2>5, <2>6
<1>4. CASE ProvidersNext
  BY <1>4, ProvidersStep
<1>5. QED
  BY <1>1, <1>2, <1>3, <1>4
     DEF AdminNext, OpenTab, LeaveTab, AdminServerStep, OnlyOverview, OnlyChecks,
         OnlyEditing, OnlyLists, pages, vars

\* Whatever other administrators change and in whatever order answers come: what the
\* page reported as done stays so on the page, and nothing is selected that it
\* does not show.
THEOREM ProvidersAlwaysStay == AdminSpec => []ProvidersStay
<1>1. AdminInit => ProvidersInv /\ ProvidersStay
  <2>1. None \in Edition /\ None.ids = {} /\ None.edition = 0
    BY DEF None, Edition
  <2>2. /\ NoLoad \in [on : BOOLEAN, read : BOOLEAN, value : Edition] /\ ~NoLoad.read
        /\ Closed \in Dialogs /\ Closed.at = "open"
    BY <2>1 DEF NoLoad, Closed, Dialogs
  <2>3. ASSUME AdminInit
        PROVE  /\ own \in [kept : Nat, gone : SUBSET Providers]
               /\ own.kept = 0 /\ own.gone = {}
               /\ config \in Edition /\ config.edition = 0
               /\ list = None /\ listing = NoLoad /\ dialog = Closed /\ selected = {}
               /\ loadFailed = FALSE
    BY <2>3, ProvidersAssumption DEF AdminInit, ProvidersClosed, Edition
  <2>4. QED
    BY <2>1, <2>2, <2>3 DEF ProvidersInv, ProvidersStay, Edition
<1>2. ProvidersInv /\ ProvidersStay /\ [AdminNext]_vars => ProvidersInv' /\ ProvidersStay'
  BY ProvidersTabStep
<1>3. QED
  BY <1>1, <1>2, PTL DEF AdminSpec

-----------------------------------------------------------------------------
(***************************************************************************)
(* The overview implements TaskFollower, but for its fairness.             *)
(***************************************************************************)
Allowance == [tasks : 0..MaxTasks, troubles : Nat, presses : Nat]
Command == [at : {"none", "asked", "begun", "accepted", "refused"}, task : 0..MaxTasks]

\* The tasks of the server; the newest result is one of those stored.
TasksInv ==
  /\ newest \in 0..MaxTasks /\ stored \subseteq 1..newest
  /\ phase \in {"idle", "begun", "checking", "saved", "ended"}
  /\ phase = "begun" => newest < MaxTasks
  /\ phase \in {"checking", "saved", "ended"} => newest # 0
  /\ \E id \in stored \union {0} : \A other \in stored \union {0} : other <= id

\* A command that is accepted has a task.
CommandInv ==
  /\ left \in Allowance /\ command \in Command
  /\ command.at = "accepted" => command.task # 0

State == [known : BOOLEAN, running : BOOLEAN, task : 0..MaxTasks]
LoadRequest == [on : BOOLEAN, newestState : BOOLEAN, newestSummary : BOOLEAN,
                state : State, report : Int]
PollRound == [at : {"timer", "state", "task", "report"}, newestState : BOOLEAN,
              newestSummary : BOOLEAN, state : State, task : 0..MaxTasks, report : Int]

\* A report that was read and is still of use is not older than the summary.
Useful(request) ==
  request.report # Unread =>
    /\ request.report \in stored \union {0}
    /\ request.newestSummary => summary <= request.report

\* Of the load and the poll at most one may still change the summary, and the poll
\* reads the report of a task only when the task has ended.
FollowInv ==
  /\ watched \in 0..MaxTasks /\ shown \in State /\ summary \in stored \union {0}
  /\ loadOf \in LoadRequest /\ poll \in PollRound
  /\ Useful(loadOf) /\ Useful(poll)
  /\ ~(loadOf.newestSummary /\ poll.newestSummary)
  /\ poll.at \in {"task", "report"} => poll.task # 0
  /\ poll.at # "report" => poll.report = Unread
  /\ poll.at = "report" =>
       /\ TaskEnded(poll.task)
       /\ poll.report # Unread /\ poll.task \in stored => poll.task <= poll.report

-----------------------------------------------------------------------------
(***************************************************************************)
(* The server.                                                             *)
(***************************************************************************)
ServerMoves == BeginCheck \/ CheckGoesOn \/ InsertTask \/ InsertFails

\* Only the server moves its checks.
LEMMA OnlyTheServerMoves ==
  ASSUME [AdminNext]_vars
  PROVE  UNCHANGED server \/ (AdminServerStep /\ ServerMoves)
<1>1. CASE OpenTab \/ LeaveTab
  BY <1>1 DEF OpenTab, LeaveTab
<1>2. CASE AdminServerStep
  BY <1>2 DEF AdminServerStep, ServerStep, ServeRun, ServerMoves
<1>3. CASE OverviewNext
  BY <1>3
     DEF OverviewNext, Refresh, ServeLoad, LoadAnswers, LoadFails, PollTick, ServePoll,
         PollTakesState, PollTakesTask, PollTakesReport, PollFails, run, RunAnswers,
         RunFails, stop, StopAnswers
<1>4. CASE ProvidersNext
  BY <1>4
     DEF ProvidersNext, RefreshProviders, ServeProviders, ProvidersAnswer,
         ProvidersFail, select, OpenBatch, OpenRow, OpenForm, OpenDialog, Cancel,
         Confirm, ServeChange, OtherChange, ChangeAnswers, ChangeRefused, ChangeFails
<1>5. CASE ChecksNext
  BY <1>5
     DEF ChecksNext, rerun, OpenModels, ModelsAnswer, CloseModels, runModels,
         CheckAnswers, PollChecks, ServeRound, TakeRound, RoundFails
<1>6. CASE EditingNext
  BY <1>6
     DEF EditingNext, set, update, Type, TakeBack, commit, save, saveMonitoring, act,
         discard, ServeSave, OtherSave, SaveAnswers, ActAnswers, Refused, Refreshed,
         ReadDocument, DocumentAnswers, RequestFails, AskToLeave, Stay, exportConfig,
         importConfig, ImportAnswers
<1>7. CASE ListsNext
  BY <1>7
     DEF ListsNext, setFilter, apply, setDays, setConnection, Choose, Turn, RefreshRows,
         LookAgain, SyncModels, RowsAnswer, RowsFail, AskRetry, send, SendEnds, SendFails
<1>8. CASE UNCHANGED vars
  BY <1>8 DEF vars
<1>9. QED
  BY <1>1, <1>2, <1>3, <1>4, <1>5, <1>6, <1>7, <1>8 DEF AdminNext

\* An allowance only becomes less.
LEMMA LeftStep ==
  ASSUME left \in Allowance, [AdminNext]_vars
  PROVE  left' \in Allowance
<1>a. Press \/ Trouble => left' \in Allowance
  BY DEF Press, Trouble, Allowance
<1>1. CASE OpenTab \/ LeaveTab \/ AdminServerStep
  BY <1>a, <1>1 DEF OpenTab, LeaveTab, AdminServerStep, ServerStep, ServeRun
<1>2. CASE OverviewNext
  BY <1>a, <1>2
     DEF OverviewNext, Refresh, ServeLoad, LoadAnswers, LoadFails, PollTick, ServePoll,
         PollTakesState, PollTakesTask, PollTakesReport, PollFails, run, RunAnswers,
         RunFails, stop, StopAnswers
<1>3. CASE ProvidersNext
  BY <1>a, <1>3
     DEF ProvidersNext, RefreshProviders, ServeProviders, ProvidersAnswer,
         ProvidersFail, select, OpenBatch, OpenRow, OpenForm, OpenDialog, Cancel,
         Confirm, ServeChange, OtherChange, ChangeAnswers, ChangeRefused, ChangeFails
<1>4. CASE ChecksNext
  BY <1>a, <1>4
     DEF ChecksNext, rerun, OpenModels, ModelsAnswer, CloseModels, runModels,
         CheckAnswers, Accepted, NotAccepted, PollChecks, ServeRound, TakeRound,
         RoundFails
<1>5. CASE EditingNext
  BY <1>a, <1>5
     DEF EditingNext, set, update, Type, TakeBack, commit, save, saveMonitoring, act,
         discard, Send, ServeSave, OtherSave, SaveAnswers, ActAnswers, Refused,
         Refreshed, ReadDocument, DocumentAnswers, RequestFails, AskToLeave, Stay,
         exportConfig, importConfig, ImportAnswers
<1>6. CASE ListsNext
  BY <1>a, <1>6
     DEF ListsNext, setFilter, apply, setDays, setConnection, Choose, Turn, RefreshRows,
         LookAgain, SyncModels, RowsAnswer, RowsFail, AskRetry, send, SendEnds, SendFails
<1>7. CASE UNCHANGED vars
  BY <1>7 DEF vars
<1>8. QED
  BY <1>1, <1>2, <1>3, <1>4, <1>5, <1>6, <1>7 DEF AdminNext

\* A task that has ended stays so and leaves no result any more; the newest result
\* is always stored.
LEMMA TasksStep ==
  ASSUME TasksInv, left \in Allowance, ServerMoves
  PROVE  /\ TasksInv' /\ newest <= newest'
         /\ \/ UNCHANGED stored
            \/ newest \in Tasks /\ stored' = stored \union {newest}
         /\ \A id \in Int : TaskEnded(id) =>
              TaskEnded(id)' /\ (id \in stored' => id \in stored)
<1> USE AdminAssumption DEF TasksInv, TaskEnded, Tasks
<1>1. CASE BeginCheck
  BY <1>1 DEF BeginCheck, Allowance
<1>2. CASE RecordCheck
  <2>1. /\ phase = "checking" /\ phase' = "saved" /\ newest' = newest
        /\ stored' = stored \union {newest}
    BY <1>2 DEF RecordCheck
  <2>2. \A other \in stored' \union {0} : other <= newest
    BY <2>1
  <2>3. newest \in stored' \union {0}
    BY <2>1
  <2>4. QED
    BY <2>1, <2>2, <2>3
<1>3. CASE FinishCheckTask \/ finishRunState
  <2>1. UNCHANGED <<newest, stored>> /\ phase' \in {"ended", "idle"} /\ newest # 0
    BY <1>3 DEF FinishCheckTask, finishRunState
  <2>2. QED
    BY <2>1
<1>4. CASE InsertTask
  BY <1>4 DEF InsertTask
<1>5. CASE InsertFails
  BY <1>5 DEF InsertFails
<1>6. QED
  BY <1>1, <1>2, <1>3, <1>4, <1>5 DEF ServerMoves, CheckGoesOn

\* A command is begun by a page and accepted by the server.
LEMMA CommandStep ==
  ASSUME TasksInv, CommandInv, [AdminNext]_vars
  PROVE  CommandInv'
<1> USE DEF CommandInv
<1>a. left' \in Allowance
  BY LeftStep
<1>b. Idle \in Command /\ Idle.at = "none"
  BY AdminAssumption DEF Idle, Command
<1>c. ASSUME NEW at \in {"asked", "begun", "refused"}
      PROVE  [Idle EXCEPT !.at = at] \in Command /\ [Idle EXCEPT !.at = at].at # "accepted"
  BY <1>b DEF Command
<1>1. CASE UNCHANGED command \/ command' = Idle
  BY <1>a, <1>b, <1>1
<1>2. CASE Ask
  BY <1>a, <1>c, <1>2 DEF Ask
<1>3. CASE command' = [Idle EXCEPT !.at = "begun"] \/ command' = [Idle EXCEPT !.at = "refused"]
  BY <1>a, <1>c, <1>3
<1>4. CASE InsertTask /\ command' = [at |-> "accepted", task |-> newest']
  <2>1. newest' \in 0..MaxTasks /\ newest' # 0
    BY <1>4, AdminAssumption DEF InsertTask, TasksInv
  <2>2. QED
    BY <1>a, <1>4, <2>1 DEF Command
<1>5. CASE AdminServerStep
  BY <1>1, <1>3, <1>4, <1>5 DEF AdminServerStep, ServerStep, ServeRun
<1>6. CASE OpenTab \/ LeaveTab
  BY <1>1, <1>6 DEF OpenTab, LeaveTab
<1>7. CASE OverviewNext
  BY <1>1, <1>2, <1>7
     DEF OverviewNext, Refresh, ServeLoad, LoadAnswers, LoadFails, PollTick, ServePoll,
         PollTakesState, PollTakesTask, PollTakesReport, PollFails, run, RunAnswers,
         RunFails, stop, StopAnswers
<1>8. CASE ProvidersNext
  BY <1>1, <1>8
     DEF ProvidersNext, RefreshProviders, ServeProviders, ProvidersAnswer,
         ProvidersFail, select, OpenBatch, OpenRow, OpenForm, OpenDialog, Cancel,
         Confirm, ServeChange, OtherChange, ChangeAnswers, ChangeRefused, ChangeFails
<1>9. CASE ChecksNext
  BY <1>1, <1>2, <1>9
     DEF ChecksNext, rerun, OpenModels, ModelsAnswer, CloseModels, runModels,
         CheckAnswers, PollChecks, ServeRound, TakeRound, RoundFails
<1>10. CASE EditingNext
  BY <1>1, <1>10
     DEF EditingNext, set, update, Type, TakeBack, commit, save, saveMonitoring, act,
         discard, ServeSave, OtherSave, SaveAnswers, ActAnswers, Refused, Refreshed,
         ReadDocument, DocumentAnswers, RequestFails, AskToLeave, Stay, exportConfig,
         importConfig, ImportAnswers
<1>11. CASE ListsNext
  BY <1>1, <1>11
     DEF ListsNext, setFilter, apply, setDays, setConnection, Choose, Turn, RefreshRows,
         LookAgain, SyncModels, RowsAnswer, RowsFail, AskRetry, send, SendEnds, SendFails
<1>12. CASE UNCHANGED vars
  BY <1>1, <1>12 DEF vars
<1>13. QED
  BY <1>5, <1>6, <1>7, <1>8, <1>9, <1>10, <1>11, <1>12 DEF AdminNext

-----------------------------------------------------------------------------
(***************************************************************************)
(* The requests of the overview.                                           *)
(***************************************************************************)
\* What the server says.
LEMMA ServerAnswers ==
  ASSUME TasksInv
  PROVE  /\ Known(RunningState) \in State
         /\ StoredReport \in stored \union {0}
         /\ \A other \in stored \union {0} : other <= StoredReport
<1>1. Known(RunningState) \in State
  BY AdminAssumption DEF Known, RunningState, State, TasksInv
<1>2. /\ Newest(stored) \in stored \union {0}
      /\ \A other \in stored \union {0} : other <= Newest(stored)
  <2>1. \E id \in stored \union {0} : \A other \in stored \union {0} : other <= id
    BY DEF TasksInv
  <2>2. /\ Newest(stored) \in stored \union {0}
        /\ \A other \in stored : other <= Newest(stored)
    BY <2>1, Zenon DEF Newest
  <2>3. stored \union {0} \subseteq Nat
    BY DEF TasksInv
  <2>4. QED
    BY <2>2, <2>3
<1>3. QED
  BY <1>1, <1>2 DEF StoredReport

\* Requests that ask for nothing yet.
LEMMA Fresh ==
  /\ NoState \in State /\ Quiet \in LoadRequest /\ Waiting \in PollRound
  /\ ~Quiet.newestSummary /\ ~Waiting.newestSummary
  /\ Quiet.report = Unread /\ Waiting.report = Unread /\ Waiting.at = "timer"
  /\ Unread \in Int /\ Unread \notin Nat
<1>1. NoState \in State
  BY AdminAssumption DEF NoState, State
<1>2. QED
  BY <1>1, AdminAssumption DEF Quiet, Waiting, LoadRequest, PollRound, Unread

\* A new load overtakes what the poll has asked.
LEMMA LoadStep ==
  ASSUME TasksInv, FollowInv, Load
  PROVE  /\ loadOf' \in LoadRequest /\ loadOf'.report = Unread
         /\ poll' \in PollRound /\ ~poll'.newestSummary
         /\ poll'.at = poll.at /\ poll'.task = poll.task /\ poll'.report = poll.report
<1>1. loadOf' \in LoadRequest /\ loadOf'.report = Unread
  BY Fresh DEF Load, LoadRequest
<1>2. QED
  BY <1>1 DEF Load, StateOvertaken, SummaryOvertaken, FollowInv, PollRound

\* A task that ended is no longer shown as the one that runs.
LEMMA StoppedState ==
  ASSUME NEW old \in State
  PROVE  [old EXCEPT !.running = FALSE, !.task = 0] \in State
<1>1. 0 \in 0..MaxTasks
  BY AdminAssumption
<1> DEFINE stopped == [old EXCEPT !.running = FALSE]
<1>2. stopped \in State
  BY DEF State
<1>3. [stopped EXCEPT !.task = 0] \in State
  BY <1>1, <1>2 DEF State
<1>4. [old EXCEPT !.running = FALSE, !.task = 0] = [stopped EXCEPT !.task = 0]
  OBVIOUS
<1>5. QED
  BY <1>3, <1>4

\* Every step of the overview keeps what is known of its requests.
LEMMA OverviewStep ==
  ASSUME TasksInv, CommandInv, FollowInv, OverviewNext, UNCHANGED server
  PROVE  FollowInv'
<1> USE Fresh DEF FollowInv, Useful
<1>a. \A id : TaskEnded(id)' = TaskEnded(id)
  BY DEF TaskEnded, server
<1>b. stored' = stored /\ stored \union {0} \subseteq 0..MaxTasks
  BY AdminAssumption DEF server, TasksInv
<1>c. ASSUME Load, UNCHANGED <<shown, summary>>, watched' \in 0..MaxTasks
      PROVE  FollowInv'
  BY <1>a, <1>b, <1>c, LoadStep
<1>d. ASSUME NEW state \in State
      PROVE  Adopt(state) \in 0..MaxTasks
  BY <1>d DEF Adopt, State
<1>1. CASE Refresh
  BY <1>c, <1>1 DEF Refresh
<1>2. CASE ServeLoad
  <2>1. \/ loadOf' = [loadOf EXCEPT !.state = Known(RunningState)]
        \/ loadOf' = [loadOf EXCEPT !.report = StoredReport]
    BY <1>2 DEF ServeLoad
  <2>2. /\ loadOf' \in LoadRequest /\ loadOf'.newestSummary = loadOf.newestSummary
        /\ loadOf'.report \in {loadOf.report, StoredReport}
    BY <1>b, <2>1, ServerAnswers DEF LoadRequest
  <2>3. UNCHANGED <<watched, shown, summary, poll>>
    BY <1>2 DEF ServeLoad
  <2>4. QED
    BY <1>a, <1>b, <2>2, <2>3, ServerAnswers
<1>3. CASE LoadAnswers
  <2>1. watched' \in 0..MaxTasks /\ shown' \in State
    BY <1>d, <1>3 DEF LoadAnswers, LoadRequest
  <2>2. /\ summary' \in stored \union {0}
        /\ summary' # summary => loadOf.newestSummary
    BY <1>3 DEF LoadAnswers, NewestSummary
  <2>3. loadOf' = Quiet /\ poll' = poll
    BY <1>3 DEF LoadAnswers
  <2>4. QED
    BY <1>a, <1>b, <2>1, <2>2, <2>3
<1>4. CASE LoadFails
  <2>1. loadOf' = Quiet /\ UNCHANGED <<watched, shown, summary, poll>>
    BY <1>4 DEF LoadFails
  <2>2. QED
    BY <1>a, <1>b, <2>1
<1>5. CASE PollTick
  <2>1. /\ loadOf' \in LoadRequest /\ loadOf'.report = loadOf.report
        /\ loadOf'.newestSummary = loadOf.newestSummary
    BY <1>5 DEF PollTick, StateOvertaken, LoadRequest
  <2>2. /\ poll' \in PollRound /\ poll'.at = "state" /\ poll'.report = Unread
        /\ ~poll'.newestSummary
    BY <1>5 DEF PollTick, PollRound
  <2>3. UNCHANGED <<watched, shown, summary>>
    BY <1>5 DEF PollTick
  <2>4. QED
    BY <1>a, <1>b, <2>1, <2>2, <2>3
<1>6. CASE ServePoll
  <2>1. UNCHANGED <<watched, shown, summary, loadOf>>
    BY <1>6 DEF ServePoll
  <2>2. CASE poll.at = "state" /\ poll' = [poll EXCEPT !.state = Known(RunningState)]
    <3>1. /\ poll' \in PollRound /\ poll'.at = poll.at /\ poll'.report = poll.report
          /\ poll'.newestSummary = poll.newestSummary
      BY <2>2, ServerAnswers DEF PollRound
    <3>2. QED
      BY <1>a, <1>b, <2>1, <2>2, <3>1
  <2>3. CASE poll.at = "report" /\ poll' = [poll EXCEPT !.report = StoredReport]
    <3>1. /\ poll' \in PollRound /\ poll'.at = poll.at /\ poll'.report = StoredReport
          /\ poll'.newestSummary = poll.newestSummary /\ poll'.task = poll.task
      BY <1>b, <2>3, ServerAnswers DEF PollRound
    <3>2. QED
      BY <1>a, <1>b, <2>1, <2>3, <3>1, ServerAnswers
  <2>4. QED
    BY <1>6, <2>2, <2>3 DEF ServePoll
<1>7. CASE PollTakesState
  <2>1. watched' \in 0..MaxTasks /\ shown' \in State
    BY <1>d, <1>7 DEF PollTakesState, PollRound
  <2>2. UNCHANGED <<summary, loadOf>>
    BY <1>7 DEF PollTakesState
  <2>3. /\ poll' \in PollRound /\ poll'.report = Unread /\ ~poll'.newestSummary
        /\ poll'.at \in {"timer", "task"}
        /\ poll'.at = "task" => poll'.task # 0
    BY <1>7, <2>1 DEF PollTakesState, PollRound
  <2>4. QED
    BY <1>a, <1>b, <2>1, <2>2, <2>3
<1>8. CASE PollTakesTask
  <2>1. UNCHANGED <<watched, shown, summary>> /\ poll.at = "task"
    BY <1>8 DEF PollTakesTask
  <2>2. CASE watched = poll.task /\ TaskEnded(poll.task)
    <3>1. /\ poll' = [poll EXCEPT !.at = "report", !.newestSummary = TRUE]
          /\ loadOf' = SummaryOvertaken(loadOf)
      BY <1>8, <2>2 DEF PollTakesTask
    <3>2. /\ poll' \in PollRound /\ poll'.at = "report" /\ poll'.task = poll.task
          /\ poll'.report = Unread
      BY <2>1, <3>1 DEF PollRound
    <3>3. /\ loadOf' \in LoadRequest /\ ~loadOf'.newestSummary
          /\ loadOf'.report = loadOf.report
      BY <3>1 DEF SummaryOvertaken, LoadRequest
    <3>4. QED
      BY <1>a, <1>b, <2>1, <2>2, <3>2, <3>3
  <2>3. CASE ~(watched = poll.task /\ TaskEnded(poll.task))
    <3>1. poll' = Waiting /\ loadOf' = loadOf
      BY <1>8, <2>3 DEF PollTakesTask
    <3>2. QED
      BY <1>a, <1>b, <2>1, <3>1
  <2>4. QED
    BY <2>2, <2>3
<1>9. CASE PollTakesReport
  <2>1. poll' = Waiting
    BY <1>9 DEF PollTakesReport
  <2>2. CASE watched = poll.task /\ poll.newestSummary
    <3>1. /\ watched' = 0 /\ summary' = poll.report
          /\ loadOf' = StateOvertaken(loadOf)
          /\ shown' = IF shown.task = poll.task
                        THEN [shown EXCEPT !.running = FALSE, !.task = 0] ELSE shown
      BY <1>9, <2>2 DEF PollTakesReport
    <3>2. shown' \in State /\ 0 \in 0..MaxTasks
      <4>1. shown \in State
        OBVIOUS
      <4>2. [shown EXCEPT !.running = FALSE, !.task = 0] \in State
        BY <4>1, StoppedState
      <4>3. QED
        BY <3>1, <4>1, <4>2, AdminAssumption
    <3>3. /\ loadOf' \in LoadRequest /\ ~loadOf'.newestSummary
          /\ loadOf'.report = loadOf.report
      BY <2>2, <3>1 DEF StateOvertaken, LoadRequest
    <3>4. summary' \in stored \union {0}
      BY <1>9, <3>1 DEF PollTakesReport
    <3>5. QED
      BY <1>a, <1>b, <2>1, <3>1, <3>2, <3>3, <3>4
  <2>3. CASE ~(watched = poll.task /\ poll.newestSummary)
    <3>1. UNCHANGED <<watched, summary, loadOf, shown>>
      BY <1>9, <2>3 DEF PollTakesReport
    <3>2. QED
      BY <1>a, <1>b, <2>1, <3>1
  <2>4. QED
    BY <2>2, <2>3
<1>10. CASE PollFails
  <2>1. poll' = Waiting /\ UNCHANGED <<watched, shown, summary, loadOf>>
    BY <1>10 DEF PollFails
  <2>2. QED
    BY <1>a, <1>b, <2>1
<1>11. CASE RunAnswers
  <2>1. UNCHANGED <<shown, summary>>
    BY <1>11 DEF RunAnswers
  <2>2. CASE Load /\ watched' = command.task
    BY <1>c, <2>1, <2>2 DEF CommandInv, Command
  <2>3. CASE UNCHANGED <<watched, loadOf, poll>>
    BY <1>a, <1>b, <2>1, <2>3
  <2>4. QED
    BY <1>11, <2>2, <2>3 DEF RunAnswers
<1>12. CASE run \/ RunFails \/ stop \/ StopAnswers
  BY <1>a, <1>b, <1>12 DEF run, RunFails, stop, StopAnswers
<1>13. QED
  BY <1>1, <1>2, <1>3, <1>4, <1>5, <1>6, <1>7, <1>8, <1>9, <1>10, <1>11, <1>12
     DEF OverviewNext

\* The server, the other tabs, and a tab that is opened or left.
LEMMA FollowStep ==
  ASSUME TasksInv, CommandInv, FollowInv, [AdminNext]_vars
  PROVE  FollowInv'
<1>1. CASE UNCHANGED <<overview, server>>
  BY <1>1 DEF overview, server, FollowInv, Useful, TaskEnded
<1>2. CASE ServerMoves /\ UNCHANGED overview
  <2>1. /\ stored \subseteq stored'
        /\ \A id \in Int : TaskEnded(id) =>
             TaskEnded(id)' /\ (id \in stored' => id \in stored)
    BY <1>2, TasksStep DEF CommandInv
  <2>2. poll.task \in Int
    BY DEF FollowInv, PollRound
  <2>3. TaskEnded(poll.task) =>
          TaskEnded(poll.task)' /\ (poll.task \in stored' => poll.task \in stored)
    BY <1>2, <2>1, <2>2 DEF overview, TaskEnded
  <2>4. QED
    BY <1>2, <2>1, <2>3 DEF overview, FollowInv, Useful
<1>3. CASE OpenOverview /\ UNCHANGED server
  BY <1>3, LoadStep, Fresh DEF OpenOverview, FollowInv, Useful, server, TaskEnded
<1>4. CASE LeaveOverview /\ UNCHANGED server
  BY <1>4, Fresh, AdminAssumption DEF LeaveOverview, FollowInv, Useful, server
<1>5. CASE OverviewNext /\ UNCHANGED server
  BY <1>5, OverviewStep
<1>6. QED
  BY <1>1, <1>2, <1>3, <1>4, <1>5, OnlyTheServerMoves
     DEF AdminNext, OpenTab, LeaveTab, AdminServerStep, OnlyProviders, OnlyChecks,
         OnlyEditing, OnlyLists, pages, vars

-----------------------------------------------------------------------------
(***************************************************************************)
(* The steps of the abstract follower.                                     *)
(***************************************************************************)
\* The answer of a request that is still the newest is a newer summary or the same.
LEMMA SummaryIsNewer ==
  ASSUME TasksInv, FollowInv, NEW value,
         value = summary \/ (value \in stored \union {0} /\ summary <= value),
         summary' = value
  PROVE  Follower!NewerSummary
<1>1. CASE value = summary
  BY <1>1 DEF Follower!NewerSummary
<1>2. CASE value # summary
  <2>1. /\ value \in stored \union {0} /\ summary <= value
        /\ summary \in stored \union {0}
    BY <1>2 DEF FollowInv
  <2>a. stored \union {0} \subseteq Nat
    BY DEF TasksInv
  <2>2. value > summary /\ value \in stored
    BY <1>2, <2>1, <2>a
  <2>3. QED
    BY <2>2 DEF Follower!NewerSummary
<1>3. QED
  BY <1>1, <1>2

\* What the page is told of a running task makes it follow that task or none.
LEMMA FollowsOrSees ==
  ASSUME TasksInv, FollowInv, Follower!NewerSummary, UNCHANGED <<told, stored>>,
         watched' \in 0..MaxTasks,
         watched' = 0 => watched = 0
  PROVE  Follower!Next
<1>1. CASE watched' = watched
  BY <1>1 DEF Follower!Next, Follower!See
<1>2. CASE watched' # watched
  <2>1. watched' \in Tasks
    BY <1>2, AdminAssumption DEF Tasks
  <2>2. Follower!Follow(watched')
    BY <1>2 DEF Follower!Follow
  <2>3. QED
    BY <2>1, <2>2 DEF Follower!Next
<1>3. QED
  BY <1>1, <1>2

\* A step of the overview is a step of the follower.
LEMMA OverviewRefines ==
  ASSUME TasksInv, CommandInv, FollowInv, OverviewNext, UNCHANGED server
  PROVE  [Follower!Next]_<<watched, told, summary, stored>>
<1>1. stored' = stored
  BY DEF server
<1>2. CASE UNCHANGED <<watched, told, summary>>
  BY <1>1, <1>2
<1>3. ASSUME NEW state \in State
      PROVE  Adopt(state) \in 0..MaxTasks /\ (Adopt(state) = 0 => watched = 0)
  BY <1>3 DEF Adopt, State, FollowInv
<1>4. CASE LoadAnswers
  <2>1. watched' \in 0..MaxTasks /\ (watched' = 0 => watched = 0) /\ told' = told
    BY <1>3, <1>4 DEF LoadAnswers, LoadRequest, FollowInv
  <2>2. \/ summary' = summary
        \/ summary' \in stored \union {0} /\ summary <= summary'
    BY <1>4 DEF LoadAnswers, NewestSummary, FollowInv, Useful
  <2>3. Follower!NewerSummary
    BY <2>2, SummaryIsNewer
  <2>4. QED
    BY <1>1, <2>1, <2>3, FollowsOrSees
<1>5. CASE PollTakesState
  <2>1. watched' \in 0..MaxTasks /\ (watched' = 0 => watched = 0)
        /\ UNCHANGED <<told, summary>>
    BY <1>3, <1>5 DEF PollTakesState, PollRound, FollowInv
  <2>2. Follower!NewerSummary
    BY <2>1 DEF Follower!NewerSummary
  <2>3. QED
    BY <1>1, <2>1, <2>2, FollowsOrSees
<1>6. CASE PollTakesReport
  <2>1. CASE watched = poll.task /\ poll.newestSummary
    <3>1. watched' = 0 /\ told' = watched /\ summary' = poll.report
          /\ poll.at = "report" /\ poll.report # Unread
      BY <1>6, <2>1 DEF PollTakesReport
    <3>2. /\ watched # 0
          /\ poll.report \in stored \union {0} /\ summary <= poll.report
          /\ watched \in stored => poll.report >= watched
      BY <2>1, <3>1, AdminAssumption DEF FollowInv, Useful, PollRound, TasksInv
    <3>3. Follower!NewerSummary
      BY <3>1, <3>2, SummaryIsNewer
    <3>4. Follower!Tell
      BY <1>1, <3>1, <3>2, <3>3 DEF Follower!Tell
    <3>5. QED
      BY <3>4 DEF Follower!Next
  <2>2. CASE ~(watched = poll.task /\ poll.newestSummary)
    BY <1>2, <1>6, <2>2 DEF PollTakesReport
  <2>3. QED
    BY <2>1, <2>2
<1>7. CASE RunAnswers
  <2>1. CASE watched' = command.task /\ command.at = "accepted"
    <3>1. watched' \in 0..MaxTasks /\ watched' # 0 /\ UNCHANGED <<told, summary>>
      BY <1>7, <2>1 DEF RunAnswers, CommandInv, Command
    <3>2. Follower!NewerSummary
      BY <3>1 DEF Follower!NewerSummary
    <3>3. QED
      BY <1>1, <3>1, <3>2, FollowsOrSees
  <2>2. CASE UNCHANGED watched
    BY <1>2, <1>7, <2>2 DEF RunAnswers
  <2>3. QED
    BY <1>7, <2>1, <2>2 DEF RunAnswers
<1>8. CASE \/ Refresh \/ ServeLoad \/ LoadFails \/ PollTick \/ ServePoll \/ PollTakesTask
           \/ PollFails \/ run \/ RunFails \/ stop \/ StopAnswers
  BY <1>2, <1>8
     DEF Refresh, ServeLoad, LoadFails, PollTick, ServePoll, PollTakesTask, PollFails,
         run, RunFails, stop, StopAnswers
<1>9. QED
  BY <1>4, <1>5, <1>6, <1>7, <1>8 DEF OverviewNext

\* Every step of the pages is a step of the follower, or none.
LEMMA AdminRefines ==
  ASSUME TasksInv, CommandInv, FollowInv, [AdminNext]_vars
  PROVE  [Follower!Next]_<<watched, told, summary, stored>>
<1>1. CASE UNCHANGED <<overview, server>>
  BY <1>1 DEF overview, server
<1>2. CASE ServerMoves /\ UNCHANGED overview
  <2>1. \/ UNCHANGED stored
        \/ newest \in Tasks /\ stored' = stored \union {newest}
    BY <1>2, TasksStep DEF CommandInv
  <2>2. UNCHANGED <<watched, told, summary>>
    BY <1>2 DEF overview
  <2>3. newest \in Tasks /\ stored' = stored \union {newest} => Follower!Next
    BY <2>2 DEF Follower!Next, Follower!LeaveResult
  <2>4. QED
    BY <2>1, <2>2, <2>3
<1>3. CASE OpenOverview /\ UNCHANGED server
  BY <1>3 DEF OpenOverview, server
<1>4. CASE LeaveOverview /\ UNCHANGED server
  BY <1>4 DEF LeaveOverview, server, Follower!Next, Follower!Leave
<1>5. CASE OverviewNext /\ UNCHANGED server
  BY <1>5, OverviewRefines
<1>6. QED
  BY <1>1, <1>2, <1>3, <1>4, <1>5, OnlyTheServerMoves
     DEF AdminNext, OpenTab, LeaveTab, AdminServerStep, OnlyProviders, OnlyChecks,
         OnlyEditing, OnlyLists, pages, vars

\* The overview implements the safety of TaskFollower, which OverviewFollows states
\* with its fairness: it tells the end of a task only together with a summary that
\* has the task's result, and never goes back to an older summary.
THEOREM OverviewImplements ==
  AdminSpec => Follower!Init /\ [][Follower!Next]_<<watched, told, summary, stored>>
<1>1. AdminInit => Follower!Init
  BY DEF AdminInit, OverviewClosed, ServerInit, Follower!Init
<1>2. AdminInit => TasksInv /\ CommandInv /\ FollowInv
  <2>1. ASSUME AdminInit PROVE TasksInv
    BY <2>1, AdminAssumption DEF AdminInit, ServerInit, TasksInv
  <2>2. ASSUME AdminInit PROVE CommandInv
    <3>1. left \in Allowance
      BY <2>2, AdminAssumption DEF AdminInit, ServerInit, Allowance
    <3>2. QED
      BY <2>2, <3>1, AdminAssumption DEF AdminInit, ServerInit, CommandInv, Command, Idle
  <2>3. ASSUME AdminInit PROVE FollowInv
    BY <2>3, Fresh, AdminAssumption
       DEF AdminInit, OverviewClosed, ServerInit, FollowInv, Useful
  <2>4. QED
    BY <2>1, <2>2, <2>3
<1>3. TasksInv /\ CommandInv /\ [AdminNext]_vars => TasksInv'
  BY TasksStep, OnlyTheServerMoves DEF CommandInv, TasksInv, server
<1>4. TasksInv /\ CommandInv /\ [AdminNext]_vars => CommandInv'
  BY CommandStep
<1>5. TasksInv /\ CommandInv /\ FollowInv /\ [AdminNext]_vars => FollowInv'
  BY FollowStep
<1>6. TasksInv /\ CommandInv /\ FollowInv /\ [AdminNext]_vars =>
        [Follower!Next]_<<watched, told, summary, stored>>
  BY AdminRefines
<1>7. QED
  BY <1>1, <1>2, <1>3, <1>4, <1>5, <1>6, PTL DEF AdminSpec
=============================================================================
