--------------------------- MODULE ProvidersPage ---------------------------
(***************************************************************************)
(* ProvidersTab: the list of the providers, the selection, and the dialogs *)
(* that change providers.  The checks begun from this page are in          *)
(* ProviderChecks: they share with the rest only that one dialog is open   *)
(* at a time.                                                              *)
(*                                                                         *)
(* A configuration is the providers it has and its edition, the number of  *)
(* changes made so far.  The dialogs are modal: with one open nothing else *)
(* on the page is clicked, but answers still come.  Of the requests of     *)
(* load only the last one counts, so only that one is kept.  Searching and *)
(* filtering choose among the providers shown; so a selection is any set   *)
(* of them.                                                                *)
(***************************************************************************)
EXTENDS AdminServer

CONSTANTS
  Providers,   \* ids
  Configured,  \* those there are at first
  MaxEdition   \* bound on the changes of a behaviour

ASSUME ProvidersAssumption == Configured \subseteq Providers /\ MaxEdition \in Nat

VARIABLES
  config,     \* the providers of the server
  others,     \* history: changes made by other administrators, at most one
  list,       \* providers
  listing,    \* the last load
  loadFailed,
  selected,
  dialog,     \* the dialog that is open, and its request
  own         \* history: what the page has reported as done

providers == <<config, others, list, listing, loadFailed, selected, dialog, own>>

\* What a request can change on the page: everything else of it.
listed == <<list, listing, loadFailed, selected, own>>

None == [ids |-> {}, edition |-> 0]
NoLoad == [on |-> FALSE, read |-> FALSE, value |-> None]
Closed == [kind |-> "none", at |-> "open", ids |-> {}, value |-> None]

\* load
Reload == listing' = [NoLoad EXCEPT !.on = TRUE] /\ loadFailed' = FALSE

RefreshProviders ==
  /\ Open("providers") /\ dialog = Closed /\ ~listing.on
  /\ Reload
  /\ UNCHANGED <<page, server, command, left, config, others, list, selected,
                 dialog, own>>

ServeProviders ==
  /\ listing.on /\ ~listing.read
  /\ listing' = [on |-> TRUE, read |-> TRUE, value |-> config]
  /\ UNCHANGED <<page, server, command, left, config, others, list, loadFailed,
                 selected, dialog, own>>

ProvidersAnswer ==
  /\ listing.on /\ listing.read
  /\ list' = listing.value
  /\ selected' = selected \intersect listing.value.ids
  /\ listing' = NoLoad
  /\ UNCHANGED <<page, server, command, left, config, others, loadFailed, dialog,
                 own>>

ProvidersFail ==
  /\ listing.on
  /\ listing' = NoLoad /\ loadFailed' = TRUE
  /\ Trouble
  /\ UNCHANGED <<page, server, command, config, others, list, selected, dialog,
                 own>>

-----------------------------------------------------------------------------
(***************************************************************************)
(* Changes.  A dialog is opened for the providers that are shown; its      *)
(* request is served, answered or lost.                                    *)
(***************************************************************************)
select ==
  /\ Open("providers") /\ dialog = Closed
  /\ \E ids \in SUBSET list.ids : ids # selected /\ selected' = ids
  /\ UNCHANGED <<page, server, command, left, config, others, list, listing,
                 loadFailed, dialog, own>>

OpenDialog(kind, ids) ==
  /\ Open("providers") /\ dialog = Closed
  /\ dialog' = [Closed EXCEPT !.kind = kind, !.ids = ids]
  /\ UNCHANGED <<page, server, command, left, config, others, listed>>

\* What is applied is the selection when it is confirmed.
OpenBatch == selected # {} /\ OpenDialog("batch", {})

\* The buttons of a provider's row.
OpenRow ==
  \E id \in list.ids, kind \in {"edit", "delete"} : OpenDialog(kind, {id})

\* A new provider, or the copy of one, gets its id in the form.
OpenForm == \E id \in Providers : OpenDialog("new", {id})

Cancel ==
  /\ Open("providers") /\ dialog # Closed /\ dialog.at = "open"
  /\ dialog' = Closed
  /\ UNCHANGED <<page, server, command, left, config, others, listed>>

\* The list may have lost what was selected since the dialog was opened.
Confirm ==
  /\ dialog.kind \in {"edit", "new", "delete", "batch"} /\ dialog.at = "open"
  /\ dialog.kind = "batch" => selected # {}
  /\ dialog' = [dialog EXCEPT !.at = "sent",
                  !.ids = IF dialog.kind = "batch" THEN selected ELSE @]
  /\ Press
  /\ UNCHANGED <<page, server, command, config, others, listed>>

\* UpsertProvider, DeleteProvider, BatchProviders
Applies(change) ==
  IF change.kind = "new" THEN change.ids \intersect config.ids = {}
  ELSE change.ids \subseteq config.ids

Change(kind, ids) ==
  /\ config.edition < MaxEdition
  /\ config' = [edition |-> config.edition + 1,
                ids |-> CASE kind = "new" -> config.ids \union ids
                          [] kind = "delete" -> config.ids \ ids
                          [] OTHER -> config.ids]
  /\ own' = [own EXCEPT !.gone = IF kind = "new" THEN @ \ ids ELSE @]

ServeChange ==
  /\ dialog.at = "sent"
  /\ IF Applies(dialog)
       THEN /\ Change(dialog.kind, dialog.ids)
            /\ dialog' = [dialog EXCEPT !.at = "done", !.value = config']
       ELSE dialog' = [dialog EXCEPT !.at = "refused"] /\ UNCHANGED <<config, own>>
  /\ UNCHANGED <<page, server, command, left, others, list, listing, loadFailed,
                 selected>>

OtherChange ==
  /\ Open("providers") /\ others = 0 /\ others' = 1
  /\ \E kind \in {"new", "edit", "delete"}, id \in Providers :
       /\ Applies([kind |-> kind, ids |-> {id}])
       /\ Change(kind, {id})
  /\ UNCHANGED <<page, server, command, left, list, listing, loadFailed, selected,
                 dialog>>

Reported(gone) == [kept |-> dialog.value.edition, gone |-> own.gone \union gone]

\* Fault: the answer to a batch does not overtake the load that is under way.
batchBesideLoad ==
  /\ list' = dialog.value /\ selected' = {}
  /\ UNCHANGED <<listing, loadFailed>>

\* batch: the answer is the whole configuration, and newer than what is under way.
batch ==
  /\ list' = dialog.value /\ selected' = {}
  /\ listing' = NoLoad /\ loadFailed' = FALSE

\* save
onSave == UNCHANGED <<list, selected>> /\ Reload

\* remove
remove ==
  /\ list' = [list EXCEPT !.ids = @ \ dialog.ids]
  /\ selected' = selected \ dialog.ids
  /\ Reload

\* Another administrator may have taken the same id again since.
ChangeAnswers ==
  /\ dialog.at = "done"
  /\ CASE dialog.kind = "batch" -> batch
       [] dialog.kind = "delete" -> remove
       [] OTHER -> onSave
  /\ own' = Reported(IF dialog.kind = "delete" THEN dialog.ids \ config.ids ELSE {})
  /\ dialog' = Closed
  /\ UNCHANGED <<page, server, command, left, config, others>>

\* A dialog stays open with the error, but the batch's is closed.
AfterError == IF dialog.kind = "batch" THEN Closed
              ELSE [dialog EXCEPT !.at = "open", !.value = None]

ChangeRefused ==
  /\ dialog.at = "refused"
  /\ dialog' = AfterError
  /\ UNCHANGED <<page, server, command, left, config, others, listed>>

ChangeFails ==
  /\ dialog.kind \in {"edit", "new", "delete", "batch"}
  /\ dialog.at \in {"sent", "done", "refused"}
  /\ dialog' = AfterError
  /\ Trouble
  /\ UNCHANGED <<page, server, command, config, others, listed>>

-----------------------------------------------------------------------------
ProvidersClosed ==
  /\ config = [ids |-> Configured, edition |-> 0]
  /\ others = 0
  /\ list = None /\ listing = NoLoad /\ loadFailed = FALSE /\ selected = {}
  /\ dialog = Closed
  /\ own = [kept |-> 0, gone |-> {}]

OpenProviders ==
  /\ Reload
  /\ UNCHANGED <<config, others, list, selected, dialog, own>>

LeaveProviders ==
  /\ list' = None /\ listing' = NoLoad /\ loadFailed' = FALSE /\ selected' = {}
  /\ dialog' = Closed
  /\ own' = [kept |-> 0, gone |-> {}]
  /\ UNCHANGED <<config, others>>

ProvidersNext ==
  \/ RefreshProviders \/ ServeProviders \/ ProvidersAnswer \/ ProvidersFail
  \/ select \/ OpenBatch \/ OpenRow \/ OpenForm \/ Cancel \/ Confirm \/ ServeChange \/ OtherChange
  \/ ChangeAnswers \/ ChangeRefused \/ ChangeFails

(***************************************************************************)
(* What the page has reported as done stays done on the page, whatever     *)
(* answers come late: a provider it deleted does not come back, and the    *)
(* list has every change it reported or is being read anew (or the page    *)
(* says that it could not be).  A selection never has a provider that the  *)
(* list has not, so no batch is asked for what is not shown.               *)
(***************************************************************************)
ProvidersStay ==
  /\ selected \subseteq list.ids
  /\ own.gone \intersect list.ids = {}
  /\ own.kept <= list.edition \/ listing.on \/ loadFailed
=============================================================================
