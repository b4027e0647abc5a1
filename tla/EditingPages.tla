---------------------------- MODULE EditingPages ----------------------------
(***************************************************************************)
(* The tabs that edit a document of the server as a whole: SettingsTab     *)
(* (the runtime settings), MonitoringTab (the settings of monitoring) and  *)
(* ConfigTab (both settings and providers, as text).  A document is the    *)
(* set of the edits made in it; to save it replaces it.  Only the settings *)
(* of monitoring have a version, which the server compares: of two pages   *)
(* that save the runtime settings, the last one wins.                      *)
(*                                                                         *)
(* UnsavedChanges asks before it lets the page be left, unless the session *)
(* has ended.                                                              *)
(***************************************************************************)
EXTENDS AdminServer

CONSTANTS
  Mine,    \* what the administrator of this page may edit
  Theirs   \* what the other administrators may

ASSUME EditsAssumption == Mine \intersect Theirs = {}

VARIABLES
  doc,       \* the document of the server: its edits and its version
  draft,     \* form, draft: the document with the edits of this page
  saved,     \* savedForm, data.settings
  entry,     \* ListInput: what is typed but not yet added to its list
  step,      \* what the page is waiting for
  sent,      \* the document that was sent, or the one answered
  leaving,   \* blocker.state = 'blocked'
  typed,     \* history: edits typed here that were not taken back
  accepted   \* history: edits that the server has accepted

editing == <<doc, draft, saved, entry, step, sent, leaving, typed, accepted>>

Blank == [edits |-> {}, version |-> 0]
Unloaded == [edits |-> {}, version |-> -1]
Tabs == {"settings", "monitoring"}
Editing == mounted /\ tab \in Tabs /\ ~leaving

dirty == draft # saved \/ entry # {}

\* Fault: the fields stay enabled.
EnabledAlways == Editing /\ step \notin {"load", "failed"}

\* The fields are disabled while a request of the page is under way.
Enabled == Editing /\ step = "none"

-----------------------------------------------------------------------------
(***************************************************************************)
(* Typing.                                                                 *)
(***************************************************************************)
Type(edit) ==
  /\ edit \notin typed \union accepted
  /\ typed' = typed \union {edit}
  /\ UNCHANGED <<page, server, command, left, doc, saved, step, sent, leaving,
                 accepted>>

\* The fields of the settings; those of its lists take an entry first.
set ==
  /\ Enabled /\ tab = "settings"
  /\ \E edit \in Mine :
       /\ Type(edit)
       /\ \/ draft' = [draft EXCEPT !.edits = @ \union {edit}] /\ UNCHANGED entry
          \/ entry' = entry \union {edit} /\ UNCHANGED draft

\* The fields, rules, schedules and prices of the monitoring.
update ==
  /\ Enabled /\ tab = "monitoring"
  /\ \E edit \in Mine :
       /\ Type(edit)
       /\ draft' = [draft EXCEPT !.edits = @ \union {edit}]
  /\ UNCHANGED entry

TakeBack ==
  /\ Enabled
  /\ \E edit \in typed \ saved.edits :
       /\ typed' = typed \ {edit}
       /\ draft' = [draft EXCEPT !.edits = @ \ {edit}]
       /\ entry' = entry \ {edit}
  /\ UNCHANGED <<page, server, command, left, doc, saved, step, sent, leaving,
                 accepted>>

\* ListInput: Enter, a separator, or the field loses the focus.
commit ==
  /\ Enabled /\ entry # {}
  /\ draft' = [draft EXCEPT !.edits = @ \union entry]
  /\ entry' = {}
  /\ UNCHANGED <<page, server, command, left, doc, saved, step, sent, leaving,
                 typed, accepted>>

-----------------------------------------------------------------------------
(***************************************************************************)
(* Saving, and the other actions of the monitoring tab (act), which are    *)
(* disabled while there is something to save.                              *)
(***************************************************************************)
Send(document, name) ==
  /\ step' = name
  /\ sent' = document
  /\ Press

\* What is still in the field of a list is saved with it.
save ==
  /\ Enabled /\ tab = "settings" /\ dirty
  /\ Send([draft EXCEPT !.edits = @ \union entry], "save")
  /\ UNCHANGED <<page, server, command, doc, draft, saved, entry, leaving, typed,
                 accepted>>

saveMonitoring ==
  /\ Enabled /\ tab = "monitoring" /\ dirty
  /\ Send(draft, "save")
  /\ UNCHANGED <<page, server, command, doc, draft, saved, entry, leaving, typed,
                 accepted>>

\* The refresh button works also when the page could not be loaded.
act ==
  /\ Editing /\ tab = "monitoring" /\ ~dirty
  /\ \/ step = "none" /\ Send(Blank, "act")
     \/ step \in {"none", "failed"} /\ Send(Blank, "reload")
  /\ UNCHANGED <<page, server, command, doc, draft, saved, entry, leaving, typed,
                 accepted>>

\* A dialog asks before.
discard ==
  /\ Enabled /\ tab = "monitoring" /\ dirty
  /\ draft' = saved /\ typed' = typed \intersect saved.edits
  /\ Send(Blank, "reload")
  /\ UNCHANGED <<page, server, command, doc, saved, entry, leaving, accepted>>

\* SaveMonitoringSettings; UpdateSettings has no version to compare.
Current(document) == tab = "monitoring" => document.version = doc.version

ServeSave ==
  /\ step = "save"
  /\ \/ /\ Current(sent)
        /\ doc' = [edits |-> sent.edits, version |-> doc.version + 1]
        /\ accepted' = accepted \union sent.edits
        /\ sent' = doc' /\ step' = "saved"
     \/ step' = "refused" /\ UNCHANGED <<doc, accepted, sent>>
  /\ UNCHANGED <<page, server, command, left, draft, saved, entry, leaving, typed>>

\* The pages of the others save as well.  What they have read of the runtime
\* settings may be old.
OtherSave ==
  /\ mounted /\ tab \in Tabs
  /\ \E edit \in Theirs \ accepted, edits \in {doc.edits, {}} :
       /\ tab = "monitoring" => edits = doc.edits
       /\ doc' = [edits |-> edits \union {edit}, version |-> doc.version + 1]
       /\ accepted' = accepted \union {edit}
  /\ UNCHANGED <<page, server, command, left, draft, saved, entry, step, sent,
                 leaving, typed>>

\* The page of the settings then reads the session again, the other its own data.
SaveAnswers ==
  /\ step = "saved"
  /\ draft' = sent /\ saved' = sent /\ entry' = {}
  /\ step' = IF tab = "settings" THEN "refresh" ELSE "reload"
  /\ UNCHANGED <<page, server, command, left, doc, sent, leaving, typed, accepted>>

ActAnswers ==
  /\ step = "act"
  /\ step' = "reload"
  /\ UNCHANGED <<page, server, command, left, doc, draft, saved, entry, sent,
                 leaving, typed, accepted>>

Refused ==
  /\ step = "refused"
  /\ step' = "none"
  /\ UNCHANGED <<page, server, command, left, doc, draft, saved, entry, sent,
                 leaving, typed, accepted>>

\* refresh of the session: whether it fails changes nothing here.
Refreshed ==
  /\ step = "refresh"
  /\ step' = "none"
  /\ UNCHANGED <<page, server, command, left, doc, draft, saved, entry, sent,
                 leaving, typed, accepted>>

ReadDocument ==
  /\ step \in {"load", "reload"}
  /\ step' = "read" /\ sent' = doc
  /\ UNCHANGED <<page, server, command, left, doc, draft, saved, entry, leaving,
                 typed, accepted>>

DocumentAnswers ==
  /\ step = "read"
  /\ draft' = sent /\ saved' = sent
  /\ step' = "none"
  /\ UNCHANGED <<page, server, command, left, doc, entry, sent, leaving, typed,
                 accepted>>

\* Without a document the page has nothing to edit; later it keeps what it has.
RequestFails ==
  /\ step \in {"load", "reload", "save", "saved", "act"}
  /\ step' = IF saved = Unloaded THEN "failed" ELSE "none"
  /\ Trouble
  /\ UNCHANGED <<page, server, command, doc, draft, saved, entry, sent, leaving,
                 typed, accepted>>

-----------------------------------------------------------------------------
(***************************************************************************)
(* UnsavedChanges.  The settings tab counts saving as a change.            *)
(***************************************************************************)
Blocks == dirty \/ (tab = "settings" /\ step \in {"save", "saved", "refused", "refresh"})

AskToLeave ==
  /\ Editing /\ Blocks
  /\ leaving' = TRUE
  /\ UNCHANGED <<page, server, command, left, doc, draft, saved, entry, step, sent,
                 typed, accepted>>

Stay ==
  /\ leaving
  /\ leaving' = FALSE
  /\ UNCHANGED <<page, server, command, left, doc, draft, saved, entry, step, sent,
                 typed, accepted>>

-----------------------------------------------------------------------------
(***************************************************************************)
(* ConfigTab: the text is what was typed or exported.                      *)
(***************************************************************************)
exportConfig ==
  /\ Open("config") /\ step \in {"none", "text"}
  /\ \/ sent' = doc /\ step' = "text" /\ UNCHANGED left
     \/ Trouble /\ UNCHANGED <<sent, step>>
  /\ UNCHANGED <<page, server, command, doc, draft, saved, entry, leaving, typed,
                 accepted>>

importConfig ==
  /\ Open("config") /\ step \in {"none", "text"}
  /\ \E edits \in {sent.edits} \union {{edit} : edit \in Mine} :
       Send([edits |-> edits, version |-> 0], "import")
  /\ UNCHANGED <<page, server, command, doc, draft, saved, entry, leaving, typed,
                 accepted>>

ImportAnswers ==
  /\ step = "import"
  /\ \/ doc' = [edits |-> sent.edits, version |-> doc.version + 1]
     \/ UNCHANGED doc
  /\ step' = "none"
  /\ UNCHANGED <<page, server, command, left, draft, saved, entry, sent, leaving,
                 typed, accepted>>

-----------------------------------------------------------------------------
EditingClosed ==
  /\ doc = Blank /\ draft = Unloaded /\ saved = Unloaded /\ entry = {} /\ sent = Blank
  /\ step = "none" /\ leaving = FALSE /\ typed = {} /\ accepted = {}

OpenEditing ==
  /\ step' = IF tab \in Tabs THEN "load" ELSE "none"
  /\ UNCHANGED <<doc, draft, saved, entry, sent, leaving, typed, accepted>>

\* What was typed is given up.  A request that was sent may still be served.
LeaveEditing ==
  /\ \/ UNCHANGED <<doc, accepted>>
     \/ /\ step = "save" /\ Current(sent)
        /\ doc' = [edits |-> sent.edits, version |-> doc.version + 1]
        /\ accepted' = accepted \union sent.edits
  /\ draft' = Unloaded /\ saved' = Unloaded /\ entry' = {} /\ sent' = Blank
  /\ step' = "none" /\ leaving' = FALSE /\ typed' = {}

EditingNext ==
  \/ set \/ update \/ TakeBack \/ commit \/ save \/ saveMonitoring \/ act \/ discard
  \/ ServeSave \/ OtherSave \/ SaveAnswers \/ ActAnswers \/ Refused \/ Refreshed
  \/ ReadDocument \/ DocumentAnswers \/ RequestFails \/ AskToLeave \/ Stay
  \/ exportConfig \/ importConfig \/ ImportAnswers

(***************************************************************************)
(* No edit is lost unasked: what was typed and not taken back is on the    *)
(* page, or the server has accepted it; no answer to a request overwrites  *)
(* it.  And what the server accepts in the settings of monitoring stays in *)
(* them, also the edits of an administrator whose page another one's save  *)
(* has overtaken.                                                          *)
(***************************************************************************)
EditsAreKept ==
  /\ typed \subseteq draft.edits \union entry \union accepted
  /\ tab = "monitoring" => accepted \subseteq doc.edits
=============================================================================
