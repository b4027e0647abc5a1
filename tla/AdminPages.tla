----------------------------- MODULE AdminPages -----------------------------
(***************************************************************************)
(* The pages of the administration: Admin.tsx mounts one tab at a time,    *)
(* and a tab that is left loses its state.  So the tabs share nothing in   *)
(* the browser, and a behaviour is about one of them, which may be opened  *)
(* and left any number of times.                                           *)
(*                                                                         *)
(* The tab Providers counts as three: its list and dialogs (ProvidersPage),*)
(* its checks (ProviderChecks) and the form of a provider (in ListPages,   *)
(* as "form"); MonitoringTab as two, with the history it shows.            *)
(***************************************************************************)
EXTENDS OverviewPage, ProvidersPage, ProviderChecks, EditingPages, ListPages

AdminTabs == {"overview", "providers", "checks", "config"} \union Tabs \union ListTabs

pages == <<overview, providers, checks, editing, lists>>
vars == <<page, server, command, left, pages>>

OnlyOverview == UNCHANGED <<providers, checks, editing, lists>>
OnlyProviders == UNCHANGED <<overview, checks, editing, lists>>
OnlyChecks == UNCHANGED <<overview, providers, editing, lists>>
OnlyEditing == UNCHANGED <<overview, providers, checks, lists>>
OnlyLists == UNCHANGED <<overview, providers, checks, editing>>

AdminInit ==
  /\ tab \in AdminTabs /\ mounted = FALSE
  /\ ServerInit
  /\ OverviewClosed /\ ChecksClosed /\ EditingClosed /\ ListsClosed
  /\ ProvidersClosed

\* Admin: the tab is mounted.
OpenTab ==
  /\ ~mounted /\ mounted' = TRUE
  /\ \/ tab = "overview" /\ OpenOverview /\ OnlyOverview
     \/ tab = "providers" /\ OpenProviders /\ OnlyProviders
     \/ tab = "checks" /\ OpenChecks /\ OnlyChecks
     \/ tab \in Tabs \union {"config"} /\ OpenEditing /\ OnlyEditing
     \/ tab \in ListTabs /\ OpenLists /\ OnlyLists
  /\ UNCHANGED <<tab, server, command, left>>

\* The session ends, or the administrator goes elsewhere: then UnsavedChanges asks
\* first, and the sign-in page is not asked about.
LeaveTab ==
  /\ mounted /\ mounted' = FALSE
  /\ \/ tab = "overview" /\ LeaveOverview /\ OnlyOverview
     \/ tab = "providers" /\ LeaveProviders /\ OnlyProviders
     \/ tab = "checks" /\ LeaveChecks /\ OnlyChecks
     \/ tab \in Tabs \union {"config"} /\ LeaveEditing /\ OnlyEditing
     \/ tab \in ListTabs /\ LeaveLists /\ OnlyLists
  /\ command' = Idle
  /\ Press
  /\ UNCHANGED <<tab, server>>

AdminServerStep == (ServerStep \/ ServeRun) /\ UNCHANGED pages

AdminNext ==
  \/ OpenTab \/ LeaveTab \/ AdminServerStep
  \/ OverviewNext /\ OnlyOverview
  \/ ProvidersNext /\ OnlyProviders
  \/ ChecksNext /\ OnlyChecks
  \/ EditingNext /\ OnlyEditing
  \/ ListsNext /\ OnlyLists

\* Requests are answered, timers fire while a tab is open, and a check comes to its end.
AdminFairness ==
  /\ WF_vars(OverviewPolls /\ OnlyOverview)
  /\ WF_vars(ServeLoad /\ OnlyOverview) /\ WF_vars(LoadAnswers /\ OnlyOverview)
  /\ WF_vars(RunAnswers /\ OnlyOverview)
  /\ WF_vars(ChecksPoll /\ OnlyChecks)
  /\ WF_vars((CheckGoesOn \/ InsertTask \/ InsertFails) /\ AdminServerStep)

AdminSpec == AdminInit /\ [][AdminNext]_vars /\ AdminFairness

-----------------------------------------------------------------------------
(***************************************************************************)
(* The overview implements TaskFollower: a task that it follows is told as *)
(* ended, and only with a summary that has its result.                     *)
(***************************************************************************)
OverviewFollows == Follower!Spec
=============================================================================
