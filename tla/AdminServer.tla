---------------------------- MODULE AdminServer ----------------------------
(***************************************************************************)
(* What the pages of the administration share: whether the tab is mounted, *)
(* the checks of the server as a page sees them through                    *)
(* /api/admin/detection, /api/admin/tasks/<id> and /api/status, and the    *)
(* command of a page that begins one.  CheckRun models how a check comes   *)
(* about; here a check is the task it has and the order in which its end   *)
(* becomes visible.                                                        *)
(*                                                                         *)
(* The page is an administrator's.  With readOnly it lacks the commands,   *)
(* which the administrator need not use either.                            *)
(***************************************************************************)
EXTENDS Integers, FiniteSets

CONSTANTS
  MaxTasks,   \* bound on the tasks of a behaviour
  Allowances  \* bounds of a behaviour: the tasks begun, the requests that fail,
              \* and what the administrator presses

ASSUME AdminAssumption ==
  /\ MaxTasks \in Nat
  /\ Allowances \subseteq [tasks : 0..MaxTasks, troubles : Nat, presses : Nat]

VARIABLES
  tab,      \* Admin.tsx: the tab a behaviour is about
  mounted,  \* it is mounted
  phase,    \* running, taskID and how far the check is
  newest,   \* id of the last task
  stored,   \* the tasks whose result the stored report has
  command,  \* the command of the page that begins a check
  left      \* what is left of the behaviour's allowance

server == <<phase, newest, stored>>
page == <<tab, mounted>>

Open(name) == tab = name /\ mounted

Tasks == 1..MaxTasks
Newest(ids) == CHOOSE id \in ids \union {0} : \A other \in ids : other <= id

Trouble == left.troubles > 0 /\ left' = [left EXCEPT !.troubles = @ - 1]
Press == left.presses > 0 /\ left' = [left EXCEPT !.presses = @ - 1]

\* The task has its id only once it is inserted.
RunningState ==
  [running |-> phase # "idle",
   task |-> IF phase \in {"checking", "saved", "ended"} THEN newest ELSE 0]

TaskEnded(id) ==
  \/ id < newest
  \/ id = newest /\ phase \in {"ended", "idle", "begun"}

StoredReport == Newest(stored)

-----------------------------------------------------------------------------
\* A check that a schedule begins, or another administrator.
BeginCheck ==
  /\ phase = "idle" /\ newest < left.tasks
  /\ phase' = "begun"
  /\ UNCHANGED <<newest, stored>>

\* Only a check that comes to its end stores its report.
RecordCheck ==
  /\ phase = "checking"
  /\ phase' = "saved"
  /\ stored' = stored \union {newest}
  /\ UNCHANGED newest

FinishCheckTask ==
  /\ phase \in {"checking", "saved"}
  /\ phase' = "ended"
  /\ UNCHANGED <<newest, stored>>

finishRunState ==
  /\ phase = "ended"
  /\ phase' = "idle"
  /\ UNCHANGED <<newest, stored>>

CheckGoesOn == RecordCheck \/ FinishCheckTask \/ finishRunState

InsertTask ==
  /\ phase = "begun"
  /\ phase' = "checking" /\ newest' = newest + 1
  /\ UNCHANGED stored

InsertFails == phase = "begun" /\ phase' = "idle" /\ UNCHANGED <<newest, stored>>

-----------------------------------------------------------------------------
Idle == [at |-> "none", task |-> 0]

Ask == command' = [Idle EXCEPT !.at = "asked"]

ServeRun ==
  /\ command.at = "asked"
  /\ \/ BeginCheck /\ command' = [Idle EXCEPT !.at = "begun"]
     \/ command' = [Idle EXCEPT !.at = "refused"] /\ UNCHANGED server
  /\ UNCHANGED <<page, left>>

\* The answer to the page's command comes with the task it began.
ServerStep ==
  /\ tab \in {"overview", "checks"}
  /\ \/ BeginCheck /\ UNCHANGED command
     \/ CheckGoesOn /\ UNCHANGED command
     \/ /\ InsertTask
        /\ command' = IF command.at = "begun"
                        THEN [at |-> "accepted", task |-> newest'] ELSE command
     \/ /\ InsertFails
        /\ command' = IF command.at = "begun"
                        THEN [Idle EXCEPT !.at = "refused"] ELSE command
  /\ UNCHANGED <<page, left>>

ServerInit ==
  /\ phase = "idle" /\ newest = 0 /\ stored = {} /\ command = Idle
  /\ left \in Allowances
=============================================================================
