---------------------------- MODULE TaskFollower ----------------------------
(***************************************************************************)
(* What the overview promises about checks, said without requests,         *)
(* answers or timers.  It follows one task at a time, the last one it was  *)
(* told of.  It says that the task has ended only together with a summary  *)
(* in which the task's result is, if the task left one, and a summary is   *)
(* never replaced by an older one.  As long as it is open and follows a    *)
(* task it gets there.                                                     *)
(*                                                                         *)
(* OverviewPage is shown to implement this module.                         *)
(***************************************************************************)
EXTENDS Integers

CONSTANT Tasks

VARIABLES
  following,  \* the task it follows, 0 for none
  told,       \* the task whose end it told last
  shown,      \* the newest task in the summary it shows, 0 for none
  result      \* the tasks that left a result

vars == <<following, told, shown, result>>

Init == following = 0 /\ told = 0 /\ shown = 0 /\ result = {}

\* The page may get a newer summary with any news.
NewerSummary ==
  \/ UNCHANGED shown
  \/ \E task \in result : task > shown /\ shown' = task

Follow(task) ==
  /\ task # following
  /\ following' = task
  /\ NewerSummary
  /\ UNCHANGED <<told, result>>

See == NewerSummary /\ UNCHANGED <<following, told, result>>

Tell ==
  /\ following # 0
  /\ NewerSummary
  /\ following \in result => shown' >= following
  /\ following' = 0 /\ told' = following
  /\ UNCHANGED result

Leave == following' = 0 /\ shown' = 0 /\ UNCHANGED <<told, result>>

LeaveResult(task) == result' = result \union {task}
                     /\ UNCHANGED <<following, told, shown>>

Next ==
  \/ See \/ Tell \/ Leave
  \/ \E task \in Tasks : Follow(task) \/ LeaveResult(task)

Spec == Init /\ [][Next]_vars /\ WF_vars(Tell)
=============================================================================
