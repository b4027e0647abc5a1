--------------------------- MODULE ProviderChecks ---------------------------
(***************************************************************************)
(* ProvidersTab: the checks begun from the page, of a whole provider       *)
(* (rerun) or of some of its models (ModelCheckDialog), and the poll that  *)
(* says every two seconds whether a check runs and what became of the last *)
(* one begun here.  A provider that can be checked is shown.               *)
(*                                                                         *)
(* Of rerunning nothing is kept: it is set only with busy, and the buttons *)
(* it disables busy disables too.                                          *)
(***************************************************************************)
EXTENDS AdminServer

VARIABLES
  busy,
  awaited,   \* watchedTask, 0 for none
  round,     \* the round of the poll
  models     \* ModelCheckDialog: closed, or how far its request is

checks == <<busy, awaited, round, models>>

Sleeping == [at |-> "timer", running |-> FALSE, task |-> 0]

\* One command of the page is followed at a time.  A round of the poll may free the
\* buttons while a command is under way; what is pressed then is left out.
mayRerun == Open("checks") /\ models = "closed" /\ ~busy /\ command = Idle

\* rerun
rerun ==
  /\ mayRerun
  /\ busy' = TRUE
  /\ Ask
  /\ Press
  /\ UNCHANGED <<page, server, awaited, round, models>>

OpenModels ==
  /\ mayRerun
  /\ models' = "loading"
  /\ UNCHANGED <<page, server, command, left, busy, awaited, round>>

\* Without an answer there is nothing to choose.
ModelsAnswer ==
  /\ models = "loading"
  /\ models' \in {"shown", "empty"}
  /\ UNCHANGED <<page, server, command, left, busy, awaited, round>>

CloseModels ==
  /\ models \in {"loading", "shown", "empty"}
  /\ models' = "closed"
  /\ UNCHANGED <<page, server, command, left, busy, awaited, round>>

\* The dialog, unlike rerun, does not say that the page is busy.
runModels ==
  /\ models = "shown"
  /\ models' = "sent"
  /\ Ask
  /\ Press
  /\ UNCHANGED <<page, server, busy, awaited, round>>

\* onAccepted, onClose
Accepted ==
  /\ command.at = "accepted"
  /\ awaited' = command.task /\ busy' = TRUE
  /\ models' = "closed"
  /\ UNCHANGED left

\* The answer may be lost though the check was accepted.
NotAccepted ==
  /\ \/ command.at = "refused" /\ UNCHANGED left
     \/ command.at = "accepted" /\ Trouble
  /\ busy' = (busy /\ models = "sent")
  /\ models' = IF models = "sent" THEN "shown" ELSE models
  /\ UNCHANGED awaited

CheckAnswers ==
  /\ Open("checks")
  /\ Accepted \/ NotAccepted
  /\ command' = Idle
  /\ UNCHANGED <<page, server, round>>

-----------------------------------------------------------------------------
PollChecks ==
  /\ Open("checks") /\ round.at = "timer"
  /\ round' = [round EXCEPT !.at = "state"]
  /\ UNCHANGED <<page, server, command, left, busy, awaited, models>>

ServeRound ==
  /\ \/ /\ round.at = "state"
        /\ round' = [round EXCEPT !.at = "stated", !.running = RunningState.running]
     \/ /\ round.at = "task"
        /\ round' = IF TaskEnded(round.task) THEN [round EXCEPT !.at = "ended"]
                    ELSE Sleeping
  /\ UNCHANGED <<page, server, command, left, busy, awaited, models>>

\* Nothing is compared again after an answer: a task accepted in the meantime is not
\* awaited any more once the one before it has ended.
TakeRound ==
  /\ \/ /\ round.at = "stated"
        /\ busy' = round.running
        /\ round' = IF awaited = 0 THEN Sleeping
                    ELSE [Sleeping EXCEPT !.at = "task", !.task = awaited]
        /\ UNCHANGED awaited
     \/ /\ round.at = "ended"
        /\ awaited' = 0 /\ round' = Sleeping
        /\ UNCHANGED busy
  /\ UNCHANGED <<page, server, command, left, models>>

\* Fault: a round that failed is not over.
RoundFailsPending ==
  /\ round.at # "timer"
  /\ round' = [Sleeping EXCEPT !.at = "failed"]
  /\ Trouble
  /\ UNCHANGED <<page, server, command, busy, awaited, models>>

RoundFails ==
  /\ round.at # "timer"
  /\ round' = Sleeping
  /\ Trouble
  /\ UNCHANGED <<page, server, command, busy, awaited, models>>

-----------------------------------------------------------------------------
ChecksClosed == busy = TRUE /\ awaited = 0 /\ round = Sleeping /\ models = "closed"

\* The first round of the poll does not wait for the timer.
OpenChecks ==
  /\ round' = [Sleeping EXCEPT !.at = "state"]
  /\ UNCHANGED <<busy, awaited, models>>

LeaveChecks ==
  busy' = TRUE /\ awaited' = 0 /\ round' = Sleeping /\ models' = "closed"

ChecksNext ==
  \/ rerun \/ OpenModels \/ ModelsAnswer \/ CloseModels \/ runModels \/ CheckAnswers
  \/ PollChecks \/ ServeRound \/ TakeRound \/ RoundFails

ChecksPoll == PollChecks \/ ServeRound \/ TakeRound

(***************************************************************************)
(* The buttons come back: a page that stays open, with no check running    *)
(* and no command of its own under way, comes to say so and to await       *)
(* nothing, whatever answers were lost or came late.                       *)
(***************************************************************************)
ButtonsComeBack ==
  <>[](Open("checks") /\ phase = "idle" /\ command = Idle)
    => <>[](~busy /\ awaited = 0)
=============================================================================
