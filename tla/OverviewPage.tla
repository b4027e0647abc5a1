---------------------------- MODULE OverviewPage ----------------------------
(***************************************************************************)
(* OverviewTab: the state of the detection, the summary of the last report *)
(* and the commands that start and stop a check.  Three things ask the     *)
(* server at the same time: load (opening the page, the refresh button, an *)
(* accepted command), the poll every two seconds, and the commands.  Each  *)
(* answer is used only if nothing newer was asked: the page counts its     *)
(* requests (loadRequest, stateRequest, summaryRequest).  Here a request   *)
(* carries, instead of the number it drew, whether that is still the last  *)
(* one; of the loads only the last one counts, so it is the one kept.      *)
(*                                                                         *)
(* The configuration and the texts of messages are left out, except that   *)
(* the page tells the end of a task.                                       *)
(***************************************************************************)
EXTENDS AdminServer

VARIABLES
  shown,     \* state
  watched,   \* watchedTask, 0 for none
  summary,   \* summary: the newest task in it
  loadOf,    \* the last load
  poll,      \* the round of the poll
  stopping,  \* stopping
  told       \* history: the task whose end the page told last

overview == <<shown, watched, summary, loadOf, poll, stopping, told>>

Unread == -1
NoState == [known |-> FALSE, running |-> FALSE, task |-> 0]
Quiet == [on |-> FALSE, newestState |-> FALSE, newestSummary |-> FALSE,
          state |-> NoState, report |-> Unread]
Waiting == [at |-> "timer", newestState |-> FALSE, newestSummary |-> FALSE,
            state |-> NoState, task |-> 0, report |-> Unread]

Known(state) == [known |-> TRUE, running |-> state.running, task |-> state.task]

\* ++stateRequest, ++summaryRequest: what was asked before is not the newest any more.
StateOvertaken(request) == [request EXCEPT !.newestState = FALSE]
SummaryOvertaken(request) == [request EXCEPT !.newestSummary = FALSE]

\* load
Load ==
  /\ loadOf' = [Quiet EXCEPT !.on = TRUE, !.newestState = TRUE, !.newestSummary = TRUE]
  /\ poll' = StateOvertaken(SummaryOvertaken(poll))

Refresh ==
  /\ Open("overview") /\ ~loadOf.on
  /\ Load
  /\ Press
  /\ UNCHANGED <<page, server, shown, watched, summary, command, stopping, told>>

\* The requests of Promise.all reach the server one by one.
ServeLoad ==
  /\ loadOf.on
  /\ \/ ~loadOf.state.known /\ loadOf' = [loadOf EXCEPT !.state = Known(RunningState)]
     \/ loadOf.report = Unread /\ loadOf' = [loadOf EXCEPT !.report = StoredReport]
  /\ UNCHANGED <<page, server, left, shown, watched, summary, poll, command,
                 stopping, told>>

\* summaryID === summaryRequest.current
NewestSummary(request) == request.report # Unread /\ request.newestSummary

Adopt(state) == IF watched = 0 /\ state.running THEN state.task ELSE watched

\* Only the request for the report may fail without failing the load.
LoadAnswers ==
  /\ loadOf.on /\ loadOf.state.known
  /\ IF loadOf.report = Unread THEN Trouble ELSE UNCHANGED left
  /\ IF loadOf.newestState
       THEN shown' = loadOf.state /\ watched' = Adopt(loadOf.state)
       ELSE UNCHANGED <<shown, watched>>
  /\ summary' = IF NewestSummary(loadOf) THEN loadOf.report ELSE summary
  /\ loadOf' = Quiet
  /\ UNCHANGED <<page, server, poll, command, stopping, told>>

LoadFails ==
  /\ loadOf.on
  /\ loadOf' = Quiet
  /\ Trouble
  /\ UNCHANGED <<page, server, shown, watched, summary, poll, command, stopping,
                 told>>

-----------------------------------------------------------------------------
PollTick ==
  /\ Open("overview") /\ poll.at = "timer"
  /\ poll' = [Waiting EXCEPT !.at = "state", !.newestState = TRUE]
  /\ loadOf' = StateOvertaken(loadOf)
  /\ UNCHANGED <<page, server, left, shown, watched, summary, command, stopping,
                 told>>

ServePoll ==
  /\ \/ poll.at = "state" /\ ~poll.state.known
        /\ poll' = [poll EXCEPT !.state = Known(RunningState)]
     \/ poll.at = "report" /\ poll.report = Unread
        /\ poll' = [poll EXCEPT !.report = StoredReport]
  /\ UNCHANGED <<page, server, left, shown, watched, summary, loadOf, command,
                 stopping, told>>

PollTakesState ==
  /\ poll.at = "state" /\ poll.state.known
  /\ IF poll.newestState
       THEN shown' = poll.state /\ watched' = Adopt(poll.state)
       ELSE UNCHANGED <<shown, watched>>
  /\ poll' = IF watched' = 0 THEN Waiting
             ELSE [Waiting EXCEPT !.at = "task", !.task = watched']
  /\ UNCHANGED <<page, server, left, summary, loadOf, command, stopping, told>>

\* Fault: the summary was asked for with the state, before the task was known to
\* have ended.
PollTakesTaskLate ==
  /\ poll.at = "task"
  /\ IF watched = poll.task /\ TaskEnded(poll.task)
       THEN /\ poll' = [poll EXCEPT !.at = "report", !.newestSummary = TRUE,
                                    !.report = summary]
            /\ loadOf' = SummaryOvertaken(loadOf)
       ELSE poll' = Waiting /\ UNCHANGED loadOf
  /\ UNCHANGED <<page, server, left, shown, watched, summary, command, stopping,
                 told>>

\* The answer about a task that still runs is worth as much as no answer: reading
\* and taking it are one step.
PollTakesTask ==
  /\ poll.at = "task"
  /\ IF watched = poll.task /\ TaskEnded(poll.task)
       THEN /\ poll' = [poll EXCEPT !.at = "report", !.newestSummary = TRUE]
            /\ loadOf' = SummaryOvertaken(loadOf)
       ELSE poll' = Waiting /\ UNCHANGED loadOf
  /\ UNCHANGED <<page, server, left, shown, watched, summary, command, stopping,
                 told>>

PollTakesReport ==
  /\ poll.at = "report" /\ poll.report # Unread
  /\ poll' = Waiting
  /\ IF watched = poll.task /\ poll.newestSummary
       THEN /\ watched' = 0 /\ told' = poll.task
            /\ summary' = poll.report
            /\ loadOf' = StateOvertaken(loadOf)
            /\ shown' = IF shown.task = poll.task
                          THEN [shown EXCEPT !.running = FALSE, !.task = 0] ELSE shown
       ELSE UNCHANGED <<watched, told, summary, loadOf, shown>>
  /\ UNCHANGED <<page, server, left, command, stopping>>

PollFails ==
  /\ poll.at # "timer"
  /\ poll' = Waiting
  /\ Trouble
  /\ UNCHANGED <<page, server, shown, watched, summary, loadOf, command, stopping,
                 told>>

-----------------------------------------------------------------------------
(***************************************************************************)
(* The commands.                                                           *)
(***************************************************************************)
\* The buttons of the card "detection service".
mayRun == Open("overview") /\ shown.known /\ ~shown.running
mayStop == Open("overview") /\ shown.running

run ==
  /\ mayRun /\ command = Idle
  /\ Ask
  /\ Press
  /\ UNCHANGED <<page, server, shown, watched, summary, loadOf, poll, stopping, told>>

RunAnswers ==
  /\ Open("overview")
  /\ \/ /\ command.at = "accepted"
        /\ watched' = command.task
        /\ Load
     \/ command.at = "refused" /\ UNCHANGED <<watched, loadOf, poll>>
  /\ command' = Idle
  /\ UNCHANGED <<page, server, left, shown, summary, stopping, told>>

\* The check may be accepted although its answer is lost: the poll finds it.
RunFails ==
  /\ Open("overview") /\ command.at \in {"accepted", "refused"}
  /\ command' = Idle
  /\ Trouble
  /\ UNCHANGED <<page, server, shown, watched, summary, loadOf, poll, stopping, told>>

\* A stopped check ends without a report; the answer says only that it was asked to.
stop ==
  /\ mayStop /\ ~stopping
  /\ stopping' = TRUE
  /\ Press
  /\ UNCHANGED <<page, server, shown, watched, summary, loadOf, poll, command, told>>

StopAnswers ==
  /\ stopping
  /\ stopping' = FALSE
  /\ UNCHANGED <<page, server, left, shown, watched, summary, loadOf, poll, command,
                 told>>

-----------------------------------------------------------------------------
OverviewClosed ==
  /\ shown = NoState /\ watched = 0 /\ summary = 0
  /\ loadOf = Quiet /\ poll = Waiting
  /\ stopping = FALSE /\ told = 0

OpenOverview == Load /\ UNCHANGED <<shown, watched, summary, stopping, told>>

\* mounted.current = false: no answer changes the page any more.
LeaveOverview ==
  /\ shown' = NoState /\ watched' = 0 /\ summary' = 0
  /\ loadOf' = Quiet /\ poll' = Waiting
  /\ stopping' = FALSE
  /\ UNCHANGED told

OverviewNext ==
  \/ Refresh \/ ServeLoad \/ LoadAnswers \/ LoadFails
  \/ PollTick \/ ServePoll \/ PollTakesState \/ PollTakesTask \/ PollTakesReport
  \/ PollFails \/ run \/ RunAnswers \/ RunFails \/ stop \/ StopAnswers

OverviewPolls ==
  PollTick \/ ServePoll \/ PollTakesState \/ PollTakesTask \/ PollTakesReport

-----------------------------------------------------------------------------
(***************************************************************************)
(* The page keeps what TaskFollower promises.                              *)
(***************************************************************************)
Follower == INSTANCE TaskFollower WITH
  following <- watched, shown <- summary, result <- stored
=============================================================================
