------------------------------ MODULE CheckRun ------------------------------
(***************************************************************************)
(* The life of a connectivity check in cmd/cg: the goroutines that ask for *)
(* one (HTTP handlers, the scheduler, the start-up check), the flag and    *)
(* the cancel function they share under application.mu, the row of the     *)
(* task in SQLite, the administrator who stops the run, the deadline, the  *)
(* shutdown of the process, its crash, the next start, and the system      *)
(* updater that must not overlap with a check.                             *)
(*                                                                         *)
(* Every step between two statements where another goroutine can run (a    *)
(* lock, a statement on the database, a request) is an action of its own.  *)
(* What a run probes and what its report holds is StatusSnapshot's and     *)
(* ProbePool's subject; here a run only succeeds or fails, with or without *)
(* completed results whose usage must be booked.                           *)
(***************************************************************************)
EXTENDS Integers, FiniteSets

CONSTANTS
  Callers,    \* the goroutines that ask for a check
  Scoped,     \* those whose context derives from main's: scheduler, start-up
  Timed,      \* those whose context has the 30-minute deadline
  MaxTasks,   \* bound on the rows of check_tasks
  MaxBoots    \* bound on the starts of the process

ASSUME CallersAssumption ==
  /\ Scoped \subseteq Callers
  /\ Timed \subseteq Callers
  /\ "nobody" \notin Callers
  /\ "update" \notin Callers

ASSUME BoundsAssumption == MaxTasks \in Nat /\ MaxBoots \in Nat

VARIABLES
  pc,           \* where each caller stands
  ctx,          \* its context: "live", "canceled" or "expired"
  task,         \* the id of its row, 0 for none
  failed,       \* runErr of its run is not nil
  completed,    \* its run has completed results
  usageSaved,   \* its run has booked them with the report
  running,      \* application.running
  owner,        \* whose cancel function application.runCancel is, or "nobody"
  shuttingDown, \* application.shuttingDown
  mainPc,       \* where main stands
  drain,        \* the runDone channel shutdown waits on: "none", "open", "closed"
  job,          \* the update job on disk: "idle" or "active"
  boots,        \* starts of the process
  tasks,        \* rows of check_tasks: "absent", "running" or how they ended
  lastTask,     \* the last row id given out
  usage,        \* how often the usage of a task has been booked
  reported,     \* history: tasks whose report was committed
  lost          \* history: tasks whose insert or update failed

memory == <<pc, ctx, task, failed, completed, usageSaved, running, owner,
            shuttingDown, mainPc, drain>>
disk == <<job, boots, tasks, lastTask, usage, reported, lost>>
vars == <<memory, disk>>

(***************************************************************************)
(* Sets of control points.                                                 *)
(***************************************************************************)
TaskIds == 1..MaxTasks
Ended == {"success", "canceled", "error"}

\* Between the critical sections of beginCheck and finishRunState.
Held == {"create", "abort", "publish", "run", "save", "notify", "deferred",
         "finish", "release"}

\* The caller knows the id of its row and has not yet settled it.
Reporting == {"publish", "run", "save", "notify", "deferred", "finish"}

Up == mainPc # "down"

Init ==
  /\ pc = [c \in Callers |-> "idle"]
  /\ ctx = [c \in Callers |-> "live"]
  /\ task = [c \in Callers |-> 0]
  /\ failed = [c \in Callers |-> FALSE]
  /\ completed = [c \in Callers |-> FALSE]
  /\ usageSaved = [c \in Callers |-> FALSE]
  /\ running = FALSE
  /\ owner = "nobody"
  /\ shuttingDown = FALSE
  /\ mainPc = "serving"
  /\ drain = "none"
  /\ job = "idle"
  /\ boots = 1
  /\ tasks = [i \in TaskIds |-> "absent"]
  /\ lastTask = 0
  /\ usage = [i \in TaskIds |-> 0]
  /\ reported = {}
  /\ lost = {}

-----------------------------------------------------------------------------
(***************************************************************************)
(* beginCheck                                                              *)
(***************************************************************************)

\* A caller makes its context and reads the request budget.  With a canceled
\* context, or no budget left, it returns without a trace.
Call(c) ==
  /\ Up
  /\ pc[c] = "idle"
  /\ ~(c \in Scoped /\ mainPc # "serving")
  /\ pc' = [pc EXCEPT ![c] = "admit"]
  /\ UNCHANGED <<ctx, task, failed, completed, usageSaved, running, owner,
                 shuttingDown, mainPc, drain, disk>>

\* The locals of a call that returns.
Return(c) ==
  /\ pc' = [pc EXCEPT ![c] = "idle"]
  /\ ctx' = [ctx EXCEPT ![c] = "live"]
  /\ task' = [task EXCEPT ![c] = 0]
  /\ failed' = [failed EXCEPT ![c] = FALSE]
  /\ completed' = [completed EXCEPT ![c] = FALSE]
  /\ usageSaved' = [usageSaved EXCEPT ![c] = FALSE]

\* Manager.Busy: a job file that cannot be read counts as a job in progress.
UpdaterBusy(readable) == job = "active" \/ ~readable

\* Faults: beginCheck forgets shuttingDown, or forgets the updater.
AdmissionIgnoringShutdown(readable) == ~UpdaterBusy(readable)
AdmissionIgnoringUpdate(readable) == ~shuttingDown

\* The tests of beginCheck's critical section, in its order.
AdmissionOpen(readable) == ~shuttingDown /\ ~UpdaterBusy(readable)

\* Fault: beginCheck forgets application.running.
VacantAlways == TRUE
Vacant == ~running

Refuse(c) ==
  /\ pc[c] = "admit"
  /\ \E readable \in BOOLEAN : ~AdmissionOpen(readable) \/ ~Vacant  \* unreadable: always
  /\ Return(c)
  /\ UNCHANGED <<running, owner, shuttingDown, mainPc, drain, disk>>

Admit(c) ==
  /\ pc[c] = "admit"
  /\ lastTask < MaxTasks                                 \* bound
  /\ \E readable \in BOOLEAN : AdmissionOpen(readable)
  /\ Vacant
  /\ running' = TRUE
  /\ owner' = c
  /\ pc' = [pc EXCEPT ![c] = "create"]
  /\ UNCHANGED <<ctx, task, failed, completed, usageSaved, shuttingDown,
                 mainPc, drain, disk>>

\* CreateCheckTask with the run's context.
CreateTask(c) ==
  /\ pc[c] = "create"
  /\ ctx[c] = "live"
  /\ lastTask' = lastTask + 1
  /\ tasks' = [tasks EXCEPT ![lastTask + 1] = "running"]
  /\ task' = [task EXCEPT ![c] = lastTask + 1]
  /\ pc' = [pc EXCEPT ![c] = "publish"]
  /\ UNCHANGED <<ctx, failed, completed, usageSaved, running, owner,
                 shuttingDown, mainPc, drain, job, boots, usage, reported,
                 lost>>

\* The insert fails.  An error does not say that the row is not there: the
\* context may have ended, or the answer may have been lost, after the write.
CreateTaskFails(c) ==
  /\ pc[c] = "create"
  /\ \/ UNCHANGED <<tasks, lastTask, lost>>
     \/ /\ lastTask' = lastTask + 1
        /\ tasks' = [tasks EXCEPT ![lastTask + 1] = "running"]
        /\ lost' = lost \union {lastTask + 1}
  /\ pc' = [pc EXCEPT ![c] = "abort"]
  /\ UNCHANGED <<ctx, task, failed, completed, usageSaved, running, owner,
                 shuttingDown, mainPc, drain, job, boots, usage, reported>>

\* The second critical section: application.taskID is set.
PublishTask(c) ==
  /\ pc[c] = "publish"
  /\ pc' = [pc EXCEPT ![c] = "run"]
  /\ UNCHANGED <<ctx, task, failed, completed, usageSaved, running, owner,
                 shuttingDown, mainPc, drain, disk>>

-----------------------------------------------------------------------------
(***************************************************************************)
(* executeCheck and runCheck                                               *)
(***************************************************************************)

\* runCheck up to its critical section.  It fails early (settings, filters,
\* selection), because the runner reports an error (a canceled or expired
\* context, the request budget, a provider changed during discovery), or
\* because the previous report cannot be read.  The runner returns the
\* context's error, so without an error the context was still live.
Probe(c) ==
  /\ pc[c] = "run"
  /\ \E done, err \in BOOLEAN :
       /\ err \/ ctx[c] = "live"
       /\ completed' = [completed EXCEPT ![c] = done]
       /\ failed' = [failed EXCEPT ![c] = err]
       /\ pc' = [pc EXCEPT ![c] = IF err THEN "deferred" ELSE "save"]
  /\ UNCHANGED <<ctx, task, usageSaved, running, owner, shuttingDown, mainPc,
                 drain, disk>>

\* RecordCheck: usage, history and latest report in one transaction, under
\* the run's context.
Record(c) ==
  /\ pc[c] = "save"
  /\ ctx[c] = "live"
  /\ reported' = reported \union {task[c]}
  /\ usage' = [usage EXCEPT ![task[c]] = @ + IF completed[c] THEN 1 ELSE 0]
  /\ usageSaved' = [usageSaved EXCEPT ![c] = TRUE]
  /\ pc' = [pc EXCEPT ![c] = "notify"]
  /\ UNCHANGED <<ctx, task, failed, completed, running, owner, shuttingDown,
                 mainPc, drain, job, boots, tasks, lastTask, lost>>

\* The transaction fails as a whole: the context has ended, or the database.
RecordFails(c) ==
  /\ pc[c] = "save"
  /\ failed' = [failed EXCEPT ![c] = TRUE]
  /\ pc' = [pc EXCEPT ![c] = "deferred"]
  /\ UNCHANGED <<ctx, task, completed, usageSaved, running, owner,
                 shuttingDown, mainPc, drain, disk>>

\* Incidents, publication, rule alerts and the global alert.  Their failures
\* are logged and leave the outcome of the run alone.
Notify(c) ==
  /\ pc[c] = "notify"
  /\ pc' = [pc EXCEPT ![c] = "deferred"]
  /\ UNCHANGED <<ctx, task, failed, completed, usageSaved, running, owner,
                 shuttingDown, mainPc, drain, disk>>

\* Fault: the deferred function forgets usageSaved.
UsageOwedTwice(c) == completed[c]
UsageOwed(c) == completed[c] /\ ~usageSaved[c]

\* The deferred function of runCheck books what the interrupted run used, with
\* a context of its own.  When that fails the error joins runErr.
SettleUsage(c) ==
  /\ pc[c] = "deferred"
  /\ IF UsageOwed(c)
       THEN \/ /\ usage' = [usage EXCEPT ![task[c]] = @ + 1]
               /\ UNCHANGED failed
            \/ /\ failed' = [failed EXCEPT ![c] = TRUE]
               /\ UNCHANGED usage
       ELSE UNCHANGED <<usage, failed>>
  /\ pc' = [pc EXCEPT ![c] = "finish"]
  /\ UNCHANGED <<ctx, task, completed, usageSaved, running, owner,
                 shuttingDown, mainPc, drain, job, boots, tasks, lastTask,
                 reported, lost>>

\* Fault: the context is looked at although the run returned no error.
OutcomeByContext(c) ==
  IF ctx[c] = "canceled" THEN "canceled"
  ELSE IF failed[c] THEN "error" ELSE "success"

Outcome(c) ==
  IF ~failed[c] THEN "success"
  ELSE IF ctx[c] = "canceled" THEN "canceled" ELSE "error"

\* Fault: executeCheck returns on an error before it settles the task.
FinishTaskOnSuccess(c) ==
  /\ pc[c] = "finish"
  /\ tasks' = IF failed[c] THEN tasks
              ELSE [tasks EXCEPT ![task[c]] = Outcome(c)]
  /\ pc' = [pc EXCEPT ![c] = "release"]
  /\ UNCHANGED <<ctx, task, failed, completed, usageSaved, running, owner,
                 shuttingDown, mainPc, drain, job, boots, lastTask, usage,
                 reported, lost>>

\* FinishCheckTask, with a context of its own.  A failed update is logged.
FinishTask(c) ==
  /\ pc[c] = "finish"
  /\ \/ /\ tasks' = [tasks EXCEPT ![task[c]] = Outcome(c)]
        /\ UNCHANGED lost
     \/ /\ lost' = lost \union {task[c]}
        /\ UNCHANGED tasks
  /\ pc' = [pc EXCEPT ![c] = "release"]
  /\ UNCHANGED <<ctx, task, failed, completed, usageSaved, running, owner,
                 shuttingDown, mainPc, drain, job, boots, lastTask, usage,
                 reported>>

\* finishRunState, deferred by executeCheck and called by beginCheck when the
\* insert failed.  Closing runDone wakes a shutdown that waits on it.
FinishRunState(c) ==
  /\ pc[c] \in {"abort", "release"}
  /\ running' = FALSE
  /\ owner' = "nobody"
  /\ drain' = IF drain = "open" THEN "closed" ELSE drain
  /\ Return(c)
  /\ UNCHANGED <<shuttingDown, mainPc, disk>>

-----------------------------------------------------------------------------
(***************************************************************************)
(* The administrator, the clock, and the updater                           *)
(***************************************************************************)

Cancel(c) == [ctx EXCEPT ![c] = IF @ = "live" THEN "canceled" ELSE @]

\* StopCheck, when it returns true.
StopCheck ==
  /\ Up
  /\ running
  /\ ctx' = Cancel(owner)
  /\ UNCHANGED <<pc, task, failed, completed, usageSaved, running, owner,
                 shuttingDown, mainPc, drain, job, boots, tasks, lastTask,
                 usage, reported, lost>>

\* The deadline of StartCheck, StartSelectedCheck and runProviderSchedules.
Expire(c) ==
  /\ c \in Timed
  /\ pc[c] # "idle"
  /\ ctx[c] = "live"
  /\ ctx' = [ctx EXCEPT ![c] = "expired"]
  /\ UNCHANGED <<pc, task, failed, completed, usageSaved, running, owner,
                 shuttingDown, mainPc, drain, disk>>

\* application.Start and Manager.Start: the job file is written while
\* application.mu is held.
StartUpdate ==
  /\ Up
  /\ ~running
  /\ ~shuttingDown
  /\ ~UpdaterBusy(TRUE)
  /\ job' = "active"
  /\ UNCHANGED <<memory, boots, tasks, lastTask, usage, reported, lost>>

\* The update worker, a process of its own, ends the job.
EndUpdate ==
  /\ job = "active"
  /\ job' = "idle"
  /\ UNCHANGED <<memory, boots, tasks, lastTask, usage, reported, lost>>

-----------------------------------------------------------------------------
(***************************************************************************)
(* main: signal, shutdown, exit, crash and the next start                  *)
(***************************************************************************)

\* SIGTERM or SIGINT cancels main's context and what derives from it.
Terminate ==
  /\ mainPc = "serving"
  /\ boots < MaxBoots                                    \* bound
  /\ mainPc' = "signalled"
  /\ ctx' = [c \in Callers |->
               IF c \in Scoped /\ pc[c] # "idle" /\ ctx[c] = "live"
                 THEN "canceled" ELSE ctx[c]]
  /\ UNCHANGED <<pc, task, failed, completed, usageSaved, running, owner,
                 shuttingDown, drain, disk>>

\* application.shutdown up to its wait.
Shutdown ==
  /\ mainPc = "signalled"
  /\ shuttingDown' = TRUE
  /\ IF running
       THEN /\ drain' = "open"
            /\ ctx' = Cancel(owner)
            /\ mainPc' = "waiting"
       ELSE /\ drain' = "none"
            /\ mainPc' = "drained"
            /\ UNCHANGED ctx
  /\ UNCHANGED <<pc, task, failed, completed, usageSaved, running, owner, disk>>

\* runDone is closed: shutdown returns nil.
ShutdownDone ==
  /\ mainPc = "waiting"
  /\ drain = "closed"
  /\ mainPc' = "drained"
  /\ UNCHANGED <<pc, ctx, task, failed, completed, usageSaved, running, owner,
                 shuttingDown, drain, disk>>

\* The five seconds are over.
ShutdownTimesOut ==
  /\ mainPc = "waiting"
  /\ mainPc' = "gaveUp"
  /\ UNCHANGED <<pc, ctx, task, failed, completed, usageSaved, running, owner,
                 shuttingDown, drain, disk>>

\* The process is gone, and with it all that it kept in memory.
LoseMemory ==
  /\ mainPc' = "down"
  /\ pc' = [c \in Callers |-> "idle"]
  /\ ctx' = [c \in Callers |-> "live"]
  /\ task' = [c \in Callers |-> 0]
  /\ failed' = [c \in Callers |-> FALSE]
  /\ completed' = [c \in Callers |-> FALSE]
  /\ usageSaved' = [c \in Callers |-> FALSE]
  /\ running' = FALSE
  /\ owner' = "nobody"
  /\ shuttingDown' = FALSE
  /\ drain' = "none"
  /\ UNCHANGED disk

\* Fault: after a timed-out shutdown main waits for the goroutines for ever.
ExitOnlyDrained == mainPc = "drained" /\ LoseMemory

\* main returns once the server has shut down and the background goroutines
\* have ended, or the same five seconds are over.
Exit ==
  /\ mainPc \in {"drained", "gaveUp"}
  /\ LoseMemory

Crash ==
  /\ Up
  /\ boots < MaxBoots                                    \* bound
  /\ LoseMemory

\* Faults: the next start recovers nothing, or its UPDATE has no WHERE.
RecoverNothing == tasks
RecoverAll ==
  [i \in TaskIds |-> IF tasks[i] = "absent" THEN "absent" ELSE "canceled"]

\* RecoverInterruptedTasks
RecoverInterruptedTasks ==
  [i \in TaskIds |-> IF tasks[i] = "running" THEN "canceled" ELSE tasks[i]]

\* main recovers the tasks before any goroutine starts.
Boot ==
  /\ mainPc = "down"
  /\ mainPc' = "serving"
  /\ boots' = boots + 1
  /\ tasks' = RecoverInterruptedTasks
  /\ UNCHANGED <<pc, ctx, task, failed, completed, usageSaved, running, owner,
                 shuttingDown, drain, job, lastTask, usage, reported, lost>>

-----------------------------------------------------------------------------
\* The steps of a check that has been let in; none waits for another caller.
Step(c) ==
  \/ CreateTask(c)
  \/ CreateTaskFails(c)
  \/ PublishTask(c)
  \/ Probe(c)
  \/ Record(c)
  \/ RecordFails(c)
  \/ Notify(c)
  \/ SettleUsage(c)
  \/ FinishTask(c)
  \/ FinishRunState(c)

Next ==
  \/ \E c \in Callers :
       \/ Call(c)
       \/ Refuse(c)
       \/ Admit(c)
       \/ Step(c)
       \/ Expire(c)
  \/ StopCheck
  \/ StartUpdate
  \/ EndUpdate
  \/ Terminate
  \/ Shutdown
  \/ ShutdownDone
  \/ ShutdownTimesOut
  \/ Exit
  \/ Crash
  \/ Boot

Spec == Init /\ [][Next]_vars

(***************************************************************************)
(* The Go scheduler runs every goroutine that can run, every request and   *)
(* statement of a run has a timeout of its own, and main's waits have      *)
(* five seconds.  Nobody is obliged to ask for a check, to stop one, to    *)
(* signal the process or to start it again.                                *)
(***************************************************************************)
Fairness ==
  /\ \A c \in Callers : WF_vars(Step(c))
  /\ WF_vars(Shutdown)
  /\ WF_vars(ShutdownDone \/ ShutdownTimesOut)
  /\ WF_vars(Exit)

FairSpec == Spec /\ Fairness

-----------------------------------------------------------------------------
(***************************************************************************)
(* Properties                                                              *)
(***************************************************************************)

\* The variables keep their types; a task has one of the four statuses the
\* API documents (storage.CheckTask), and usage is booked at most twice.
TypeOK ==
  /\ pc \in [Callers -> {"idle", "admit"} \union Held]
  /\ ctx \in [Callers -> {"live", "canceled", "expired"}]
  /\ task \in [Callers -> 0..MaxTasks]
  /\ failed \in [Callers -> BOOLEAN]
  /\ completed \in [Callers -> BOOLEAN]
  /\ usageSaved \in [Callers -> BOOLEAN]
  /\ running \in BOOLEAN
  /\ owner \in Callers \union {"nobody"}
  /\ shuttingDown \in BOOLEAN
  /\ mainPc \in {"serving", "signalled", "waiting", "drained", "gaveUp", "down"}
  /\ drain \in {"none", "open", "closed"}
  /\ job \in {"idle", "active"}
  /\ boots \in Nat
  /\ tasks \in [TaskIds -> Ended \union {"absent", "running"}]
  /\ lastTask \in 0..MaxTasks
  /\ usage \in [TaskIds -> Nat]
  /\ reported \in SUBSET TaskIds
  /\ lost \in SUBSET TaskIds

\* Two callers are never both between beginCheck and finishRunState, whatever
\* way a run ends (application.running, beginCheck, finishRunState).
OneRunAtATime ==
  \A c, d \in Callers : pc[c] \in Held /\ pc[d] \in Held => c = d

\* A check and a system update never overlap: beginCheck asks the updater
\* under the lock under which application.Start asks for a running check.
NoCheckDuringUpdate == ~(job = "active" /\ \E c \in Callers : pc[c] \in Held)

\* When shutdown returns without an error, no check is running and none will
\* start, and the only tasks still open are those the database failed to take.
CleanShutdown ==
  mainPc = "drained" =>
    /\ \A c \in Callers : pc[c] \notin Held
    /\ \A i \in TaskIds : tasks[i] = "running" => i \in lost

\* While the process is up, an open task belongs to the run in progress,
\* unless the database failed to take its insert or its update: no sequence
\* of failures, crashes and restarts leaves another one behind.
OpenTasksAccounted ==
  Up => \A i \in TaskIds : tasks[i] = "running" =>
          \/ i \in lost
          \/ \E c \in Callers : task[c] = i /\ pc[c] \in Reporting

\* The usage of a run is booked at most once, whether with its report or by
\* the deferred function that books what an interrupted run used.
UsageBookedOnce == \A i \in TaskIds : usage[i] <= 1

\* A running process settles a task as a success exactly when its report was
\* committed; a canceled or failed run has left the report alone.
SettledTruthfully ==
  [][\A i \in TaskIds :
       tasks[i] = "running" /\ tasks'[i] \in Ended /\ Up =>
         (tasks'[i] = "success" <=> i \in reported)]_vars

\* An accepted task is settled in the end, unless the database failed to take
\* its insert or its update, or the process went down before.
TasksSettle ==
  \A i \in TaskIds :
    tasks[i] = "running" ~> (tasks[i] \in Ended \/ i \in lost \/ ~Up)

\* A signalled process ends, whatever its checks do.
ShutdownEnds == mainPc = "signalled" ~> mainPc = "down"

\* docs/api.md says of the stop call that answers "stopped": true, and of a
\* regular shutdown, that the unfinished task is marked canceled.
StopCancels ==
  [][\A c \in Callers :
       /\ ctx[c] = "canceled"
       /\ pc[c] \in Reporting
       /\ tasks[task[c]] = "running"
       /\ tasks'[task[c]] \in Ended
       => tasks'[task[c]] = "canceled"]_vars

-----------------------------------------------------------------------------
(***************************************************************************)
(* The inductive invariant: what the properties rest on.                   *)
(***************************************************************************)

\* The flag, the owner and the control points say the same thing.
OwnerInv ==
  /\ running <=> owner # "nobody"
  /\ \A c \in Callers : pc[c] \in Held <=> owner = c

GateInv == job = "active" => ~running

ShutdownInv ==
  /\ shuttingDown <=> mainPc \in {"waiting", "drained", "gaveUp"}
  /\ drain # "none" => shuttingDown
  /\ drain = "closed" => ~running
  /\ mainPc = "drained" => ~running
  /\ mainPc = "down" => \A c \in Callers : pc[c] = "idle"

\* Rows are given out in order and the run in progress has an open one.
RowInv ==
  /\ \A i \in TaskIds : i > lastTask =>
       tasks[i] = "absent" /\ usage[i] = 0 /\ i \notin reported
  /\ \A c \in Callers : pc[c] = "create" => lastTask < MaxTasks
  /\ \A c \in Callers : pc[c] \in Reporting =>
       task[c] \in 1..lastTask /\ tasks[task[c]] = "running"

\* What a run has booked and committed at each of its control points.
ProgressInv ==
  \A c \in Callers :
    /\ pc[c] \in {"idle", "admit", "create", "abort", "publish", "run"} =>
         ~failed[c] /\ ~usageSaved[c]
    /\ pc[c] \in {"publish", "run", "save"} =>
         /\ ~failed[c]
         /\ ~usageSaved[c]
         /\ task[c] \notin reported
         /\ usage[task[c]] = 0
    /\ pc[c] = "notify" => ~failed[c] /\ usageSaved[c] /\ task[c] \in reported
    /\ pc[c] = "deferred" =>
         /\ failed[c] <=> task[c] \notin reported
         /\ failed[c] <=> ~usageSaved[c]
         /\ ~usageSaved[c] => usage[task[c]] = 0
    /\ pc[c] = "finish" => (failed[c] <=> task[c] \notin reported)

IInv ==
  /\ TypeOK
  /\ OwnerInv
  /\ GateInv
  /\ ShutdownInv
  /\ RowInv
  /\ ProgressInv
  /\ OpenTasksAccounted
  /\ UsageBookedOnce

-----------------------------------------------------------------------------
(***************************************************************************)
(* CheckRun implements CheckService.                                       *)
(***************************************************************************)
Holder == IF job = "active" THEN "update" ELSE owner

Current ==
  IF owner # "nobody" /\ pc[owner] \in Reporting THEN task[owner] ELSE 0

Service == INSTANCE CheckService WITH
  holder <- Holder,
  closed <- shuttingDown \/ ~Up,
  current <- Current,
  ledger <- tasks

\* Every step of the threads, of the process and of the updater is a step of
\* the abstract service or leaves it unchanged.
ImplementsService == Service!Spec
=============================================================================
