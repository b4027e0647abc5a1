--------------------------- MODULE CheckRunProofs ---------------------------
(***************************************************************************)
(* Proofs about CheckRun, for every set of callers and every bound.        *)
(***************************************************************************)
EXTENDS CheckRun, TLAPS

LEMMA TypeStep == TypeOK /\ RowInv /\ [Next]_vars => TypeOK'
<1> SUFFICES ASSUME TypeOK, RowInv, [Next]_vars PROVE TypeOK'
  OBVIOUS
<1> USE CallersAssumption, BoundsAssumption DEF TypeOK, TaskIds, Held, Ended
<1>1. ASSUME NEW c \in Callers, Call(c) PROVE TypeOK'
  BY <1>1 DEF Call, disk
<1>2. ASSUME NEW c \in Callers, Refuse(c) PROVE TypeOK'
  BY <1>2 DEF Refuse, Return, disk
<1>3. ASSUME NEW c \in Callers, Admit(c) PROVE TypeOK'
  BY <1>3 DEF Admit, disk
<1>4. ASSUME NEW c \in Callers, CreateTask(c) PROVE TypeOK'
  BY <1>4 DEF CreateTask, RowInv
<1>5. ASSUME NEW c \in Callers, CreateTaskFails(c) PROVE TypeOK'
  <2>1. pc' \in [Callers -> {"idle", "admit"} \union Held]
    BY <1>5 DEF CreateTaskFails
  <2>2. /\ tasks' \in [TaskIds -> Ended \union {"absent", "running"}]
        /\ lastTask' \in 0..MaxTasks
        /\ lost' \in SUBSET TaskIds
    <3>1. CASE UNCHANGED <<tasks, lastTask, lost>>
      BY <3>1
    <3>2. CASE ~UNCHANGED <<tasks, lastTask, lost>>
      <4>1. lastTask + 1 \in TaskIds
        BY <1>5 DEF CreateTaskFails, RowInv
      <4>2. /\ lastTask' = lastTask + 1
            /\ tasks' = [tasks EXCEPT ![lastTask + 1] = "running"]
            /\ lost' = lost \union {lastTask + 1}
        BY <1>5, <3>2 DEF CreateTaskFails
      <4>3. QED
        BY <4>1, <4>2
    <3>3. QED
      BY <3>1, <3>2
  <2>3. QED
    BY <1>5, <2>1, <2>2 DEF CreateTaskFails
<1>6. ASSUME NEW c \in Callers, PublishTask(c) PROVE TypeOK'
  BY <1>6 DEF PublishTask, disk
<1>7. ASSUME NEW c \in Callers, Probe(c) PROVE TypeOK'
  BY <1>7 DEF Probe, disk
<1>8. ASSUME NEW c \in Callers, Record(c) PROVE TypeOK'
  <2>1. pc' \in [Callers -> {"idle", "admit"} \union Held]
    BY <1>8 DEF Record
  <2>2. task[c] \in TaskIds
    BY <1>8 DEF Record, RowInv, Reporting
  <2>3. usage' \in [TaskIds -> Nat]
    BY <1>8, <2>2 DEF Record
  <2>4. reported' \in SUBSET TaskIds
    BY <1>8, <2>2 DEF Record
  <2>5. usageSaved' \in [Callers -> BOOLEAN]
    BY <1>8 DEF Record
  <2>6. QED
    BY <1>8, <2>1, <2>3, <2>4, <2>5 DEF Record
<1>9. ASSUME NEW c \in Callers, RecordFails(c) PROVE TypeOK'
  BY <1>9 DEF RecordFails, disk
<1>10. ASSUME NEW c \in Callers, Notify(c) PROVE TypeOK'
  BY <1>10 DEF Notify, disk
<1>11. ASSUME NEW c \in Callers, SettleUsage(c) PROVE TypeOK'
  <2>1. pc' \in [Callers -> {"idle", "admit"} \union Held]
    BY <1>11 DEF SettleUsage
  <2>2. task[c] \in TaskIds
    BY <1>11 DEF SettleUsage, RowInv, Reporting
  <2>3. usage' \in [TaskIds -> Nat]
    BY <1>11, <2>2 DEF SettleUsage
  <2>4. failed' \in [Callers -> BOOLEAN]
    BY <1>11 DEF SettleUsage
  <2>5. QED
    BY <1>11, <2>1, <2>3, <2>4 DEF SettleUsage
<1>12. ASSUME NEW c \in Callers, FinishTask(c) PROVE TypeOK'
  <2>1. pc' \in [Callers -> {"idle", "admit"} \union Held]
    BY <1>12 DEF FinishTask
  <2>2. task[c] \in TaskIds
    BY <1>12 DEF FinishTask, RowInv, Reporting
  <2>3. Outcome(c) \in Ended
    BY DEF Outcome
  <2>4. tasks' \in [TaskIds -> Ended \union {"absent", "running"}]
    BY <1>12, <2>2, <2>3 DEF FinishTask
  <2>5. lost' \in SUBSET TaskIds
    BY <1>12, <2>2 DEF FinishTask
  <2>6. QED
    BY <1>12, <2>1, <2>4, <2>5 DEF FinishTask
<1>13. ASSUME NEW c \in Callers, FinishRunState(c) PROVE TypeOK'
  <2>1. pc' \in [Callers -> {"idle", "admit"} \union Held]
    BY <1>13 DEF FinishRunState, Return
  <2>2. /\ ctx' \in [Callers -> {"live", "canceled", "expired"}]
        /\ task' \in [Callers -> 0..MaxTasks]
        /\ failed' \in [Callers -> BOOLEAN]
        /\ completed' \in [Callers -> BOOLEAN]
        /\ usageSaved' \in [Callers -> BOOLEAN]
    BY <1>13 DEF FinishRunState, Return
  <2>3. drain' \in {"none", "open", "closed"}
    BY <1>13 DEF FinishRunState
  <2>4. QED
    BY <1>13, <2>1, <2>2, <2>3 DEF FinishRunState, disk
<1>14. ASSUME NEW c \in Callers, Expire(c) PROVE TypeOK'
  BY <1>14 DEF Expire, disk
<1>15. CASE StopCheck
  BY <1>15 DEF StopCheck, Cancel, disk
<1>16. CASE StartUpdate
  BY <1>16 DEF StartUpdate, memory
<1>17. CASE EndUpdate
  BY <1>17 DEF EndUpdate, memory
<1>18. CASE Terminate
  BY <1>18 DEF Terminate, disk
<1>19. CASE Shutdown
  <2>1. ctx' \in [Callers -> {"live", "canceled", "expired"}]
    BY <1>19 DEF Shutdown, Cancel
  <2>2. /\ mainPc' \in {"serving", "signalled", "waiting", "drained", "gaveUp",
                         "down"}
        /\ drain' \in {"none", "open", "closed"}
        /\ shuttingDown' \in BOOLEAN
    BY <1>19 DEF Shutdown
  <2>3. QED
    BY <1>19, <2>1, <2>2 DEF Shutdown, disk
<1>20. CASE ShutdownDone
  BY <1>20 DEF ShutdownDone, disk
<1>21. CASE ShutdownTimesOut
  BY <1>21 DEF ShutdownTimesOut, disk
<1>22. CASE LoseMemory
  <2>1. /\ pc' \in [Callers -> {"idle", "admit"} \union Held]
        /\ ctx' \in [Callers -> {"live", "canceled", "expired"}]
        /\ task' \in [Callers -> 0..MaxTasks]
    BY <1>22 DEF LoseMemory
  <2>2. /\ failed' \in [Callers -> BOOLEAN]
        /\ completed' \in [Callers -> BOOLEAN]
        /\ usageSaved' \in [Callers -> BOOLEAN]
    BY <1>22 DEF LoseMemory
  <2>3. QED
    BY <1>22, <2>1, <2>2 DEF LoseMemory, disk
<1>23. CASE Boot
  BY <1>23 DEF Boot, RecoverInterruptedTasks
<1>24. CASE UNCHANGED vars
  BY <1>24 DEF vars, memory, disk
<1>25. QED
  BY <1>1, <1>2, <1>3, <1>4, <1>5, <1>6, <1>7, <1>8, <1>9, <1>10, <1>11,
     <1>12, <1>13, <1>14, <1>15, <1>16, <1>17, <1>18, <1>19, <1>20, <1>21,
     <1>22, <1>23, <1>24 DEF Next, Step, Exit, Crash

LEMMA OwnerStep == TypeOK /\ OwnerInv /\ [Next]_vars => OwnerInv'
<1> SUFFICES ASSUME TypeOK, OwnerInv, [Next]_vars PROVE OwnerInv'
  OBVIOUS
<1> USE CallersAssumption DEF TypeOK, OwnerInv, Held
<1>1. ASSUME NEW c \in Callers, Call(c) PROVE OwnerInv'
  BY <1>1 DEF Call
<1>2. ASSUME NEW c \in Callers, Refuse(c) PROVE OwnerInv'
  BY <1>2 DEF Refuse, Return
<1>3. ASSUME NEW c \in Callers, Admit(c) PROVE OwnerInv'
  BY <1>3 DEF Admit, Vacant
<1>4. ASSUME NEW c \in Callers, Step(c), ~FinishRunState(c) PROVE OwnerInv'
  BY <1>4 DEF Step, CreateTask, CreateTaskFails, PublishTask, Probe, Record,
              RecordFails, Notify, SettleUsage, FinishTask
<1>5. ASSUME NEW c \in Callers, FinishRunState(c) PROVE OwnerInv'
  BY <1>5 DEF FinishRunState, Return
<1>6. CASE LoseMemory
  BY <1>6 DEF LoseMemory
<1>7. CASE UNCHANGED <<pc, running, owner>>
  BY <1>7
<1>8. QED
  BY <1>1, <1>2, <1>3, <1>4, <1>5, <1>6, <1>7
  DEF Next, Expire, StopCheck, StartUpdate, EndUpdate, Terminate, Shutdown,
      ShutdownDone, ShutdownTimesOut, Exit, Crash, Boot, vars, memory

LEMMA GateStep == TypeOK /\ OwnerInv /\ GateInv /\ [Next]_vars => GateInv'
<1> SUFFICES ASSUME TypeOK, OwnerInv, GateInv, [Next]_vars PROVE GateInv'
  OBVIOUS
<1> USE DEF TypeOK, GateInv
<1>1. ASSUME NEW c \in Callers, Admit(c) PROVE GateInv'
  BY <1>1 DEF Admit, AdmissionOpen, UpdaterBusy, disk
<1>2. CASE StartUpdate
  BY <1>2 DEF StartUpdate, memory
<1>3. CASE UNCHANGED running /\ (UNCHANGED job \/ job' = "idle")
  BY <1>3
<1>4. CASE running' = FALSE
  BY <1>4
<1>5. QED
  BY <1>1, <1>2, <1>3, <1>4
  DEF Next, Step, Call, Refuse, CreateTask, CreateTaskFails, PublishTask,
      Probe, Record, RecordFails, Notify, SettleUsage, FinishTask,
      FinishRunState, Expire, StopCheck, EndUpdate, Terminate, Shutdown,
      ShutdownDone, ShutdownTimesOut, Exit, Crash, LoseMemory, Boot, vars,
      memory, disk

LEMMA ShutdownStep ==
  TypeOK /\ OwnerInv /\ ShutdownInv /\ [Next]_vars => ShutdownInv'
<1> SUFFICES ASSUME TypeOK, OwnerInv, ShutdownInv, [Next]_vars
             PROVE ShutdownInv'
  OBVIOUS
<1> USE DEF TypeOK, ShutdownInv
<1>1. ASSUME NEW c \in Callers, Admit(c) PROVE ShutdownInv'
  BY <1>1 DEF Admit, AdmissionOpen
<1>2. ASSUME NEW c \in Callers, FinishRunState(c) PROVE ShutdownInv'
  BY <1>2 DEF FinishRunState
<1>3. ASSUME NEW c \in Callers, Call(c) PROVE ShutdownInv'
  BY <1>3 DEF Call, Up
<1>4. ASSUME NEW c \in Callers, Refuse(c) \/ (Step(c) /\ ~FinishRunState(c))
      PROVE  ShutdownInv'
  <2>1. mainPc # "down"
    BY <1>4 DEF Refuse, Step, CreateTask, CreateTaskFails, PublishTask, Probe,
                Record, RecordFails, Notify, SettleUsage, FinishTask
  <2>2. UNCHANGED <<running, shuttingDown, mainPc, drain>>
    BY <1>4 DEF Refuse, Step, CreateTask, CreateTaskFails, PublishTask, Probe,
                Record, RecordFails, Notify, SettleUsage, FinishTask
  <2>3. QED
    BY <2>1, <2>2
<1>5. CASE Terminate \/ Shutdown \/ ShutdownDone \/ ShutdownTimesOut
  <2>1. UNCHANGED <<pc, running>>
    BY <1>5 DEF Terminate, Shutdown, ShutdownDone, ShutdownTimesOut
  <2>2. QED
    BY <1>5, <2>1
    DEF OwnerInv, Terminate, Shutdown, ShutdownDone, ShutdownTimesOut
<1>6. CASE LoseMemory
  BY <1>6 DEF LoseMemory
<1>7. CASE Boot
  BY <1>7 DEF Boot
<1>8. CASE UNCHANGED <<pc, running, shuttingDown, mainPc, drain>>
  BY <1>8
<1>9. QED
  BY <1>1, <1>2, <1>3, <1>4, <1>5, <1>6, <1>7, <1>8
  DEF Next, Step, Expire, StopCheck, StartUpdate, EndUpdate, Exit, Crash, vars,
      memory

LEMMA RowStep ==
  TypeOK /\ OwnerInv /\ ShutdownInv /\ RowInv /\ [Next]_vars => RowInv'
<1> SUFFICES ASSUME TypeOK, OwnerInv, ShutdownInv, RowInv, [Next]_vars
             PROVE  RowInv'
  OBVIOUS
<1> USE BoundsAssumption DEF TypeOK, TaskIds, OwnerInv, RowInv, Reporting, Held
<1>1. ASSUME NEW c \in Callers, Call(c) PROVE RowInv'
  BY <1>1 DEF Call, disk
<1>2. ASSUME NEW c \in Callers, Refuse(c) PROVE RowInv'
  BY <1>2 DEF Refuse, Return, disk
<1>3. ASSUME NEW c \in Callers, Admit(c) PROVE RowInv'
  BY <1>3 DEF Admit, Vacant, disk
<1>4. ASSUME NEW c \in Callers, CreateTask(c) PROVE RowInv'
  BY <1>4 DEF CreateTask
<1>5. ASSUME NEW c \in Callers, CreateTaskFails(c) PROVE RowInv'
  <2>1. \A d \in Callers : pc'[d] \notin {"create"} \union Reporting
    BY <1>5 DEF CreateTaskFails
  <2>2. \A i \in TaskIds : i > lastTask' =>
          tasks'[i] = "absent" /\ usage'[i] = 0 /\ i \notin reported'
    BY <1>5 DEF CreateTaskFails
  <2>3. QED
    BY <2>1, <2>2
<1>6. ASSUME NEW c \in Callers,
             PublishTask(c) \/ Probe(c) \/ RecordFails(c) \/ Notify(c)
      PROVE  RowInv'
  <2>1. UNCHANGED <<task, disk>>
    BY <1>6 DEF PublishTask, Probe, RecordFails, Notify
  <2>2. \A d \in Callers : /\ pc'[d] = "create" => pc[d] = "create"
                           /\ pc'[d] \in Reporting => pc[d] \in Reporting
    BY <1>6 DEF PublishTask, Probe, RecordFails, Notify
  <2>3. QED
    BY <2>1, <2>2 DEF disk
<1>7. ASSUME NEW c \in Callers, Record(c) \/ SettleUsage(c) PROVE RowInv'
  <2>1. UNCHANGED <<task, tasks, lastTask>>
    BY <1>7 DEF Record, SettleUsage
  <2>2. \A d \in Callers : /\ pc'[d] = "create" => pc[d] = "create"
                           /\ pc'[d] \in Reporting => pc[d] \in Reporting
    BY <1>7 DEF Record, SettleUsage
  <2>3. task[c] \in 1..lastTask
    BY <1>7 DEF Record, SettleUsage
  <2>4. \A i \in TaskIds : i > lastTask =>
          usage'[i] = usage[i] /\ (i \in reported' <=> i \in reported)
    BY <1>7, <2>3 DEF Record, SettleUsage
  <2>5. QED
    BY <2>1, <2>2, <2>4
<1>8. ASSUME NEW c \in Callers, FinishTask(c) PROVE RowInv'
  <2>1. UNCHANGED <<task, lastTask, usage, reported>>
    BY <1>8 DEF FinishTask
  <2>2. \A d \in Callers : pc'[d] \notin {"create"} \union Reporting
    BY <1>8 DEF FinishTask
  <2>3. task[c] \in 1..lastTask
    BY <1>8 DEF FinishTask
  <2>4. \A i \in TaskIds : i > lastTask => tasks'[i] = tasks[i]
    BY <1>8, <2>3 DEF FinishTask
  <2>5. QED
    BY <2>1, <2>2, <2>4
<1>9. ASSUME NEW c \in Callers, FinishRunState(c) PROVE RowInv'
  BY <1>9 DEF FinishRunState, Return, disk
<1>10. CASE LoseMemory
  BY <1>10 DEF LoseMemory, disk
<1>11. CASE Boot
  <2>1. mainPc = "down" /\ UNCHANGED <<pc, task, lastTask, usage, reported>>
    BY <1>11 DEF Boot
  <2>2. \A i \in TaskIds : tasks'[i] = "absent" <=> tasks[i] = "absent"
    BY <1>11 DEF Boot, RecoverInterruptedTasks
  <2>3. QED
    BY <2>1, <2>2 DEF ShutdownInv
<1>12. CASE UNCHANGED <<pc, task, tasks, lastTask, usage, reported>>
  BY <1>12
<1>13. QED
  BY <1>1, <1>2, <1>3, <1>4, <1>5, <1>6, <1>7, <1>8, <1>9, <1>10, <1>11, <1>12
  DEF Next, Step, Expire, StopCheck, StartUpdate, EndUpdate, Terminate,
      Shutdown, ShutdownDone, ShutdownTimesOut, Exit, Crash, vars, memory, disk

LEMMA ProgressStep ==
  TypeOK /\ OwnerInv /\ RowInv /\ ProgressInv /\ [Next]_vars => ProgressInv'
<1> SUFFICES ASSUME TypeOK, OwnerInv, RowInv, ProgressInv, [Next]_vars
             PROVE  ProgressInv'
  OBVIOUS
<1> USE BoundsAssumption DEF TypeOK, TaskIds, OwnerInv, ProgressInv, Held
<1>1. ASSUME NEW c \in Callers, Call(c) \/ Admit(c) \/ PublishTask(c)
      PROVE  ProgressInv'
  <2>1. UNCHANGED <<task, failed, usageSaved, usage, reported>>
    BY <1>1 DEF Call, Admit, PublishTask, disk
  <2>2. /\ pc[c] \in {"idle", "admit", "publish"}
        /\ pc'[c] \in {"admit", "create", "run"}
        /\ pc[c] = "publish" <=> pc'[c] = "run"
        /\ \A d \in Callers \ {c} : pc'[d] = pc[d]
    BY <1>1 DEF Call, Admit, PublishTask
  <2>3. QED
    BY <2>1, <2>2
<1>2. ASSUME NEW c \in Callers, Refuse(c) \/ FinishRunState(c)
      PROVE  ProgressInv'
  <2>1. Return(c) /\ UNCHANGED disk
    BY <1>2 DEF Refuse, FinishRunState
  <2>2. QED
    BY <2>1 DEF Return, disk
<1>3. ASSUME NEW c \in Callers, CreateTask(c) PROVE ProgressInv'
  <2>1. /\ pc[c] = "create"
        /\ UNCHANGED <<failed, usageSaved, usage, reported>>
        /\ task' = [task EXCEPT ![c] = lastTask + 1]
        /\ pc' = [pc EXCEPT ![c] = "publish"]
    BY <1>3 DEF CreateTask
  <2>2. /\ lastTask + 1 \in TaskIds
        /\ usage[lastTask + 1] = 0
        /\ lastTask + 1 \notin reported
    BY <2>1 DEF RowInv
  <2>3. QED
    BY <2>1, <2>2
<1>4. ASSUME NEW c \in Callers, CreateTaskFails(c) PROVE ProgressInv'
  BY <1>4 DEF CreateTaskFails
<1>5. ASSUME NEW c \in Callers, Probe(c) PROVE ProgressInv'
  BY <1>5 DEF Probe, disk
<1>6. ASSUME NEW c \in Callers, Record(c) PROVE ProgressInv'
  <2>1. /\ pc[c] = "save"
        /\ UNCHANGED <<task, failed>>
        /\ usageSaved' = [usageSaved EXCEPT ![c] = TRUE]
        /\ pc' = [pc EXCEPT ![c] = "notify"]
        /\ reported' = reported \union {task[c]}
    BY <1>6 DEF Record
  <2>2. \A d \in Callers \ {c} : pc'[d] \in {"idle", "admit"}
    BY <2>1
  <2>3. QED
    BY <2>1, <2>2
<1>7. ASSUME NEW c \in Callers, RecordFails(c) PROVE ProgressInv'
  BY <1>7 DEF RecordFails, disk
<1>8. ASSUME NEW c \in Callers, Notify(c) PROVE ProgressInv'
  BY <1>8 DEF Notify, disk
<1>9. ASSUME NEW c \in Callers, SettleUsage(c) PROVE ProgressInv'
  <2>1. /\ pc[c] = "deferred"
        /\ UNCHANGED <<task, usageSaved, reported>>
        /\ pc' = [pc EXCEPT ![c] = "finish"]
    BY <1>9 DEF SettleUsage
  <2>2. /\ failed'[c] <=> failed[c]
        /\ \A d \in Callers \ {c} : failed'[d] = failed[d]
    BY <1>9 DEF SettleUsage, UsageOwed
  <2>3. \A d \in Callers \ {c} : pc'[d] \in {"idle", "admit"}
    BY <2>1
  <2>4. QED
    BY <2>1, <2>2, <2>3
<1>10. ASSUME NEW c \in Callers, FinishTask(c) PROVE ProgressInv'
  BY <1>10 DEF FinishTask
<1>11. CASE LoseMemory
  BY <1>11 DEF LoseMemory, disk
<1>12. CASE UNCHANGED <<pc, task, failed, usageSaved, usage, reported>>
  BY <1>12
<1>13. QED
  BY <1>1, <1>2, <1>3, <1>4, <1>5, <1>6, <1>7, <1>8, <1>9, <1>10, <1>11, <1>12
  DEF Next, Step, Expire, StopCheck, StartUpdate, EndUpdate, Terminate,
      Shutdown, ShutdownDone, ShutdownTimesOut, Exit, Crash, Boot, vars,
      memory, disk

\* When every open task was open before, and its caller still reports it or it
\* is known as lost, then open tasks are still accounted for.
LEMMA OpenKept ==
  ASSUME OpenTasksAccounted,
         Up' => Up,
         lost \subseteq lost',
         \A i \in TaskIds : tasks'[i] = "running" =>
           \/ i \in lost'
           \/ \E c \in Callers : task'[c] = i /\ pc'[c] \in Reporting
           \/ /\ tasks[i] = "running"
              /\ \A d \in Callers : pc[d] \in Reporting /\ task[d] = i =>
                   pc'[d] \in Reporting /\ task'[d] = i
  PROVE  OpenTasksAccounted'
<1> SUFFICES ASSUME Up', NEW i \in TaskIds, tasks'[i] = "running", i \notin lost'
             PROVE  \E c \in Callers : task'[c] = i /\ pc'[c] \in Reporting
  BY DEF OpenTasksAccounted, Up
<1>1. CASE \E c \in Callers : task'[c] = i /\ pc'[c] \in Reporting
  BY <1>1
<1>2. CASE /\ tasks[i] = "running"
           /\ \A d \in Callers : pc[d] \in Reporting /\ task[d] = i =>
                pc'[d] \in Reporting /\ task'[d] = i
  <2>1. PICK d \in Callers : task[d] = i /\ pc[d] \in Reporting
    BY <1>2 DEF OpenTasksAccounted
  <2>2. task'[d] = i /\ pc'[d] \in Reporting
    BY <1>2, <2>1
  <2>3. QED
    BY <2>2
<1>3. QED
  BY <1>1, <1>2

LEMMA OpenStep ==
  TypeOK /\ RowInv /\ OpenTasksAccounted /\ [Next]_vars => OpenTasksAccounted'
<1> SUFFICES ASSUME TypeOK, RowInv, OpenTasksAccounted, [Next]_vars
             PROVE  OpenTasksAccounted'
  OBVIOUS
<1> USE BoundsAssumption DEF TypeOK, TaskIds, Reporting
<1>1. ASSUME NEW c \in Callers, Call(c) \/ Refuse(c) \/ Admit(c)
      PROVE  OpenTasksAccounted'
  <2>1. UNCHANGED <<tasks, lost, mainPc>>
    BY <1>1 DEF Call, Refuse, Admit, disk
  <2>2. /\ pc[c] \notin Reporting
        /\ \A d \in Callers \ {c} : pc'[d] = pc[d] /\ task'[d] = task[d]
    BY <1>1 DEF Call, Refuse, Return, Admit
  <2>3. QED
    BY <2>1, <2>2, OpenKept DEF Up
<1>2. ASSUME NEW c \in Callers, CreateTask(c) PROVE OpenTasksAccounted'
  <2>1. /\ pc[c] \notin Reporting
        /\ UNCHANGED <<lost, mainPc>>
        /\ pc' = [pc EXCEPT ![c] = "publish"]
        /\ task' = [task EXCEPT ![c] = lastTask + 1]
    BY <1>2 DEF CreateTask
  <2>2. \A i \in TaskIds : tasks'[i] = "running" =>
          tasks[i] = "running" \/ i = lastTask + 1
    BY <1>2 DEF CreateTask
  <2>3. task'[c] = lastTask + 1 /\ pc'[c] \in Reporting
    BY <2>1
  <2>4. \A d \in Callers : pc[d] \in Reporting =>
          pc'[d] \in Reporting /\ task'[d] = task[d]
    BY <2>1
  <2>5. QED
    BY <2>1, <2>2, <2>3, <2>4, OpenKept DEF Up
<1>3. ASSUME NEW c \in Callers, CreateTaskFails(c) PROVE OpenTasksAccounted'
  <2>1. /\ pc[c] \notin Reporting
        /\ UNCHANGED <<task, mainPc>>
        /\ pc' = [pc EXCEPT ![c] = "abort"]
    BY <1>3 DEF CreateTaskFails
  <2>2. \A i \in TaskIds : tasks'[i] = "running" =>
          tasks[i] = "running" \/ i \in lost'
    BY <1>3 DEF CreateTaskFails
  <2>3. lost \subseteq lost'
    BY <1>3 DEF CreateTaskFails
  <2>4. \A d \in Callers : pc[d] \in Reporting => pc'[d] \in Reporting
    BY <2>1
  <2>5. QED
    BY <2>1, <2>2, <2>3, <2>4, OpenKept DEF Up
<1>4. ASSUME NEW c \in Callers,
             \/ PublishTask(c) \/ Probe(c) \/ Record(c) \/ RecordFails(c)
             \/ Notify(c) \/ SettleUsage(c)
      PROVE  OpenTasksAccounted'
  <2>1. UNCHANGED <<task, tasks, lost, mainPc>>
    BY <1>4 DEF PublishTask, Probe, Record, RecordFails, Notify, SettleUsage,
                disk
  <2>2. \A d \in Callers : pc[d] \in Reporting => pc'[d] \in Reporting
    BY <1>4 DEF PublishTask, Probe, Record, RecordFails, Notify, SettleUsage
  <2>3. QED
    BY <2>1, <2>2, OpenKept DEF Up
<1>5. ASSUME NEW c \in Callers, FinishTask(c) PROVE OpenTasksAccounted'
  <2>1. /\ UNCHANGED <<task, mainPc>>
        /\ pc' = [pc EXCEPT ![c] = "release"]
        /\ task[c] \in TaskIds
        /\ lost \subseteq lost'
    BY <1>5 DEF FinishTask, RowInv
  <2>2. \A i \in TaskIds : i # task[c] => tasks'[i] = tasks[i]
    BY <1>5 DEF FinishTask
  <2>3. tasks'[task[c]] # "running" \/ task[c] \in lost'
    <3>1. Outcome(c) # "running"
      BY DEF Outcome
    <3>2. QED
      BY <1>5, <2>1, <3>1 DEF FinishTask
  <2>4. \A d \in Callers : pc[d] \in Reporting /\ task[d] # task[c] =>
          pc'[d] \in Reporting
    BY <2>1
  <2>5. QED
    BY <2>1, <2>2, <2>3, <2>4, OpenKept DEF Up
<1>6. ASSUME NEW c \in Callers, FinishRunState(c) PROVE OpenTasksAccounted'
  <2>1. UNCHANGED <<tasks, lost, mainPc>>
    BY <1>6 DEF FinishRunState, disk
  <2>2. /\ pc[c] \notin Reporting
        /\ \A d \in Callers \ {c} : pc'[d] = pc[d] /\ task'[d] = task[d]
    BY <1>6 DEF FinishRunState, Return
  <2>3. QED
    BY <2>1, <2>2, OpenKept DEF Up
<1>7. CASE LoseMemory
  BY <1>7 DEF LoseMemory, OpenTasksAccounted, Up
<1>8. CASE Boot
  BY <1>8 DEF Boot, RecoverInterruptedTasks, OpenTasksAccounted
<1>9. CASE UNCHANGED <<pc, task, tasks, lost>> /\ (Up' => Up)
  BY <1>9, OpenKept
<1>10. QED
  BY <1>1, <1>2, <1>3, <1>4, <1>5, <1>6, <1>7, <1>8, <1>9
  DEF Next, Step, Expire, StopCheck, StartUpdate, EndUpdate, Terminate,
      Shutdown, ShutdownDone, ShutdownTimesOut, Exit, Crash, vars, memory,
      disk, Up

LEMMA UsageStep ==
  TypeOK /\ RowInv /\ ProgressInv /\ UsageBookedOnce /\ [Next]_vars
    => UsageBookedOnce'
<1> SUFFICES ASSUME TypeOK, RowInv, ProgressInv, UsageBookedOnce, [Next]_vars
             PROVE  UsageBookedOnce'
  OBVIOUS
<1> USE BoundsAssumption DEF TypeOK, TaskIds, UsageBookedOnce
<1>1. ASSUME NEW c \in Callers, Record(c) PROVE UsageBookedOnce'
  <2>1. task[c] \in TaskIds /\ usage[task[c]] = 0
    BY <1>1 DEF Record, RowInv, ProgressInv, Reporting
  <2>2. QED
    BY <1>1, <2>1 DEF Record
<1>2. ASSUME NEW c \in Callers, SettleUsage(c) PROVE UsageBookedOnce'
  <2>1. CASE UsageOwed(c)
    <3>1. task[c] \in TaskIds /\ usage[task[c]] = 0
      BY <1>2, <2>1 DEF SettleUsage, UsageOwed, RowInv, ProgressInv, Reporting
    <3>2. QED
      BY <1>2, <3>1 DEF SettleUsage
  <2>2. CASE ~UsageOwed(c)
    BY <1>2, <2>2 DEF SettleUsage
  <2>3. QED
    BY <2>1, <2>2
<1>3. CASE UNCHANGED usage
  BY <1>3
<1>4. QED
  BY <1>1, <1>2, <1>3
  DEF Next, Step, Call, Refuse, Admit, CreateTask, CreateTaskFails,
      PublishTask, Probe, RecordFails, Notify, FinishTask, FinishRunState,
      Expire, StopCheck, StartUpdate, EndUpdate, Terminate, Shutdown,
      ShutdownDone, ShutdownTimesOut, Exit, Crash, LoseMemory, Boot, vars,
      memory, disk

LEMMA InitIInv == Init => IInv
<1> SUFFICES ASSUME Init PROVE IInv
  OBVIOUS
<1> USE BoundsAssumption, CallersAssumption DEF Init, TaskIds
<1>1. TypeOK
  <2>1. /\ pc \in [Callers -> {"idle", "admit"} \union Held]
        /\ ctx \in [Callers -> {"live", "canceled", "expired"}]
        /\ task \in [Callers -> 0..MaxTasks]
    OBVIOUS
  <2>2. /\ failed \in [Callers -> BOOLEAN]
        /\ completed \in [Callers -> BOOLEAN]
        /\ usageSaved \in [Callers -> BOOLEAN]
    OBVIOUS
  <2>3. /\ tasks \in [TaskIds -> Ended \union {"absent", "running"}]
        /\ usage \in [TaskIds -> Nat]
    OBVIOUS
  <2>4. lastTask \in 0..MaxTasks /\ boots \in Nat
    OBVIOUS
  <2>5. reported \in SUBSET TaskIds /\ lost \in SUBSET TaskIds
    OBVIOUS
  <2>6. QED
    BY <2>1, <2>2, <2>3, <2>4, <2>5 DEF TypeOK
<1>2. OwnerInv /\ GateInv /\ ShutdownInv
  BY DEF OwnerInv, GateInv, ShutdownInv, Held
<1>3. RowInv
  BY DEF RowInv, Reporting
<1>4. ProgressInv /\ OpenTasksAccounted /\ UsageBookedOnce
  BY DEF ProgressInv, OpenTasksAccounted, UsageBookedOnce
<1>5. QED
  BY <1>1, <1>2, <1>3, <1>4 DEF IInv

\* IInv holds in every state of every behaviour: the flag, the owner and the
\* control points of the callers agree, rows are given out in order, and a run
\* has booked and committed exactly what its control point says.
THEOREM Invariance == Spec => []IInv
<1>1. IInv /\ [Next]_vars => IInv'
  BY TypeStep, OwnerStep, GateStep, ShutdownStep, RowStep, ProgressStep,
     OpenStep, UsageStep DEF IInv
<1>2. QED
  BY InitIInv, <1>1, PTL DEF Spec

\* Type correctness, for every set of callers and every bound.
THEOREM TypeCorrect == Spec => []TypeOK
<1>1. IInv => TypeOK
  BY DEF IInv
<1>2. QED
  BY Invariance, <1>1, PTL

\* However many goroutines ask, whatever way runs end, one runs at a time.
THEOREM MutualExclusion == Spec => []OneRunAtATime
<1>1. IInv => OneRunAtATime
  BY DEF IInv, OwnerInv, OneRunAtATime
<1>2. QED
  BY Invariance, <1>1, PTL

\* No interleaving of beginCheck and application.Start lets a check and a
\* system update overlap, across crashes and restarts of the process.
THEOREM UpdateExclusion == Spec => []NoCheckDuringUpdate
<1>1. IInv => NoCheckDuringUpdate
  BY CallersAssumption DEF IInv, OwnerInv, GateInv, NoCheckDuringUpdate
<1>2. QED
  BY Invariance, <1>1, PTL

\* A shutdown that reports success left no check running and no row open that
\* the database had taken.
THEOREM ShutdownIsClean == Spec => []CleanShutdown
<1>1. IInv => CleanShutdown
  <2> SUFFICES ASSUME IInv, mainPc = "drained"
               PROVE  /\ \A c \in Callers : pc[c] \notin Held
                      /\ \A i \in TaskIds : tasks[i] = "running" => i \in lost
    BY DEF CleanShutdown
  <2>1. \A c \in Callers : pc[c] \notin Held
    BY CallersAssumption DEF IInv, OwnerInv, ShutdownInv
  <2>2. Reporting \subseteq Held
    BY DEF Reporting, Held
  <2>3. \A i \in TaskIds : tasks[i] = "running" => i \in lost
    BY <2>1, <2>2 DEF IInv, OpenTasksAccounted, Up
  <2>4. QED
    BY <2>1, <2>3
<1>2. QED
  BY Invariance, <1>1, PTL

\* An open task belongs to the run in progress or is one the database failed to
\* take, after any sequence of failures, crashes and restarts.
THEOREM OpenTasksAreAccounted == Spec => []OpenTasksAccounted
<1>1. IInv => OpenTasksAccounted
  BY DEF IInv
<1>2. QED
  BY Invariance, <1>1, PTL

\* The usage of a run is never booked twice.
THEOREM UsageIsBookedOnce == Spec => []UsageBookedOnce
<1>1. IInv => UsageBookedOnce
  BY DEF IInv
<1>2. QED
  BY Invariance, <1>1, PTL

\* A running process settles a task as a success exactly when its report was
\* committed.
THEOREM SettlesTruthfully == Spec => SettledTruthfully
<1> DEFINE A == \A i \in TaskIds :
                  tasks[i] = "running" /\ tasks'[i] \in Ended /\ Up =>
                    (tasks'[i] = "success" <=> i \in reported)
<1>1. IInv /\ [Next]_vars => [A]_vars
  <2> SUFFICES ASSUME IInv, Next, Up, NEW i \in TaskIds,
                      tasks[i] = "running", tasks'[i] \in Ended
               PROVE  tasks'[i] = "success" <=> i \in reported
    OBVIOUS
  <2>1. ASSUME NEW c \in Callers, FinishTask(c)
        PROVE  tasks'[i] = "success" <=> i \in reported
    <3>1. i = task[c] /\ tasks'[i] = Outcome(c)
      BY <2>1 DEF FinishTask, IInv, TypeOK, Ended
    <3>2. failed[c] <=> i \notin reported
      BY <2>1, <3>1 DEF FinishTask, IInv, ProgressInv
    <3>3. Outcome(c) = "success" <=> ~failed[c]
      BY DEF Outcome
    <3>4. QED
      BY <3>1, <3>2, <3>3
  <2>2. ASSUME NEW c \in Callers, CreateTask(c) \/ CreateTaskFails(c)
        PROVE  FALSE
    BY <2>2 DEF CreateTask, CreateTaskFails, IInv, TypeOK, Ended
  <2>3. CASE UNCHANGED tasks
    BY <2>3 DEF Ended
  <2>4. QED
    BY <2>1, <2>2, <2>3
    DEF Next, Step, Call, Refuse, Admit, PublishTask, Probe, Record,
        RecordFails, Notify, SettleUsage, FinishRunState, Expire, StopCheck,
        StartUpdate, EndUpdate, Terminate, Shutdown, ShutdownDone,
        ShutdownTimesOut, Exit, Crash, LoseMemory, Boot, Up, disk
<1>2. QED
  BY Invariance, <1>1, PTL DEF Spec, SettledTruthfully

\* The steps of a run that the abstract service does not see.
LEMMA HiddenStep ==
  ASSUME IInv,
         NEW c \in Callers,
         \/ Call(c) \/ Refuse(c) \/ PublishTask(c) \/ Probe(c) \/ Record(c)
         \/ RecordFails(c) \/ Notify(c) \/ SettleUsage(c)
  PROVE  UNCHANGED <<Holder, shuttingDown \/ ~Up, Current, tasks>>
<1>1. UNCHANGED <<job, owner, shuttingDown, mainPc, tasks>>
  BY DEF Call, Refuse, PublishTask, Probe, Record, RecordFails, Notify,
         SettleUsage, disk
<1>2. ASSUME owner # "nobody"
      PROVE  /\ pc'[owner] \in Reporting <=> pc[owner] \in Reporting
             /\ task'[owner] = task[owner]
  <2>1. owner \in Callers /\ pc[owner] \in Held
    BY <1>2 DEF IInv, TypeOK, OwnerInv
  <2>2. CASE Call(c) \/ Refuse(c)
    <3>1. owner # c
      BY <2>1, <2>2 DEF Call, Refuse, Held
    <3>2. pc'[owner] = pc[owner] /\ task'[owner] = task[owner]
      BY <2>1, <2>2, <3>1 DEF IInv, TypeOK, Call, Refuse, Return
    <3>3. QED
      BY <3>2
  <2>3. CASE \/ PublishTask(c) \/ Probe(c) \/ Record(c) \/ RecordFails(c)
             \/ Notify(c) \/ SettleUsage(c)
    <3>1. task' = task
      BY <2>3 DEF PublishTask, Probe, Record, RecordFails, Notify, SettleUsage
    <3>2. pc[c] \in Reporting /\ pc'[c] \in Reporting
      BY <2>3 DEF IInv, TypeOK, PublishTask, Probe, Record, RecordFails, Notify,
                  SettleUsage, Reporting
    <3>3. \A d \in Callers : d # c => pc'[d] = pc[d]
      BY <2>3 DEF IInv, TypeOK, PublishTask, Probe, Record, RecordFails, Notify,
                  SettleUsage
    <3>4. QED
      BY <2>1, <3>1, <3>2, <3>3
  <2>4. QED
    BY <2>2, <2>3
<1>3. QED
  BY <1>1, <1>2 DEF Holder, Current, Up

\* CheckRun implements CheckService: what the threads, the crashes and the
\* restarts do is what the one gate and the ledger allow.
THEOREM Implementation == Spec => ImplementsService
<1> USE CallersAssumption, BoundsAssumption
<1>1. Init => Service!Init
  BY DEF Init, Service!Init, Holder, Current, Up, TaskIds
<1>2. IInv /\ [Next]_vars => [Service!Next]_(Service!vars)
  <2> SUFFICES ASSUME IInv, [Next]_vars
               PROVE  [Service!Next]_(Service!vars)
    OBVIOUS
  <2> USE DEF Service!vars, TaskIds
  <2>1. ASSUME NEW c \in Callers,
               \/ Call(c) \/ Refuse(c) \/ PublishTask(c) \/ Probe(c)
               \/ Record(c) \/ RecordFails(c) \/ Notify(c) \/ SettleUsage(c)
        PROVE  UNCHANGED Service!vars
    BY <2>1, HiddenStep
  <2>2. ASSUME NEW c \in Callers, Admit(c) PROVE Service!Enter(c)
    BY <2>2 DEF Service!Enter, Admit, AdmissionOpen, UpdaterBusy, Vacant,
                IInv, TypeOK, OwnerInv, ShutdownInv, Holder, Current, Up,
                Reporting, disk
  <2>3. ASSUME NEW c \in Callers, CreateTask(c)
        PROVE  Service!Open(c, lastTask + 1) /\ lastTask + 1 \in TaskIds
    <3>1. owner = c /\ job # "active" /\ lastTask + 1 \in TaskIds
      BY <2>3 DEF CreateTask, IInv, TypeOK, OwnerInv, GateInv, RowInv, Held
    <3>2. tasks[lastTask + 1] = "absent"
      BY <3>1 DEF IInv, TypeOK, RowInv
    <3>3. Current = 0 /\ Current' = lastTask + 1
      BY <2>3, <3>1 DEF Current, CreateTask, IInv, TypeOK, Reporting
    <3>4. QED
      BY <2>3, <3>1, <3>2, <3>3 DEF Service!Open, CreateTask, Holder, Up
  <2>4. ASSUME NEW c \in Callers, CreateTaskFails(c)
        PROVE  \/ UNCHANGED Service!vars
               \/ Service!Open(c, lastTask + 1) /\ lastTask + 1 \in TaskIds
    <3>1. owner = c /\ job # "active" /\ lastTask + 1 \in TaskIds
      BY <2>4 DEF CreateTaskFails, IInv, TypeOK, OwnerInv, GateInv, RowInv, Held
    <3>2. tasks[lastTask + 1] = "absent"
      BY <3>1 DEF IInv, TypeOK, RowInv
    <3>3. Current = 0 /\ Current' = 0
      BY <2>4, <3>1 DEF Current, CreateTaskFails, IInv, TypeOK, Reporting
    <3>4. UNCHANGED <<Holder, shuttingDown \/ ~Up>>
      BY <2>4 DEF CreateTaskFails, Holder, Up
    <3>5. tasks' = tasks \/ tasks' = [tasks EXCEPT ![lastTask + 1] = "running"]
      BY <2>4 DEF CreateTaskFails
    <3>6. Holder = c
      BY <3>1 DEF Holder
    <3>7. QED
      BY <3>1, <3>2, <3>3, <3>4, <3>5, <3>6 DEF Service!Open
  <2>5. ASSUME NEW c \in Callers, FinishTask(c)
        PROVE  Service!Settle(c, Outcome(c)) \/ Service!GiveUp(c)
    <3>1. owner = c /\ job # "active"
      BY <2>5 DEF FinishTask, IInv, TypeOK, OwnerInv, GateInv, Held
    <3>2. Current = task[c] /\ task[c] \in 1..lastTask
          /\ tasks[task[c]] = "running"
      BY <2>5, <3>1 DEF Current, FinishTask, IInv, RowInv, Reporting
    <3>3. Current' = 0
      BY <2>5, <3>1 DEF Current, FinishTask, IInv, TypeOK, Reporting
    <3>4. UNCHANGED <<Holder, shuttingDown \/ ~Up>> /\ Holder = c
      BY <2>5, <3>1 DEF FinishTask, Holder, Up
    <3>5. tasks' = tasks \/ tasks' = [tasks EXCEPT ![task[c]] = Outcome(c)]
      BY <2>5 DEF FinishTask
    <3>6. task[c] # 0
      BY <3>2 DEF IInv, TypeOK
    <3>7. QED
      BY <3>2, <3>3, <3>4, <3>5, <3>6 DEF Service!Settle, Service!GiveUp
  <2>6. ASSUME NEW c \in Callers, FinishRunState(c) PROVE Service!Leave(c)
    BY <2>6 DEF Service!Leave, FinishRunState, IInv, TypeOK, OwnerInv, GateInv,
                Holder, Current, Up, Held, Reporting, disk
  <2>7. CASE StartUpdate
    <3>1. owner = "nobody" /\ job # "active" /\ ~shuttingDown /\ Up
      BY <2>7 DEF StartUpdate, IInv, OwnerInv, UpdaterBusy
    <3>2. job' = "active" /\ UNCHANGED <<pc, task, owner, shuttingDown, mainPc, tasks>>
      BY <2>7 DEF StartUpdate, memory
    <3>3. Holder = "nobody" /\ Holder' = "update" /\ UNCHANGED Current
      BY <3>1, <3>2 DEF Holder, Current
    <3>4. QED
      BY <3>1, <3>2, <3>3 DEF Service!Next, Service!BeginUpdate, Up
  <2>8. CASE EndUpdate
    <3>1. owner = "nobody" /\ job = "active"
      BY <2>8 DEF EndUpdate, IInv, OwnerInv, GateInv
    <3>2. job' = "idle" /\ UNCHANGED <<pc, task, owner, shuttingDown, mainPc, tasks>>
      BY <2>8 DEF EndUpdate, memory
    <3>3. Holder = "update" /\ Holder' = "nobody" /\ UNCHANGED Current
      BY <3>1, <3>2 DEF Holder, Current
    <3>4. QED
      BY <3>2, <3>3 DEF Service!Next, Service!EndUpdate, Up
  <2>9. CASE Terminate
    BY <2>9 DEF Terminate, Holder, Current, Up, disk
  <2>10. CASE Shutdown
    <3>1. shuttingDown' = TRUE /\ UNCHANGED <<pc, task, owner, job, tasks>>
      BY <2>10 DEF Shutdown, disk
    <3>2. UNCHANGED <<Holder, Current>>
      BY <3>1 DEF Holder, Current
    <3>3. QED
      BY <3>1, <3>2 DEF Service!Next, Service!Close
  <2>11. CASE ShutdownDone \/ ShutdownTimesOut
    BY <2>11 DEF ShutdownDone, ShutdownTimesOut, Holder, Current, Up, disk
  <2>12. CASE LoseMemory
    <3>1. owner' = "nobody" /\ mainPc' = "down" /\ UNCHANGED <<job, tasks>>
      BY <2>12 DEF LoseMemory, disk
    <3>2. Current' = 0
      BY <3>1 DEF Current
    <3>3. Holder' = IF Holder \in Callers THEN "nobody" ELSE Holder
      BY <3>1 DEF IInv, TypeOK, Holder
    <3>4. QED
      BY <3>1, <3>2, <3>3 DEF Service!Next, Service!Die, Up
  <2>13. CASE Boot
    <3>1. owner = "nobody" /\ ~shuttingDown /\ ~Up
      BY <2>13 DEF Boot, IInv, TypeOK, OwnerInv, ShutdownInv, Held, Up
    <3>2. mainPc' = "serving" /\ UNCHANGED <<pc, task, owner, shuttingDown, job>>
      BY <2>13 DEF Boot
    <3>3. Holder \notin Callers /\ UNCHANGED <<Holder, Current>>
      BY <3>1, <3>2 DEF Holder, Current
    <3>4. QED
      BY <2>13, <3>1, <3>2, <3>3
      DEF Service!Next, Service!Restart, Boot, RecoverInterruptedTasks, Up
  <2>14. CASE UNCHANGED <<pc, task, owner, shuttingDown, mainPc, job, tasks>>
    BY <2>14 DEF Holder, Current, Up
  <2>15. ASSUME NEW c \in Callers PROVE Outcome(c) \in Service!Ended
    BY DEF Outcome, Service!Ended
  <2>16. QED
    BY <2>1, <2>2, <2>3, <2>4, <2>5, <2>6, <2>7, <2>8, <2>9, <2>10, <2>11,
       <2>12, <2>13, <2>14, <2>15
    DEF Service!Next, Next, Step, Expire, StopCheck, Exit, Crash, vars,
        memory, disk
<1>3. QED
  BY Invariance, <1>1, <1>2, PTL DEF Spec, ImplementsService, Service!Spec
=============================================================================
