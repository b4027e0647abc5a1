---------------------------- MODULE CheckService ----------------------------
(***************************************************************************)
(* What the service promises to whoever asks it for a connectivity check,  *)
(* said without locks, contexts or goroutines.  There is one gate.  A      *)
(* check or a system update holds it, never both and never two checks.     *)
(* The gate is closed while the process shuts down or is not running.  The *)
(* ledger is the table of check tasks that the API shows: a task is opened *)
(* by the holder of the gate and settled at most once, by the holder that  *)
(* opened it and before it leaves; a task that is still open then (its     *)
(* insert or its update failed, or the process died) is canceled by the    *)
(* next process.                                                           *)
(*                                                                         *)
(* CheckRun is shown to implement this module.                             *)
(***************************************************************************)
EXTENDS Integers

CONSTANTS
  Callers,    \* whoever may ask for a check
  MaxTasks    \* bound on the tasks of a behaviour

VARIABLES
  holder,     \* who holds the gate: a caller, "update" or "nobody"
  closed,     \* no new holder is let in
  current,    \* the task the holder can settle, 0 for none
  ledger      \* task -> "absent", "running" or how it ended

vars == <<holder, closed, current, ledger>>

Ended == {"success", "canceled", "error"}

Init ==
  /\ holder = "nobody"
  /\ closed = FALSE
  /\ current = 0
  /\ ledger = [i \in 1..MaxTasks |-> "absent"]

Enter(c) ==
  /\ ~closed
  /\ holder = "nobody"
  /\ holder' = c
  /\ UNCHANGED <<closed, current, ledger>>

\* A task may be opened without the holder learning of it: the insert
\* reached the table and its answer was lost.
Open(c, i) ==
  /\ holder = c
  /\ current = 0
  /\ ledger[i] = "absent"
  /\ ledger' = [ledger EXCEPT ![i] = "running"]
  /\ current' \in {0, i}
  /\ UNCHANGED <<holder, closed>>

Settle(c, s) ==
  /\ holder = c
  /\ current # 0
  /\ ledger[current] = "running"
  /\ ledger' = [ledger EXCEPT ![current] = s]
  /\ current' = 0
  /\ UNCHANGED <<holder, closed>>

\* The update of the task failed: it stays open.
GiveUp(c) ==
  /\ holder = c
  /\ current' = 0
  /\ UNCHANGED <<holder, closed, ledger>>

Leave(c) ==
  /\ holder = c
  /\ current = 0
  /\ holder' = "nobody"
  /\ UNCHANGED <<closed, current, ledger>>

BeginUpdate ==
  /\ ~closed
  /\ holder = "nobody"
  /\ holder' = "update"
  /\ UNCHANGED <<closed, current, ledger>>

EndUpdate ==
  /\ holder = "update"
  /\ holder' = "nobody"
  /\ UNCHANGED <<closed, current, ledger>>

Close ==
  /\ closed' = TRUE
  /\ UNCHANGED <<holder, current, ledger>>

\* The process ends: a check in progress is gone, an update is not.
Die ==
  /\ closed' = TRUE
  /\ holder' = IF holder \in Callers THEN "nobody" ELSE holder
  /\ current' = 0
  /\ UNCHANGED ledger

\* A new process cancels what the old one left open, then opens the gate.
Restart ==
  /\ closed
  /\ holder \notin Callers
  /\ closed' = FALSE
  /\ ledger' = [i \in 1..MaxTasks |->
                  IF ledger[i] = "running" THEN "canceled" ELSE ledger[i]]
  /\ UNCHANGED <<holder, current>>

Next ==
  \/ \E c \in Callers :
       \/ Enter(c)
       \/ Leave(c)
       \/ GiveUp(c)
       \/ \E i \in 1..MaxTasks : Open(c, i)
       \/ \E s \in Ended : Settle(c, s)
  \/ BeginUpdate
  \/ EndUpdate
  \/ Close
  \/ Die
  \/ Restart

Spec == Init /\ [][Next]_vars
=============================================================================
