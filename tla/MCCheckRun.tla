----------------------------- MODULE MCCheckRun -----------------------------
(***************************************************************************)
(* CheckRun with a scheduler (Scoped, Timed), a start-up check (Scoped)    *)
(* and an HTTP handler (Timed).                                            *)
(***************************************************************************)
EXTENDS CheckRun, TLC

CONSTANTS scheduler, startup, handler

MCCallers == {scheduler, startup, handler}
MCScoped == {scheduler, startup}
MCTimed == {scheduler, handler}
=============================================================================
