------------------------------ MODULE ProbePool ------------------------------
(***************************************************************************)
(* probe.Runner: one run discovers the models of each provider in turn,    *)
(* then starts a goroutine for every model.  A goroutine takes a slot of   *)
(* its provider, then one of the run, asks beforeRequest and sends its     *)
(* request.  The first refusal (the daily request budget, the database, a  *)
(* canceled context, a provider that changed) is kept in runErr and stops  *)
(* the rest of the run.                                                    *)
(*                                                                         *)
(* The budget is a row of SQLite that other requests of administrators     *)
(* draw on too; it is a new one every day.                                 *)
(***************************************************************************)
EXTENDS Integers, FiniteSets, Sequences

CONSTANTS
  Order,          \* the providers a run asks, as a sequence of their names
  Automatic,      \* those whose models are discovered
  Models,         \* the models a provider may list
  Concurrency,    \* slots of a run
  ProviderConcurrency, \* slots of each provider in a run
  DailyLimit      \* requests a day, 0 for no limit

Providers == {Order[i] : i \in 1..Len(Order)}
Targets == Providers \X Models

ASSUME PoolAssumption ==
  /\ Order \in Seq(Providers)
  /\ IsFiniteSet(Models)
  /\ Concurrency \in Nat \ {0}
  /\ ProviderConcurrency \in Nat \ {0}
  /\ DailyLimit \in Nat

VARIABLES
  phase,      \* the run: "discovering", "listing", "probing" or "ended"
  at,         \* the provider being asked, an index of Order
  ctx,        \* the context of the run: "live" or "canceled"
  runErr,     \* Runner.runErr is not nil
  outcome,    \* what Run returned: "none", "ok" or "error"
  pc,         \* the goroutine of each target, "absent" without one
  completed,  \* the results marked Completed
  confirmed,  \* history: targets whose answer is a success or reports usage
  late,       \* history: requests sent although runErr was set
  used        \* request_budget.used of the day

vars == <<phase, at, ctx, runErr, outcome, pc, completed, confirmed, late, used>>

\* Fault: a goroutine that returns does not give the run's slot back.
InSlotForGood == {"slot", "checked", "chat", "failing", "done"}

\* Holding a slot of the provider, and of the run.
InSlot == {"slot", "checked", "chat", "failing"}
InProvider == InSlot \union {"waiting"}

Holders(S) == {t \in Targets : pc[t] \in S}

Init ==
  /\ phase = "discovering"
  /\ at = 1
  /\ ctx = "live"
  /\ runErr = FALSE
  /\ outcome = "none"
  /\ pc = [t \in Targets |-> "absent"]
  /\ completed = {}
  /\ confirmed = {}
  /\ late = 0
  /\ used = 0

-----------------------------------------------------------------------------
(***************************************************************************)
(* The budget                                                              *)
(***************************************************************************)
\* Fault: one request more than the limit.
WithinBudgetOrEqual == DailyLimit = 0 \/ used <= DailyLimit
WithinBudget == DailyLimit = 0 \/ used < DailyLimit

\* storage.ReserveRequest: one conditional UPDATE in a transaction of ctx.
Reserve == WithinBudget /\ used' = used + 1

\* An administrator lists the models of a provider.
OtherRequest ==
  /\ Reserve
  /\ UNCHANGED <<phase, at, ctx, runErr, outcome, pc, completed, confirmed,
                 late>>

NewDay ==
  /\ used > 0
  /\ used' = 0
  /\ UNCHANGED <<phase, at, ctx, runErr, outcome, pc, completed, confirmed,
                 late>>

-----------------------------------------------------------------------------
(***************************************************************************)
(* collectTargets: one goroutine, one provider after the other.            *)
(***************************************************************************)
Stopped == runErr \/ ctx = "canceled"

\* The request for a model list is let through; a configured list needs none.
BeginListing ==
  /\ phase = "discovering"
  /\ at <= Len(Order)
  /\ ctx = "live"
  /\ IF Order[at] \in Automatic THEN ~runErr /\ Reserve ELSE UNCHANGED used
  /\ phase' = "listing"
  /\ UNCHANGED <<at, ctx, runErr, outcome, pc, completed, confirmed, late>>

\* The request is refused: discovery ends here.
RefuseListing ==
  /\ phase = "discovering"
  /\ at <= Len(Order)
  /\ ctx = "live"
  /\ Order[at] \in Automatic
  /\ runErr' = TRUE
  /\ at' = Len(Order) + 1
  /\ UNCHANGED <<phase, ctx, outcome, pc, completed, confirmed, late, used>>

\* A further page of an automatic list, with a reservation of its own.
NextPage ==
  /\ phase = "listing"
  /\ Order[at] \in Automatic
  /\ ~Stopped
  /\ Reserve
  /\ UNCHANGED <<phase, at, ctx, runErr, outcome, pc, completed, confirmed,
                 late>>

\* The list is read; SelectModels leaves some of it, perhaps nothing.
Listed(selected) ==
  /\ phase = "listing"
  /\ pc' = [t \in Targets |->
              IF t[1] = Order[at] /\ t[2] \in selected THEN "new" ELSE pc[t]]
  /\ at' = at + 1
  /\ phase' = "discovering"
  /\ UNCHANGED <<ctx, runErr, outcome, completed, confirmed, late, used>>

\* The list cannot be read, is empty or too long (a provider error); a page
\* that is refused also sets runErr.
ListingFails ==
  /\ phase = "listing"
  /\ Order[at] \in Automatic
  /\ at' = at + 1
  /\ phase' = "discovering"
  /\ runErr' \in {runErr, TRUE}
  /\ UNCHANGED <<ctx, outcome, pc, completed, confirmed, late, used>>

\* The catalog observer reports an error, the provider having changed.
CatalogFails ==
  /\ phase = "listing"
  /\ Order[at] \in Automatic
  /\ runErr' = TRUE
  /\ at' = Len(Order) + 1
  /\ phase' = "discovering"
  /\ UNCHANGED <<ctx, outcome, pc, completed, confirmed, late, used>>

\* Run between discovery and probing.
Collected ==
  /\ phase = "discovering"
  /\ at > Len(Order) \/ ctx = "canceled"
  /\ IF ctx = "canceled" \/ Holders({"new"}) = {}
       THEN /\ phase' = "ended"
            /\ outcome' = IF Stopped THEN "error" ELSE "ok"
       ELSE /\ phase' = "probing"
            /\ UNCHANGED outcome
  /\ UNCHANGED <<at, ctx, runErr, pc, completed, confirmed, late, used>>

-----------------------------------------------------------------------------
(***************************************************************************)
(* probeTargets and probeOne                                               *)
(***************************************************************************)
\* The channels, with one buffered entry for every slot.
TakeProviderSlot(t) ==
  /\ phase = "probing"
  /\ pc[t] = "new"
  /\ Cardinality({u \in Holders(InProvider) : u[1] = t[1]}) < ProviderConcurrency
  /\ pc' = [pc EXCEPT ![t] = "waiting"]
  /\ UNCHANGED <<phase, at, ctx, runErr, outcome, completed, confirmed, late,
                 used>>

\* Fault: the run's slots are counted per provider.
SlotFreeOfProvider(t) ==
  Cardinality({u \in Holders(InSlot) : u[1] = t[1]}) < Concurrency
SlotFree(t) == Cardinality(Holders(InSlot)) < Concurrency

TakeSlot(t) ==
  /\ pc[t] = "waiting"
  /\ SlotFree(t)
  /\ pc' = [pc EXCEPT ![t] = "slot"]
  /\ UNCHANGED <<phase, at, ctx, runErr, outcome, completed, confirmed, late,
                 used>>

\* The select takes ctx.Done instead: the result is an error, not Completed.
GiveUp(t) ==
  /\ phase = "probing"
  /\ pc[t] \in {"new", "waiting"}
  /\ ctx = "canceled"
  /\ pc' = [pc EXCEPT ![t] = "done"]
  /\ UNCHANGED <<phase, at, ctx, runErr, outcome, completed, confirmed, late,
                 used>>

\* Fault: beforeRequest does not look at runErr.
CheckedContextOnly == ctx = "canceled"
Refused == Stopped

\* beforeRequest up to the guard, with Runner.mu for the first half of it.
BeforeRequest(t) ==
  /\ pc[t] = "slot"
  /\ pc' = [pc EXCEPT ![t] = IF Refused THEN "failing" ELSE "checked"]
  /\ UNCHANGED <<phase, at, ctx, runErr, outcome, completed, confirmed, late,
                 used>>

\* The guard lets the request through, whatever has become of runErr.
Guard(t) ==
  /\ pc[t] = "checked"
  /\ ctx = "live"
  /\ Reserve
  /\ late' = late + (IF runErr THEN 1 ELSE 0)
  /\ pc' = [pc EXCEPT ![t] = "chat"]
  /\ UNCHANGED <<phase, at, ctx, runErr, outcome, completed, confirmed>>

\* The budget is used up, or the database cannot be written.
GuardFails(t) ==
  /\ pc[t] = "checked"
  /\ pc' = [pc EXCEPT ![t] = "failing"]
  /\ UNCHANGED <<phase, at, ctx, runErr, outcome, completed, confirmed, late,
                 used>>

\* The second half of beforeRequest under Runner.mu: the first error is kept
\* and the goroutine returns an empty result.
Fail(t) ==
  /\ pc[t] = "failing"
  /\ runErr' = TRUE
  /\ pc' = [pc EXCEPT ![t] = "done"]
  /\ UNCHANGED <<phase, at, ctx, outcome, completed, confirmed, late, used>>

\* Fault: a result counts only while the context is live.
CountsWhileLive(ok) == ctx = "live"
Counts(ok) == ctx = "live" \/ ok

\* Chat has returned, with a success or reported usage when ok, and the slots
\* are given back.
Answer(t) ==
  /\ pc[t] = "chat"
  /\ \E ok \in BOOLEAN :
       /\ completed' = IF Counts(ok) THEN completed \union {t} ELSE completed
       /\ confirmed' = IF ok THEN confirmed \union {t} ELSE confirmed
  /\ pc' = [pc EXCEPT ![t] = "done"]
  /\ UNCHANGED <<phase, at, ctx, runErr, outcome, late, used>>

\* A stop, the deadline or the end of the process cancels the context.
Cancel ==
  /\ phase # "ended"
  /\ ctx = "live"
  /\ ctx' = "canceled"
  /\ UNCHANGED <<phase, at, runErr, outcome, pc, completed, confirmed, late,
                 used>>

\* Fault: the context is not looked at again after the probes.
OutcomeOfRunErr == IF runErr THEN "error" ELSE "ok"
Outcome == IF Stopped THEN "error" ELSE "ok"

\* wg.Wait is over.
EndRun ==
  /\ phase = "probing"
  /\ \A t \in Targets : pc[t] \in {"absent", "done"}
  /\ phase' = "ended"
  /\ outcome' = Outcome
  /\ UNCHANGED <<at, ctx, runErr, pc, completed, confirmed, late, used>>

\* The next check makes a new Runner.
NextRun ==
  /\ phase = "ended"
  /\ phase' = "discovering"
  /\ at' = 1
  /\ ctx' = "live"
  /\ runErr' = FALSE
  /\ outcome' = "none"
  /\ pc' = [t \in Targets |-> "absent"]
  /\ completed' = {}
  /\ confirmed' = {}
  /\ late' = 0
  /\ UNCHANGED used

-----------------------------------------------------------------------------
Goroutine(t) ==
  \/ TakeProviderSlot(t)
  \/ TakeSlot(t)
  \/ GiveUp(t)
  \/ BeforeRequest(t)
  \/ Guard(t)
  \/ GuardFails(t)
  \/ Fail(t)
  \/ Answer(t)

Discover ==
  \/ BeginListing
  \/ RefuseListing
  \/ \E selected \in SUBSET Models : Listed(selected)
  \/ ListingFails
  \/ CatalogFails
  \/ Collected

Next ==
  \/ Discover
  \/ NextPage
  \/ \E t \in Targets : Goroutine(t)
  \/ EndRun
  \/ Cancel
  \/ NextRun
  \/ OtherRequest
  \/ NewDay

Spec == Init /\ [][Next]_vars

(***************************************************************************)
(* Every goroutine that can run runs: a model list, a reservation and a    *)
(* request have timeouts, and a free slot is given to a goroutine that     *)
(* waits for it (the channels are first come, first served).  A list has   *)
(* at most 100 pages and one timeout for all of them, so the discoverer is *)
(* fair without NextPage.                                                  *)
(***************************************************************************)
Fairness ==
  /\ WF_vars(Discover)
  /\ WF_vars(EndRun)
  /\ \A t \in Targets : WF_vars(Goroutine(t))

FairSpec == Spec /\ Fairness

-----------------------------------------------------------------------------
(***************************************************************************)
(* Properties                                                              *)
(***************************************************************************)

\* The variables keep their types, and the day's count stays in its limit.
TypeOK ==
  /\ phase \in {"discovering", "listing", "probing", "ended"}
  /\ at \in 1..Len(Order) + 1
  /\ ctx \in {"live", "canceled"}
  /\ runErr \in BOOLEAN
  /\ outcome \in {"none", "ok", "error"}
  /\ pc \in [Targets -> {"absent", "new", "done"} \union InProvider]
  /\ completed \in SUBSET Targets
  /\ confirmed \in SUBSET Targets
  /\ late \in Nat
  /\ used \in Nat

\* Requests in flight keep both limits, whichever goroutines win the slots, and those
\* of the day keep the budget.
LimitsKept ==
  /\ DailyLimit > 0 => used <= DailyLimit
  /\ Cardinality(Holders({"chat"})) <= Concurrency
  /\ \A p \in Providers :
       Cardinality({t \in Holders({"chat"}) : t[1] = p}) <= ProviderConcurrency

\* A run that returns no error has a completed result for every model it has
\* selected: neither a refusal nor a cancellation is taken for a finished run,
\* so no partial run replaces the report.
SuccessIsComplete ==
  outcome = "ok" => \A t \in Targets : pc[t] # "absent" => t \in completed

\* Every answer that is a success or reports usage is a completed result, also
\* in a run that is refused or canceled half-way: its usage is booked.
ConfirmedAreKept == phase = "ended" => confirmed \subseteq completed

\* Once a refusal is kept, at most the goroutines that had passed the test
\* before it, fewer than there are slots, still send their requests.
LateRequestsBounded == late < Concurrency

\* A run ends, refused, canceled or neither: the two kinds of slots never leave
\* everyone waiting.
RunEnds == phase # "ended" ~> phase = "ended"
=============================================================================
