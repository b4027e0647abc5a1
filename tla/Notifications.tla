--------------------------- MODULE Notifications ---------------------------
(***************************************************************************)
(* What the program tells a chat platform: the alert of the whole report,  *)
(* the alert of a rule, and operational notices.  An alert debounces what  *)
(* the checks see: a row of the database counts consecutive observations   *)
(* of one scope, and survives the process.  A notice is reserved before it *)
(* is sent.                                                                *)
(*                                                                         *)
(* These share only notificationMu (which the alert of the whole report    *)
(* does not take) and what an administrator sends by hand takes it too, so *)
(* a behaviour is about one of them: see `about'.  One rule and one notice *)
(* stand for all.  Checks come one after the other: CheckRun.              *)
(*                                                                         *)
(* A scope is what evidenceScope covers: the connections of the providers, *)
(* and the rest.  The rule covers all providers; to a rule for one of them *)
(* the others belong to the rest.  A rule has a row for each of its        *)
(* generations and lists of connections.  A list comes back when a         *)
(* provider that was added is deleted, and its row with it; so what the    *)
(* properties remember is kept for each row.                               *)
(*                                                                         *)
(* Rows of notices and rules are not dropped here: after 90 days the event *)
(* of a notice is long not pending any more.  The list of deliveries an    *)
(* administrator can look at is left out, too: only whether the result of  *)
(* one was saved matters.                                                  *)
(***************************************************************************)
EXTENDS Integers

CONSTANTS
  FailureThreshold,   \* cfg.NotifyFailureThreshold
  RecoveryThreshold,  \* cfg.NotifyRecoveryThreshold
  NotifyOnRecovery,   \* cfg.NotifyOnRecovery
  Cooldown,           \* cfg.NotifyCooldownMinutes > 0
  Seen,               \* what a check can find
  MaxEdits,           \* bound on edits, but for those that follow
  MaxConnections,     \* bound on edits that make a new connection
  Allowances          \* what may happen in a behaviour, and how often: edits, new
                      \* connections, deletions of a provider, and troubles: checks
                      \* that fail, sendings that are refused or not answered,
                      \* statements that fail and crashes

ASSUME NotificationsAssumption ==
  /\ {FailureThreshold, RecoveryThreshold} \subseteq Nat \ {0}
  /\ {NotifyOnRecovery, Cooldown} \subseteq BOOLEAN
  /\ Seen \subseteq {"ok", "slow", "error", "unknown"}
  /\ {MaxEdits, MaxConnections} \subseteq Nat
  /\ Allowances \subseteq
       [about : {"global", "rule", "notice"}, edits : 0..MaxEdits,
        connections : 0..MaxConnections, deletions : Nat, troubles : Nat]

VARIABLES
  about,        \* "global", "rule" or "notice"
  world,        \* what a check finds now
  scope,        \* evidenceScope of the current configuration
  settings,     \* MonitoringSettings: its version, the generation of the rule
  enabled,      \* the channel is configured
  maintenance,  \* InMaintenance(now)
  check,        \* runCheck
  rows,         \* notify_state, or the rule-state rows
  notice,       \* the row of monitoring_notices
  pending,      \* the event of the notice is current
  round,        \* sendOperationalNotices
  job,          \* deliver, called for an alert or a notice
  mu,           \* notificationMu
  left,         \* what is left of the allowance
  streak,       \* history of a row: consecutive observations that agree
  lost,         \* history of a row: its count has missed an observation
  unaware,      \* history of a row: it does not say of an alert that it arrived
  told,         \* history of a row: what the platform was last told about it
  tries         \* history: sendings of the notice, and those recorded as an error

environment == <<world, scope, settings, enabled, maintenance, pending>>
history == <<streak, lost, unaware, told, tries>>
vars == <<about, environment, check, rows, notice, round, job, mu,
          left, history>>

NoScope == [connections |-> {}, rest |-> FALSE]
NoRow == [status |-> "", candidate |-> "", count |-> 0, scope |-> NoScope,
          cooling |-> FALSE]
NoCheck == [pc |-> "idle", checked |-> NoScope, version |-> 0, generation |-> 0,
            cfg |-> NoScope, on |-> FALSE, seen |-> "unknown"]
NoJob == [pc |-> "idle", accepted |-> FALSE, arrived |-> FALSE]
NoRound == [pc |-> "idle", version |-> 0, on |-> FALSE]

\* A connection has a name of its own: NewRevision.
Lists == (SUBSET (0..MaxConnections)) \ {{}}
Scopes == [connections : Lists, rest : BOOLEAN]
Keys == {<<>>} \union (0..MaxEdits) \X Lists

Trouble == left.troubles > 0 /\ left' = [left EXCEPT !.troubles = @ - 1]
Edit == left.edits > 0 /\ left' = [left EXCEPT !.edits = @ - 1]

-----------------------------------------------------------------------------
(***************************************************************************)
(* A check and what it hands to the alert.                                 *)
(***************************************************************************)
BeginCheck ==
  /\ about # "notice" /\ check.pc = "idle"
  /\ check' = [NoCheck EXCEPT !.pc = "probe", !.checked = scope, !.on = enabled,
                 !.version = settings.version, !.generation = settings.generation]
  /\ UNCHANGED <<about, environment, rows, notice, round, job, mu, left,
                 history>>

FinishCheck ==
  /\ check.pc = "probe"
  /\ check' = [check EXCEPT !.pc = IF about = "rule" THEN "lock" ELSE "config",
                            !.seen = world]
  /\ UNCHANGED <<about, environment, rows, notice, round, job, mu, left,
                 history>>

CheckFails ==
  /\ check.pc = "probe" /\ check' = NoCheck
  /\ Trouble
  /\ UNCHANGED <<about, environment, rows, notice, round, job, mu, history>>

\* sendRuleAlerts
LockRules ==
  /\ check.pc = "lock" /\ mu = "free"
  /\ mu' = "auto" /\ check' = [check EXCEPT !.pc = "settings"]
  /\ UNCHANGED <<about, environment, rows, notice, round, job, left, history>>

\* The function that has notificationMu returns.
Release(sender) == mu' = IF mu = sender THEN "free" ELSE mu

\* The rules of a check are those it has begun with, or none.
ReadSettings ==
  /\ check.pc = "settings"
  /\ \/ settings.version = check.version
        /\ check' = [check EXCEPT !.pc = "config"]
        /\ UNCHANGED <<mu, left>>
     \/ settings.version # check.version
        /\ check' = NoCheck /\ Release("auto")
        /\ UNCHANGED left
     \/ Trouble /\ check' = NoCheck /\ Release("auto")
  /\ UNCHANGED <<about, environment, rows, notice, round, job, history>>

\* currentConfig, in which the channel of the whole report is; that of a rule is one of
\* its settings.
ReadConfig ==
  /\ check.pc = "config"
  /\ check' = [check EXCEPT !.pc = "evaluate", !.cfg = scope,
                            !.on = IF about = "global" THEN enabled ELSE @]
  /\ UNCHANGED <<about, environment, rows, notice, round, job, mu, left,
                 history>>

\* The row of a rule belongs to its generation and to the connections it covers; the row
\* of a list that comes back is found as it was left.
Key == IF about = "rule" THEN <<check.generation, check.cfg.connections>> ELSE <<>>
Row == rows[Key]

\* Fault: evidence of any scope counts.
EvidenceOfAnyScope == check.seen

\* SendCheckIfNeeded, alertState: what was seen of another scope says nothing.
Evidence == IF check.checked = check.cfg THEN check.seen ELSE "unknown"

Threshold(status) == IF status = "ok" THEN RecoveryThreshold ELSE FailureThreshold

\* The count with this observation; the first of another status or scope is 1.
Counted ==
  IF Row.candidate = Evidence /\ Row.scope = check.cfg THEN Row.count + 1 ELSE 1

Ignored == ~check.on \/ Evidence \in {"unknown", Row.status} \/ maintenance
RecoveryOnly == Evidence = "ok" /\ ((about = "global" /\ ~NotifyOnRecovery) \/ Row.status = "")
Enough == Threshold(Evidence) = 1 \/ Counted >= Threshold(Evidence)

\* History: so many observations of this status and scope came one after the other.
Continued ==
  IF streak[Key].seen = Evidence /\ streak[Key].scope = check.cfg
    THEN [streak[Key] EXCEPT !.count = IF @ < Threshold(Evidence) THEN @ + 1 ELSE @]
    ELSE [seen |-> Evidence, scope |-> check.cfg, count |-> 1]
Observe == streak' = [streak EXCEPT ![Key] = Continued]

\* The state store writes the row, or fails; what is there already is not written.  A
\* count that begins anew has missed nothing.
Write(row) ==
  \/ /\ rows' = [rows EXCEPT ![Key] = row]
     /\ lost' = [lost EXCEPT ![Key] = @ /\ row.count > 1]
     /\ UNCHANGED left
  \/ row # Row /\ Trouble /\ lost' = [lost EXCEPT ![Key] = TRUE] /\ UNCHANGED rows

\* History: the row is not written, and keeps what it has counted of another status.
MissedByRow == lost' = [lost EXCEPT ![Key] = @ \/ Row.candidate \notin {"", check.seen}]

\* Fault: what is not sent in the cooldown is never sent.
HoldForGood == Write([NoRow EXCEPT !.status = Evidence, !.cooling = TRUE])

\* A later check may still send it.
Hold == MissedByRow /\ UNCHANGED <<rows, left>>

\* SendIfNeeded without a sending.  The process may end between reading the row and
\* writing it: that is to end before it was read.
Evaluate ==
  /\ check.pc = "evaluate"
  /\ \/ Ignored /\ Write([Row EXCEPT !.candidate = "", !.count = 0, !.scope = NoScope])
     \/ /\ ~Ignored /\ RecoveryOnly
        /\ Write([NoRow EXCEPT !.status = "ok", !.cooling = Row.cooling])
     \/ /\ ~Ignored /\ ~RecoveryOnly /\ ~Enough
        /\ Write([Row EXCEPT !.candidate = Evidence, !.count = Counted, !.scope = check.cfg])
     \/ ~Ignored /\ ~RecoveryOnly /\ Enough /\ Row.cooling /\ Hold
  /\ Observe
  /\ check' = NoCheck /\ Release("auto")
  /\ UNCHANGED <<about, environment, notice, round, job, unaware, told, tries>>

\* stateStore.Read fails.
EvaluateFails ==
  /\ check.pc = "evaluate"
  /\ Trouble /\ lost' = [lost EXCEPT ![Key] = TRUE]
  /\ check' = NoCheck /\ Release("auto")
  /\ UNCHANGED <<about, environment, rows, notice, round, job, streak,
                 unaware, told, tries>>

StartAlert ==
  /\ check.pc = "evaluate"
  /\ ~Ignored /\ ~RecoveryOnly /\ Enough /\ ~Row.cooling
  /\ Observe
  /\ check' = [check EXCEPT !.pc = "deliver"]
  /\ job' = [NoJob EXCEPT !.pc = "create"]
  /\ UNCHANGED <<about, environment, rows, notice, round, mu, left, lost, unaware,
                 told, tries>>

Returned == job.pc \in {"ended", "unsaved"}

\* History: of what has arrived nothing is recorded here.
Forget == unaware' = [unaware EXCEPT ![Key] = @ \/ (about # "notice" /\ job.arrived)]

\* Only what was sent, and saved as such, changes the state of the alert.
EndAlert ==
  /\ check.pc = "deliver" /\ Returned
  /\ \/ /\ job.pc = "ended" /\ job.accepted
        /\ rows' = [rows EXCEPT ![Key] = [NoRow EXCEPT !.status = check.seen,
                                                       !.cooling = Cooldown]]
        /\ lost' = [lost EXCEPT ![Key] = FALSE]
        /\ unaware' = [unaware EXCEPT ![Key] = FALSE]
        /\ UNCHANGED left
     \/ /\ job.pc = "ended" /\ job.accepted /\ Trouble
        /\ MissedByRow /\ Forget /\ UNCHANGED rows
     \/ /\ job.pc = "unsaved" \/ ~job.accepted
        /\ MissedByRow /\ Forget /\ UNCHANGED <<rows, left>>
  /\ job' = NoJob
  /\ check' = NoCheck /\ Release("auto")
  /\ UNCHANGED <<about, environment, notice, round, streak, told, tries>>

\* SentAt is long enough ago.  Only a check that looks at it sees it.
CooldownEnds ==
  /\ check.pc = "evaluate" /\ Row.cooling
  /\ rows' = [rows EXCEPT ![Key].cooling = FALSE]
  /\ UNCHANGED <<about, environment, check, notice, round, job, mu, left,
                 history>>

-----------------------------------------------------------------------------
(***************************************************************************)
(* deliver, for an alert or a notice.  What is sent is accepted, refused,  *)
(* or ends without an answer that confirms it: the program records an      *)
(* error then, and the platform may have it all the same.                  *)
(***************************************************************************)
CreateDelivery ==
  /\ job.pc = "create"
  /\ \/ job' = [job EXCEPT !.pc = "send"] /\ UNCHANGED left
     \/ job' = [job EXCEPT !.pc = "ended"] /\ Trouble
  /\ UNCHANGED <<about, environment, check, rows, notice, round, mu, history>>

send ==
  /\ job.pc = "send"
  /\ \/ job' = [pc |-> "finish", accepted |-> TRUE, arrived |-> TRUE] /\ UNCHANGED left
     \/ /\ job' \in {[job EXCEPT !.pc = "finish", !.arrived = arrived] : arrived \in BOOLEAN}
        /\ Trouble
  /\ tries' = IF about = "notice" THEN [tries EXCEPT !.sent = @ + 1] ELSE tries
  /\ told' = IF about # "notice" /\ job'.arrived THEN [told EXCEPT ![Key] = check.seen]
                                                  ELSE told
  /\ UNCHANGED <<about, environment, check, rows, notice, round, mu, streak, lost, unaware>>

\* The result is saved; an answer that did not come is an error, too.
FinishDelivery ==
  /\ job.pc = "finish"
  /\ job' = [job EXCEPT !.pc = "ended"]
  /\ tries' = IF about = "notice" /\ ~job.accepted THEN [tries EXCEPT !.errors = @ + 1]
                                                   ELSE tries
  /\ UNCHANGED <<about, environment, check, rows, notice, round, mu, left, streak, lost,
                 unaware, told>>

\* ErrResultNotSaved, whatever the result was.
ResultNotSaved ==
  /\ job.pc = "finish"
  /\ Trouble
  /\ job' = [job EXCEPT !.pc = "unsaved"]
  /\ UNCHANGED <<about, environment, check, rows, notice, round, mu, history>>

-----------------------------------------------------------------------------
(***************************************************************************)
(* sendOperationalNotices, once a minute, for one event and one rule.      *)
(***************************************************************************)
StartRound ==
  /\ about = "notice" /\ round.pc = "idle" /\ mu = "free"
  /\ pending /\ ~maintenance
  /\ mu' = "auto"
  /\ round' = [pc |-> "version", version |-> settings.version, on |-> enabled]
  /\ UNCHANGED <<about, environment, check, rows, notice, job, left, history>>

EndRound == round' = NoRound /\ Release("auto")

\* The rules may have been changed since they were read.
CheckVersion ==
  /\ round.pc = "version"
  /\ \/ settings.version = round.version
        /\ round' = [round EXCEPT !.pc = "reserve"] /\ UNCHANGED <<mu, left>>
     \/ settings.version # round.version /\ EndRound /\ UNCHANGED left
     \/ Trouble /\ EndRound
  /\ UNCHANGED <<about, environment, check, rows, notice, job, history>>

\* Fault: an attempt that was interrupted is made again.
ReservableAnyway ==
  \/ notice.status = "none"
  \/ notice.status # "success" /\ notice.attempts < 3 /\ notice.rested

\* What ReserveNotice inserts or updates.
Reservable ==
  \/ notice.status = "none"
  \/ notice.status = "error" /\ notice.attempts < 3 /\ notice.rested

Reserved == [status |-> "sending", attempts |-> notice.attempts + 1, rested |-> FALSE]

ReserveNotice ==
  /\ round.pc = "reserve"
  /\ IF Reservable
       THEN /\ notice' = Reserved /\ UNCHANGED mu
            /\ round' = [round EXCEPT !.pc = "deliver"]
            /\ job' = [NoJob EXCEPT !.pc = IF round.on THEN "create" ELSE "ended"]
       ELSE EndRound /\ UNCHANGED <<notice, job>>
  /\ UNCHANGED <<about, environment, check, rows, left, history>>

\* The statement may have taken effect.
ReserveFails ==
  /\ round.pc = "reserve"
  /\ notice' \in {notice} \union (IF Reservable THEN {Reserved} ELSE {})
  /\ Trouble /\ EndRound
  /\ UNCHANGED <<about, environment, check, rows, job, history>>

\* A result that could not be saved leaves the notice as it is; so does an error here.
FinishNotice ==
  /\ round.pc = "deliver" /\ Returned
  /\ \/ /\ job.pc = "ended"
        /\ notice' = [notice EXCEPT !.status = IF job.accepted THEN "success" ELSE "error",
                                    !.rested = FALSE]
        /\ UNCHANGED left
     \/ job.pc = "ended" /\ Trouble /\ UNCHANGED notice
     \/ job.pc = "unsaved" /\ UNCHANGED <<notice, left>>
  /\ job' = NoJob
  /\ EndRound
  /\ UNCHANGED <<about, environment, check, rows, history>>

\* updated_at is 15 minutes ago.
Rest ==
  /\ notice.status # "none" /\ ~notice.rested
  /\ notice' = [notice EXCEPT !.rested = TRUE]
  /\ UNCHANGED <<about, environment, check, rows, round, job, mu, left,
                 history>>

-----------------------------------------------------------------------------
(***************************************************************************)
(* SendNotification: a test, or a delivery again that failed or whose      *)
(* result is not known.  It has no part in the state of an alert or of a   *)
(* notice, but has the mutex meanwhile, which only the alert of the whole  *)
(* report does not ask for.                                                *)
(***************************************************************************)
SendNotification ==
  /\ about # "global" /\ mu = "free" /\ mu' = "manual"
  /\ UNCHANGED <<about, environment, check, rows, notice, round, job, left, history>>

NotificationSent ==
  /\ mu = "manual" /\ mu' = "free"
  /\ UNCHANGED <<about, environment, check, rows, notice, round, job, left, history>>

-----------------------------------------------------------------------------
(***************************************************************************)
(* Everything else.                                                        *)
(***************************************************************************)
\* Only a check that is under way sees it.
WorldChanges ==
  /\ check.pc = "probe" /\ world' \in Seen \ {world}
  /\ UNCHANGED <<about, scope, settings, enabled, maintenance, pending, check, rows,
                 notice, round, job, mu, left, history>>

\* The name of the next connection.
fresh == MaxConnections + 1 - left.connections

\* A provider is added, or gets a new connection in place of the one it has.
Connect ==
  /\ left.connections > 0
  /\ left' = [left EXCEPT !.connections = @ - 1]
  /\ \E replaced \in {{}} \union {{c} : c \in scope.connections} :
       scope' = [scope EXCEPT !.connections = (@ \ replaced) \union {fresh}]

\* A provider is deleted; all others keep their connections.  Without any there is nothing
\* to observe.  The first one stays unless it is replaced: without it the list is one
\* that never was before, as after a replacement.
Disconnect ==
  /\ left.deletions > 0
  /\ left' = [left EXCEPT !.deletions = @ - 1]
  /\ \E c \in scope.connections \ {0} :
       scope.connections # {c} /\ scope' = [scope EXCEPT !.connections = @ \ {c}]

\* The providers are edited; or a filter or threshold is set, or the one before again.
EditScope ==
  /\ about # "notice"
  /\ Connect \/ Disconnect \/ (Edit /\ scope' = [scope EXCEPT !.rest = ~@])
  /\ UNCHANGED <<about, world, settings, enabled, maintenance, pending, check, rows,
                 notice, round, job, mu, history>>

EditChannel ==
  /\ about = "global" /\ Edit
  /\ enabled' = ~enabled
  /\ UNCHANGED <<about, world, scope, settings, maintenance, pending, check, rows,
                 notice, round, job, mu, history>>

\* SaveMonitoringSettings: a rule that is changed, its channel or anything else, gets a
\* new generation.
SaveSettings ==
  /\ about # "global" /\ Edit
  /\ \/ settings' = [settings EXCEPT !.version = @ + 1] /\ UNCHANGED enabled
     \/ /\ settings' = [version |-> settings.version + 1,
                         generation |-> settings.generation + 1]
        /\ enabled' \in BOOLEAN
  /\ UNCHANGED <<about, world, scope, maintenance, pending, check, rows, notice, round,
                 job, mu, history>>

\* A window begins or ends; the number of windows is bounded with the edits.
Maintain ==
  /\ Edit /\ maintenance' = ~maintenance
  /\ UNCHANGED <<about, world, scope, settings, enabled, pending, check, rows, notice,
                 round, job, mu, history>>

\* The event is a day old, or its connection was replaced.
EventEnds ==
  /\ about = "notice" /\ pending /\ pending' = FALSE
  /\ UNCHANGED <<about, world, scope, settings, enabled, maintenance, check, rows,
                 notice, round, job, mu, left, history>>

\* The process ends and is started again.
Crash ==
  /\ Trouble
  /\ check' = NoCheck /\ round' = NoRound /\ mu' = "free" /\ job' = NoJob
  /\ IF check.pc = "deliver" THEN MissedByRow /\ Forget ELSE UNCHANGED <<lost, unaware>>
  /\ UNCHANGED <<about, environment, rows, notice, streak, told, tries>>

Init ==
  /\ left \in Allowances /\ about = left.about
  /\ world \in IF about = "notice" THEN {"ok"} ELSE Seen
  /\ scope = [connections |-> {0}, rest |-> FALSE]
  /\ settings = [version |-> 0, generation |-> 0]
  /\ enabled \in BOOLEAN /\ maintenance \in BOOLEAN /\ pending = TRUE
  /\ check = NoCheck
  /\ rows = [key \in Keys |-> NoRow]
  /\ notice = [status |-> "none", attempts |-> 0, rested |-> FALSE]
  /\ round = NoRound
  /\ job = NoJob
  /\ mu = "free"
  /\ streak = [key \in Keys |-> [seen |-> "unknown", scope |-> NoScope, count |-> 0]]
  /\ lost = [key \in Keys |-> FALSE] /\ unaware = [key \in Keys |-> FALSE]
  /\ told = [key \in Keys |-> ""]
  /\ tries = [sent |-> 0, errors |-> 0]

Next ==
  \/ BeginCheck \/ FinishCheck \/ CheckFails \/ LockRules \/ ReadSettings \/ ReadConfig
  \/ Evaluate \/ EvaluateFails \/ StartAlert \/ EndAlert \/ CooldownEnds
  \/ CreateDelivery \/ send \/ FinishDelivery \/ ResultNotSaved
  \/ StartRound \/ CheckVersion \/ ReserveNotice \/ ReserveFails \/ FinishNotice \/ Rest
  \/ SendNotification \/ NotificationSent
  \/ WorldChanges \/ EditScope \/ EditChannel \/ SaveSettings \/ Maintain \/ EventEnds
  \/ Crash

(***************************************************************************)
(* The scheduler, where an interval is set, begins checks again and again, *)
(* statements and requests end, time passes, and a goroutine that waits    *)
(* for notificationMu gets it, although others take it again and again     *)
(* (sync.Mutex is fair).                                                   *)
(***************************************************************************)
Fairness ==
  /\ WF_vars(BeginCheck) /\ WF_vars(FinishCheck)
  /\ SF_vars(LockRules) /\ WF_vars(ReadSettings) /\ WF_vars(ReadConfig)
  /\ WF_vars(Evaluate \/ StartAlert) /\ WF_vars(EndAlert)
  /\ SF_vars(CooldownEnds)
  /\ WF_vars(CreateDelivery) /\ WF_vars(send) /\ WF_vars(FinishDelivery)
  /\ WF_vars(NotificationSent)

Spec == Init /\ [][Next]_vars /\ Fairness
-----------------------------------------------------------------------------
(***************************************************************************)
(* Properties.                                                             *)
(***************************************************************************)
Observations == {"ok", "slow", "error", "unknown"}
Told == {"", "ok", "slow", "error"}
AnyScope == Scopes \union {NoScope}
Checks ==
  [pc : {"idle", "probe", "lock", "settings", "config", "evaluate", "deliver"},
   checked : AnyScope, version : Nat, generation : 0..MaxEdits, cfg : AnyScope,
   on : BOOLEAN, seen : Observations]
StateRows ==
  [status : Told, candidate : Told, count : Nat, scope : AnyScope, cooling : BOOLEAN]

EnvironmentType ==
  /\ about \in {"global", "rule", "notice"}
  /\ world \in Observations
  /\ scope \in Scopes
  /\ settings \in [version : Nat, generation : 0..MaxEdits]
  /\ enabled \in BOOLEAN /\ maintenance \in BOOLEAN /\ pending \in BOOLEAN
  /\ left \in [about : {"global", "rule", "notice"}, edits : Nat,
              connections : 0..MaxConnections, deletions : Nat, troubles : Nat]

SendingType ==
  /\ notice \in [status : {"none", "sending", "success", "error"}, attempts : Nat,
                 rested : BOOLEAN]
  /\ round \in [pc : {"idle", "version", "reserve", "deliver"}, version : Nat, on : BOOLEAN]
  /\ job \in [pc : {"idle", "create", "send", "finish", "ended", "unsaved"},
              accepted : BOOLEAN, arrived : BOOLEAN]
  /\ mu \in {"free", "auto", "manual"}

HistoryType ==
  /\ streak \in [Keys -> [seen : Observations, scope : AnyScope, count : Nat]]
  /\ lost \in [Keys -> BOOLEAN] /\ unaware \in [Keys -> BOOLEAN]
  /\ told \in [Keys -> Told]
  /\ tries \in [sent : Nat, errors : Nat]

\* The types of all variables.
TypeOK ==
  /\ EnvironmentType
  /\ check \in Checks
  /\ rows \in [Keys -> StateRows]
  /\ SendingType
  /\ HistoryType

\* An alert goes out only on enough observations one after the other, all of the scope
\* that is alerted about, also over restarts and edits between them.  Those of a rule are
\* observations under the list of connections that its row belongs to: what was observed
\* under another list meanwhile the row does not know when its own list comes back.  The
\* exception is a row whose count has missed an observation: a statement failed, or an
\* alert of another status was held back in a cooldown or did not succeed, after which
\* the code goes on with the count before it.  It ends when the count begins anew.
AlertsHaveEvidence ==
  check.pc = "deliver" =>
    lost[Key] \/ /\ streak[Key].seen = check.seen /\ streak[Key].scope = check.checked
                 /\ streak[Key].count >= Threshold(check.seen)

\* The row that an alert is about, as things are now.
CurrentKey ==
  IF about = "rule" THEN <<settings.generation, scope.connections>> ELSE <<>>

\* A fault that lasts is the last thing that the platform is told in the end, whatever
\* was refused, held back in a cooldown, interrupted or overtaken by an edit before.  For
\* a rule it is the last thing told under the present list of connections: if the list
\* had gone and come back, that may be long ago, and a recovery was told under another
\* list since.  The exception is a row that does not say of an alert that it arrived,
\* because there was no answer to it, or the result could not be saved: the program may
\* take the fault for told although a recovery has arrived after it.
LastingFaultIsTold ==
  \A status \in {"slow", "error"} :
    about # "notice" =>
      (<>[](world = status /\ enabled /\ ~maintenance)
         => <>[](told[CurrentKey] = status \/ unaware[CurrentKey]))

\* A notice is sent again only if every earlier sending is on record as an error, and at
\* most three times: never after one that was accepted, that was interrupted or whose
\* result was not saved, which are left to the administrator.  An error can be a refusal
\* or no answer; in the latter case the notice may have arrived and arrives twice.
NoticesAreNotReplayed ==
  [][tries'.sent # tries.sent => tries.sent = tries.errors /\ tries.sent < 3]_vars
=============================================================================
