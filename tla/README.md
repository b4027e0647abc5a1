# Verification of the model connectivity monitor

The program (Go, `cmd/cg` and `internal/`) probes AI model providers, stores the
results in SQLite, shows a status page with an event stream, sends alerts and lets
administrators change everything while it works. This directory holds TLA+ modules
of its concurrent and persistent core, the TLC configurations that check them on
small instances, and proofs checked by TLAPS for every instance.

    tlc -workers 2 -config MCCheckRun.cfg MCCheckRun     # any run: config and module
    tlapm CheckRunProofs.tla                             # the proofs

## 1. The system

| Part | State it keeps | Operations | Modelled in |
|---|---|---|---|
| Check lifecycle (`cmd/cg/main.go`, `selection.go`, `monitoring.go`) | `application.running`, `runCancel`, `runDone`, `shuttingDown`, `taskID` under `mu`; rows of `check_tasks` | `beginCheck`, `executeCheck`, `runCheck`, `StopCheck`, `shutdown`, recovery at start | `CheckRun`, promise in `CheckService` |
| Configuration and status snapshot (`cmd/cg/main.go`, `internal/report`, `internal/config/revision.go`) | `application.cfg`, `configMu`; rows `runtime_config`, `latest_report`, `incidents`; values in the broker | settings, provider edits, batch, import; projection, merge, commit, publication | `StatusSnapshot` |
| Probe runner and budget (`internal/probe`, `internal/storage/budget.go`) | `Runner.runErr`, two kinds of slot channels, row of `request_budget` | discovery, `beforeRequest`, `probeOne`, reservation | `ProbePool` |
| System updater (`internal/update`, `frontend/src/pages/admin/UpdatesTab.tsx`) | request id, `submitMu`; request and status files, worker lock; the page's pending request | submit, resolve, status, worker, the page's install and poll | `SystemUpdate`; its exclusion with checks in `CheckRun` |
| Event streams and the status page (`internal/web/server.go`, `frontend/src/utils/liveStatus.ts`, `pages/Dashboard.tsx`) | one buffered channel for each subscriber; timers, revision, report of the page | publish, subscribe, authorize, write; poll, connect, refresh | `LiveStatus` |
| Accounts and sessions (`internal/storage/users.go`, `internal/web/auth.go`) | rows of `users` and `sessions` | login, logout, password change, roles, revocation | `Accounts` |
| The browser's session (`frontend/src/hooks/useAuth.tsx`, `App.tsx`, `Login.tsx`, `ChangePassword.tsx`, `Admin.tsx`, `UsersTab.tsx`) | session, csrf token, revision | refresh, accept, logout, routes by role | `BrowserSession`, over `Accounts` |
| Administration pages (`frontend/src/pages/admin`, `frontend/src/lib`, `frontend/src/components`) | one tab at a time: its documents, rows, drafts, dialogs, requests under way | load, poll, run, stop, edit, save, batch, query, retry | `AdminPages` of the page modules over `AdminServer`; promise of the overview in `TaskFollower` |
| Alerts and notices (`internal/notify`, `cmd/cg/notices.go`) | `notify_state`, rule-state rows, `monitoring_notices`, deliveries; `notificationMu` | debounce, recovery, cooldown, deliver, reserve, retry | `Notifications` |
| Provider schedules (`cmd/cg/monitoring.go`, `internal/storage/schedules.go`) | `provider_schedule`, settings version | due, complete, edit | not modelled |
| Model catalog (`internal/storage/catalog.go`) | `model_catalog`, events | observe, approve | not modelled |
| Backups, metrics tokens, usage, exports, provider wire formats, validation, drawing of the pages | | | not modelled: file and network I/O, single statements, read-only queries, presentation |

How they interact. The HTTP handlers, the scheduler and the start-up check all call
`beginCheck`; it asks the updater whether a job is active, and the updater's `Start`
asks whether a check is running, both under `application.mu`. A run takes a copy of
the configuration, lets a `probe.Runner` work for minutes, and only then takes
`configMu`, which every configuration change holds from its first read to its answer.
Under it the run projects its report on the configuration of that moment, commits
usage, history and report in one transaction, records incidents and publishes to the
broker. Alerts follow outside the lock. A configuration change saves, installs, and
then projects and publishes the stored report itself. Every request to a provider is
preceded by a reservation in the day's budget, which other administrator requests
use too. Publication reaches a page over the broker, a stream and a wire that may
break; the page polls while no stream is live. Every stream and every handler looks
at the session, which an administrator may end at any time. The pages know the server
only through answers, which come late, in another order, or not at all.

What is hard, and has properties here or in the plan: three kinds of callers racing
for one flag that is set before and cleared after several fallible statements;
cancellation by stop, deadline and shutdown at any of them; crashes between a commit
and the row that reports it; minutes-old copies of the configuration and reports
that meet newer ones; partial checks that merge; nested semaphores; refusals that
race with requests already let through; handlers that read a session or a user in one
transaction and write in the next; a request whose answer is lost and that may still
arrive; two files that two processes change; answers that overtake each other and
edits made while they are awaited. `PROJECT.json` lists each hazard at its line
with the property that would notice it, or says why none does.

## 2. The modules

**`CheckService`** is what a user of checks is promised. The right to work has one
holder (a check or a system update); each check opens a task in a ledger, settles it
in one of three ways, gives up, or leaves; a restart cancels what was open, and
nothing else ever changes a settled task.

**`CheckRun`** is how `cmd/cg` does it. A control point in `pc` stands for each place
where another goroutine, the process's end or a failing statement can come between
(`admit` before the first critical section, `create` before the insert, `publish`
before the second section, `run`, `save`, `notify`, `deferred`, `finish`,
`release`). `ctx`, `task`, `failed`, `completed`, `usageSaved` are the locals of a
run; `running`, `owner` (whose cancel function is installed), `shuttingDown`,
`mainPc`, `drain` (the `runDone` channel `shutdown` holds) are the process's;
`tasks`, `usage`, `job` survive it. `reported` and `lost` are history: the tasks
whose report was committed, and those for which the database failed a statement.
An insert that fails may have been applied, because `ExecContext` can return the
context's error after the write; a transaction that fails was not applied, because
`Tx.Commit` looks at the context before it commits. The update job on disk is only
active or idle here.

**`StatusSnapshot`** is the configuration, the report and the check between them.
An edit (`Replace` and the five requests built on it) holds `configMu` through
`save`, `install`, `load`, `store` and `push`; each database step may fail, and an
error of `SaveRuntimeConfig` may hide a write. A run copies the configuration,
probes, reads the previous report if it is partial, and holds `configMu` from
`RecordCheck` to `Publish`. A result is abstracted to the connection at which it was
measured: `since` numbers the connections an administrator has given a provider.
The program does not know it (it compares revisions only), so that a property in
terms of `since` is about what really was measured. A row that is 0 is one without
a result. `WithConfig`, `Build`, `MergeModels`, `MergeProvider` and `Reconcile` are
the functions of those names on this data; `WithDiscoveryGaps` is part of `Build`.
Two administrators' requests are one after the other by `configMu`, so one request
in progress stands for all.

**`ProbePool`** is one `Runner` after another: discovery with its reservations, pages
and failures, then a goroutine for each selected model, a slot of its provider, a
slot of the run, the two halves of `beforeRequest` around the guard, the request, and
`Completed`. The budget row is shared with `DiscoverModels` and starts again each day.
An answer is only a success (or one with reported usage) or not.

**`LiveStatus`** is one visit of the status page: `startStatusUpdates` with its
`live`, `pollTimer`, `reconnectTimer` and `revision`, the requests of `GET /api/status`
by the poll and by the refresh button, and the stream, with the server's handler at its
other end. A report is its number; what counts is which of two is newer. `stream` has
the handler's control point, the subscriber's channel (room for one), the report it
holds between the look at the session and the write, and the wire, which holds
`MaxWire` events before a write blocks. The server may revoke the session, a stream
and a request may fail at any time, the browser may have no `EventSource`. A request
carries `current`, whether nothing has overtaken it, in place of the number it drew.
A stream that breaks is reported to the page (`onerror`); an `EventSource` that stays
silent for ever would be the browser's fault. The banner of a failed manual refresh
stays until the next report, as in the code.

**`Accounts`** is the handlers of sign-in, sign-out, password change and user
administration as the transactions they are made of, so that handlers of different
clients interleave between two of them. `users` and `sessions` are the tables, `jar`
the cookie of each client, `req` its command with what the handler has read.
A password is the number of times the user was given one, as its salted hash never
repeats. An attempt that is over the limit is an answer of refusal.

**`BrowserSession`** extends it with `AuthProvider`: the copy of the session and of its
csrf token, the request that refreshes it (only the last one counts), the events by
which any request of the page reports a 401 or a changed role, the routes and the
tabs of each role. `over` is history: the sessions that the page itself has ended.

**`SystemUpdate`** is the manager in the application, the worker and the updates
page. The application and the worker share `inbox` (`requests/request.json`) and
`statusFile`, and read and write them one at a time; `handler` is the handler that
holds `submitMu`, between its reads and writes. The page's submission may lose its
answer and arrive later (`late`); the page then resolves it. Both processes may crash
between any two steps, files may fail to be read or written, and systemd starts the
worker again while there is a request. `ran` is history: the requests the
installer was run for.

**`AdminServer`** is what all tabs of the administration ask for: the check in progress
and what is visible of it at each moment (its task ends after its report is stored, and
before the flag is cleared), and the one command of a page that begins a check, whose
answer may be lost. The page modules extend it: **`OverviewPage`** (load, poll in three
requests, run, stop; request counters), **`ProvidersPage`** (list, selection, dialogs
and batch), **`ProviderChecks`** (the checks begun from the list and the poll that
frees the buttons), **`EditingPages`** (settings, monitoring and configuration text;
saves with and without a version; the entry field of a list; leaving with unsaved
changes), **`ListPages`** (tasks, notifications, audit, history, billing and the models
of the provider form, as queries and rows). **`AdminPages`** composes them: one tab is
mounted at a time and loses its state when it is left, so a behaviour is about one tab
that is opened and left any number of times, while the server goes on. The effects that
React runs after a change are taken in the step that made them due. `ProviderChecks`
follows one command at a time.

**`TaskFollower`** says without requests, answers or timers what the overview promises:
it follows the last task it was told of, tells its end only together with a summary in
which its result is, never goes back to an older summary, and gets there as long as it
is open. `OverviewPage` has the mapping (`watched`, `told`, `summary`, `stored`), and
`OverviewFollows` is the specification of `TaskFollower`, fairness included.

**`Notifications`** is what `internal/notify` and `cmd/cg/notices.go` tell a chat
platform. A behaviour is about one of three things (`about`): the alert of the whole
report, the alert of a rule, or an operational notice. They share only
`notificationMu`, which the first does not take; `SendNotification` is an
administrator's use of it. `check` is a check from its copy of the configuration to the
end of its alert, with the state it reads on the way; `notice` is the row of the notice
and `round` the minute's `sendOperationalNotices`; `job` is `deliver` for either, and what
it sends is accepted, refused or not answered: without an answer the program records an
error, whether the platform has the message or not.

A scope is what `evidenceScope` covers: the connections of the providers (a set; their
order is left out) and the rest. `Connect` adds a provider or replaces its connection
under a name that was never used, `Disconnect` deletes one, and all others keep theirs, so
a list of connections comes back when an added provider is deleted. `rows` are the stored
states of the alert and survive a crash; a rule has one for each of its generations and
lists of connections (`monitoring.go:37-45`), and finds it as it was left when the list
comes back. The histories are kept for each row: `streak`, how many observations of one
status and scope came one after the other, counted over crashes; `lost`, that its count
has missed one; `unaware`, that it does not say of an alert that it arrived; `told`, what
the platform was last told about it. `tries` are the sendings of the notice and those on
record as an error. Left out are the list of deliveries (only whether a result was saved
matters), the choice of events that become notices, and messages.

Each module has its code faults next to the definitions they would replace
(`Vacant` and `VacantAlways`): `PROJECT.json` names one for every property, and TLC
finds the property violated with it.

## 3. The runs

| Run | Instance | Shows |
|---|---|---|
| `MCCheckRun` | a scheduler, a start-up check and a handler; 2 rows, 3 starts, fair; 221 000 states | single run, exclusion with updates, clean shutdown, task table, usage account, truthful status, refinement of `CheckService`; accepted tasks are settled, a signalled process ends |
| `MCCheckRunStop` | the same, one property | **violated**: a stop answered with true need not end in a canceled task |
| `MCStatusSnapshot` | 1 provider, 2 models, 2 urls, 3 revisions; 1.1 million states | what is shown, kept and turned into incidents was measured at the present connection |
| `MCStatusSnapshotMerge` | 2 providers, 1 model, 2 revisions; 1.5 million states | every commit, of a whole or a partial check, fits the configuration of its moment |
| `MCStatusSnapshotReflect` | 1 provider, one property | **violated**: a deletion is not always reflected in the stored and the pushed report |
| `MCProbePool` | an automatic and a configured provider with 2 models each; 3 and 2 slots, 4 requests a day, fair; 77 000 states | both limits, the budget, complete results, late requests; every run ends |
| `MCLiveStatus` | one visit, 1 report after the first, a wire of 1, fair; 69 000 states | a next step always, the newest report on its way, no answer takes the page back, nothing after a revocation; the page converges and a revocation reaches it |
| `MCAccounts` | 2 users, 2 clients, 3 sessions, 2 passwords, 2 edits, 1 session kept; 534 000 states | an administrator remains, sessions are current |
| `MCBrowserSession` | 2 users, the page as client, 2 sessions, 2 passwords, 1 edit, fair; 261 000 states | an ended session stays ended, the page catches up |
| `MCSystemUpdate` | 2 channels, 1 attempt, 1 trouble, the page opened once, fair; 147 000 states | one job, installed once, nothing queued after it was told void, the page settles |
| `MCAdminPages` | 2 tasks and 1 press, or 1 task, 1 failure and 2 presses; 2 providers, 2 changes, 2 own edits and 1 foreign, 2 filters and 2 pages, 3 requests under way, fair; 360 000 states | reported changes stay, edits are kept, rows answer the query, the overview implements `TaskFollower`, buttons come back |
| `MCNotifications` | thresholds 2 and 1, three findings; an edit and a trouble, or a list of connections that comes back, of an alert; 3 troubles of a notice; fair; 658 000 states | alerts have evidence, a lasting fault is told, a notice is sent again only after errors on record |

Why the bounds are enough. Three callers are one of each kind of context (cancelled
by the signal only, by the deadline only, by both), and let a third wait while two
race. Two rows and three starts let a row survive a crash, be recovered, and be
followed by another run that meets a crash. Three revisions are a connection, its
replacement and a change back, which is what revisions are for; two urls make the
change back possible; two models tell a partial check from a whole one and two
providers a merge from a replacement. The run's limit of 3 is below what the two
providers could use together (4), and a provider's limit of 2 below the run's, so
each binds; 4 requests a day are fewer than the 4 probes and the list need, and the
day may change at any time. `MaxTasks`, `MaxBoots` and `MaxRevision` are the bounds
of the first two modules; each cuts off the action that would exceed it and is marked
in its guard.

One report after the first makes an older and a newer one, which is what overtaking is
about; a wire of one and a channel of one already make a stream hold three reports.
Two users are an administrator and the one that edits it; three sessions let one be
created while another is ended and a third is read. One password change, one edit or
one trouble for the browser's session and for the updater is one at every place where
it could come; `MCAccounts` has two edits since two administrators may demote each
other. The updater's second attempt is the other administrator's, whose submission is a
trouble. Two tasks let the page be told of one while it follows another; three requests
under way let an answer be overtaken twice. The bounds of these modules, too, are in
the guards of the actions they cut off (`MaxReports`; `MaxTokens`, `MaxHash`,
`MaxEdits`; `MaxAttempts`, `MaxTroubles`, `MaxMounts`; the allowances, `MaxTasks`,
`MaxEdition`, `MaxPage`, `MaxRequests`).

A threshold of 2 is the least that has something to forget between two checks. An alert
has one of two allowances. One edit and one trouble come at any place, before, between and
after any number of checks. Or a provider is added, or given a new connection, and one is
deleted, again at any place: with one added and the same deleted the list of connections
returns, with the row, the count and the status that it had, and meanwhile any number of
checks have looked at the row of the other list; for the alert of the whole report, which
has one row, with a trouble besides. Two kinds of fault let the count of one survive the
other; three troubles of a notice refuse, leave unanswered or interrupt each of its
attempts. The allowances are spent in `Edit`, `Connect`, `Disconnect` and `Trouble`;
`MaxEdits` bounds the generations, `MaxConnections` the names. No check finds "unknown"
by itself in the run; it arises there from an edit of the scope.

Symmetry is used for the models and providers of `StatusSnapshot` and the users and
clients of `Accounts`, in runs with invariants and action properties only. Deadlock is
checked in the runs of the first three modules. In the others the behaviour really may
end: the page is closed, the sessions and edits of the bound are used up, or the
allowance is spent and nobody presses anything, the notice has had its attempts.

Fairness. `CheckRun` assumes weak fairness of each admitted caller's next step (the
Go scheduler runs what can run, requests and statements have timeouts), of
`shutdown`, of its wait (either the channel is closed or five seconds pass) and of
the exit after it. Nothing obliges a caller, an administrator, a signal or a restart.
`ProbePool` assumes weak fairness of discovery without further pages (there are at
most 100, under one timeout), of each goroutine and of the end of the wait. With two
goroutines waiting for one slot, weak fairness suffices because a slot is not given
back to the goroutine that leaves it: each goes through once.
`LiveStatus` assumes weak fairness of the timers, of each request's end, of the
handler of the stream and of the delivery of events, and strong fairness of the page's
requests being served and answered, as otherwise each of an endless series could fail; nothing obliges
a stream to live. `BrowserSession` likewise: the timer starts refreshes again and
again, and one of infinitely many is read and answered. `SystemUpdate` assumes weak
fairness of the worker (systemd starts it while there is a request file), of the
manager's status handler, of the page's poll and of the end of its requests.
`AdminPages` assumes weak fairness of the polls, of the page's load and of the answer to
an accepted check, and of the server's check: troubles are bounded, so an endless
series of failures does not occur. `Notifications` assumes that checks begin again and
again (the scheduler, where an interval is set), that statements and requests end, that
a cooldown that checks look at again and again is over at one of them (its end is a step
at that place, as no other sees it), and that a goroutine that waits for `notificationMu` gets it although
others take it repeatedly, which `sync.Mutex` ensures. Nothing obliges an administrator, in any module.

### Two divergences

* `MCCheckRunStop`. docs/api.md:146 says of a stop answered with `"stopped":true`, and
  of a regular shutdown, that the unfinished task is marked canceled and report,
  history and alerts are not updated. `StopCheck` answers true until
  `finishRunState`; once `RecordCheck` has committed, the run has no error and
  `executeCheck` (`main.go:571-581`) settles it as a success. `SettledTruthfully`
  shows that the status is then the truth about the report.
* `MCStatusSnapshotReflect`. docs/architecture.md:106 says that a deletion or a
  disabling shows at once in the stored snapshot and on the event stream.
  `publishLatest` (`main.go:486-501`) only logs when it cannot read or write the
  report. `ShownIsCurrent` shows that readers of the stored report are not misled,
  since `publicReport` projects it again.

More is written into the properties of the alerts and notices in place of runs.

* docs/monitoring-features.md:64 says that an observation that no longer satisfies the
  consecutive condition clears the count of the candidate. `notify.go:117-125` writes
  nothing when the alert of another status is held back in a cooldown, or is not sent:
  with "error" counted once, a recovery that the cooldown holds back and "error" again, an
  alert for two "errors in succession" goes out. `AlertsHaveEvidence` excepts a row whose
  count has missed an observation (`lost`, `MissedByRow`), until the count begins anew.
* The same line says that counting starts again when connections change. For a rule that
  covers all providers it does not when they change back: "error", another provider is
  added, "ok", the provider is deleted, "error" finds the row of the first "error"
  (`monitoring.go:37-45`), and an alert for two in succession goes out.
  `AlertsHaveEvidence` promises for a rule that the observations follow one another among
  those made under the same list of connections, and no more (`streak` of the row).
* In the same way an "error" that was told, whose recovery was told under another list,
  is not told again when the first list is back: its row still says "error".
  `LastingFaultIsTold` promises for a rule that the fault is the last thing told under the
  present list, which may be long ago.
* A sending that times out is an error on record, and may have arrived
  (`notify.go:277-285`, `delivery.go:100-104`). A notice is then sent again and may
  arrive twice, as docs/api.md:273 says of what is resent: `NoticesAreNotReplayed` is
  about what is on record. A recovery without an answer that did arrive leaves its row at
  the fault, and the fault is not told again when it returns: `LastingFaultIsTold` excepts
  a row that does not say of an alert that it arrived (`unaware`).

TLC finds these behaviours when the exceptions are dropped.

## 4. The proofs

Eight modules prove, for every value of the constants, what the runs show on one
instance: each invariant and each action property of the passing runs has its theorem,
and what TLC alone shows is liveness. The assumptions are those that the modelled
modules name, and TLC evaluates them in the runs. Each inductive invariant was checked
with TLC on the instance of its run, and most on a larger one, before it was proved.

**`CheckRunProofs`**, under `CallersAssumption` and `BoundsAssumption` of `CheckRun`:
each invariant and the action property of `MCCheckRun` hold, and `CheckRun` implements
`CheckService`: `TypeCorrect`, `MutualExclusion`, `UpdateExclusion`, `ShutdownIsClean`,
`OpenTasksAreAccounted`, `UsageIsBookedOnce`, `SettlesTruthfully`, `Implementation`.

All of them rest on `Invariance`: `IInv` is inductive. None of the properties is inductive
alone. `OneRunAtATime` needs `OwnerInv`, that the flag, the installed cancel function
and the control points agree, since the code only tests the flag. `NoCheckDuringUpdate`
needs the flag too (`GateInv`). `CleanShutdown` needs `ShutdownInv`: the flag
`shuttingDown` is up exactly while `main` is in or past `shutdown`, and a closed
channel means that the run it belonged to is over, since no other can begin.
`OpenTasksAccounted` needs `RowInv`, rows being handed out in order and open while
their run reports. `UsageBookedOnce` and `SettledTruthfully` need `ProgressInv`, which
says at each control point what the run has committed and booked. One lemma shows
that each of these conjuncts survives a step (`TypeStep`, `OwnerStep`, `GateStep`,
`ShutdownStep`, `RowStep`, `ProgressStep`, `OpenStep`, `UsageStep`), with one step for
each action that can disturb it; `Invariance` puts them together. `Implementation`
adds that each step maps to an action of the service or to a stutter: `HiddenStep`
deals with the steps that the service does not see.

**`AccountsProofs`**, under `AccountsAssumption`: `TypeCorrect` (`AccountsTypeOK`),
`OneAdministratorRemains`, `SessionsStayCurrent`. Given the types, both invariants are
inductive, because the code repeats in the last transaction what an earlier one has
read: `PasswordKeepsAdmins` and `EditKeepsAnAdmin` say that no change of a user takes
the last administrator, `RewrittenUserHasNoSession` that a user whose password, role or
state changes has no session left.
The module goes on with `BrowserSession`, under `PageAssumption` (the page is one of the
clients): `PageTypeCorrect` and `EndedAlwaysStaysEnded`. That the page does not show a
session it has ended is not inductive, because such a session could come back by the
cookie, by a refresh that is under way or was answered, or in the answer of a command.
`OverInv` says that none of these `Known` places has one, that an ended session was given
out, and that a session made for a command of the page that is not answered yet is in
none of the places; so the page cannot end the session it is being given. It is here that
`revision` in `useAuth.tsx` counts: were a refresh not dropped when an answer is accepted, it
could know the session that the answer replaces.

**`LiveStatusProofs`**, under `LiveStatusAssumption`: `TypeCorrect`, `NeverIsStranded`,
`RevocationEndsTheStream`, `AnswersNeverTakeBack`, `NewestIsAlwaysOnTheWay`, for every
number of reports and every length of the wire. `ConnectionInv` says that nothing is on
a wire without a connection and nothing anywhere that was not stored. `RevocationInv`
adds to `NothingAfterRevocation` the report that was cleared before the revocation and is
still to be written. `AnswerInv` says that an answer that is still of use is not older
than what the page shows, which the counter of revisions is for. `NewestInv` follows the
newest report: it is in the channel (where it replaces an older one), then with the
handler, then the last on the wire, then on the page, where no answer may replace it;
`StageInv` says at which point of a stream there can be anything on its wire at all, and
`LastOnTheWay` draws `NewestOnTheWay` from both.

**`ProbePoolProofs`**, under `PoolAssumption` (the models of a provider are finitely many,
the run has slots, the providers come from a list): `PoolIsConsistent`, `TypeCorrect`,
`LimitsAlwaysKept`, `SuccessIsAlwaysComplete`, `ConfirmedAreAlwaysKept`,
`LateRequestsAreBounded`, for all numbers of slots, providers, models and daily requests.
`PhaseInv` ties the goroutines to the phase of the run. `SlotsInv` counts the holders of
slots: a request in flight is made by one of them, and a goroutine takes a slot of its
provider before one of the run, in this order. `ResultInv` is why a run without an error
is complete: a goroutine returns with a result, or something has stopped the run, and
what stops it stays. `LateInv` is the bound on requests after the first refusal: who
refuses holds a slot itself, so that those who have passed the test before, sent or not,
are fewer than the slots.

**`StatusSnapshotProofs`**, under `SnapshotAssumption`: `SnapshotIsConsistent`,
`TypeCorrect`, `ShownIsAlwaysCurrent`, `CommitsAreAlwaysCurrent`,
`OnlyMeasuredResultsEverChange`, `IncidentsAlwaysFollowCurrent`, for all providers,
models, settings and revisions. The code only compares revisions; that this suffices is
`AgreeInv`: any two copies of the configuration (in memory, stored, of a request, of a
check) that give a provider the same revision give it the same entry, and every report,
wherever it is kept, fits each of them. `FreshInv` is what keeps it so: an edit in
progress either leaves a provider alone or gives it a revision that no copy and no report
has. `LockInv` is what holding `configMu` means, that what is about to be stored or pushed
is the projection on the present configuration; `RunInv` says at each point of a check
what its report is about, and `KeepInv` that a partial check that merges keeps every row
it was not asked to measure. `BuildIs`, `MergeProviderIs`, `MergeModelsIs` and `ReconcileIs`
say what these operators return.

**`SystemUpdateProofs`**, under `UpdateAssumption`: `UpdateIsConsistent`, `TypeCorrect`,
`OneJobAtATime`, `NothingIsInstalledTwice`, `WhatIsResolvedStaysOut`, for every number of
attempts, failures, crashes and visits of the page. `FilesInv` says what the two files
hold at each point of the worker, and what a handler that found no request may rely on
although the worker goes on: the worker only ever takes a request away. `RequestInv` is
the life of an id: the one the manager would accept was neither queued nor reported void,
and an answer that gives up an id comes after the id is gone. `RanInv` is `InstalledOnce`
seen ahead: the installer was not run for what is queued or being looked at.
`IdsInv` (ids are given out once) and `PageInv` (which handler serves which request of the
page) support them. The crash between two writes of the worker is a step of its own, so
each of these conjuncts holds at every place where a process may end.

**`AdminPagesProofs`**, under the assumptions of the page modules: `RowsAlwaysAnswer`,
`EditsAreAlwaysKept`, `ProvidersAlwaysStay`, `OverviewImplements`, for every number of
filters, requests, edits, providers and allowances. `ListsInv`: the request that still
counts asks for the query of the page. `EditsInv`: what a save has sent contains what was
typed, and the saved copy is part of the draft. `ProvidersInv`: what the page has reported
as done is so on the server and in every answer that is still to be taken.
`OverviewImplements` shows that every step of `AdminPages` is a step of `TaskFollower` or
a stutter, from `TasksInv` (a task's result is stored before it ends, and none after),
`CommandInv` and `FollowInv` (of the load and the poll at most one may still replace the
summary, no answer that may do so is older than it, and the report of a task is read after
its end). The fairness of `TaskFollower`, the rest of `OverviewFollows`, is only
model-checked.

**`NotificationsProofs`**, under `NotificationsAssumption`: `TypeCorrect`,
`NoticesNeverReplayed`, `AlertsAlwaysHaveEvidence`, for all thresholds and every number
of edits, connections, failures and crashes. `NoticeInv` says for each point of a sending
what is known of the earlier ones: a row says "error" only when all of them are on record
as an error, and "sending" from the reservation on. `EditedScope`: whatever is added,
replaced and deleted makes a list that has a row. `RowInv` says that what a row counts is
below the threshold; `EvidenceInv`, of every row, in use or waiting for its list to come
back, that what it counts was seen one after the other by the checks that read this row,
unless it is about to be replaced or has missed an observation. `Observed` is the
arithmetic of one more observation, `NotPassed` that what is not written is marked.

Liveness and `ENABLED` are out of the prover's reach and stay with TLC: `TasksSettle`,
`ShutdownEnds`, `RunEnds`, `Converges`, `RevocationReachesThePage`, `PageCatchesUp`,
`PageSettles`, `ButtonsComeBack`, `LastingFaultIsTold`, and the fairness of `TaskFollower`
in `OverviewFollows`. `TypeOK` is in no run where a theorem states it.

## 5. What the models leave out

Metrics, progress display, texts, statistics and layout of reports; the one-shot
`check` command, which docs/development.md:50 forbids next to a running service;
failures of the recovery statements at start (the process then exits and is started
again, which is a crash). In `CheckRun` alerts only come after the publication and
change no status; `Notifications` has the rest of them. Incidents of providers that
are deleted or disabled stay open, in the code and in the model: `ObserveIncidents`
only looks at providers it has results for.

Not modelled at all:

* provider schedules and the model catalog: they come next in the plan; of deliveries
  the list that administrators see and resend from;
* backups, exports, metrics tokens, usage and costs: file I/O, single statements and
  read-only queries without interleavings of interest; of the audit only the page;
* clients of providers, settings and validation: wire formats and parsing, which the
  models take as an answer, an error, or an accepted input;
* in the updater the download, the verification and the replacement of the binary and
  the recovery command; in the accounts the limiter of attempts and the command that
  creates the first administrator; in the streams the limit on their number;
* of the frontend: drawing, search and sorting of the status page, charts, themes,
  `ModelPicker`, `ProbeFields`, `DetectionProgress`, and `OperationsTab`, where a lock
  admits one command at a time.

Known hazards without a property: `UsersTab` numbers no requests, so a list asked for
before an edit may arrive after the one asked for after it and stay until the next load;
`ProvidersTab` may forget the end of a task that was accepted while its poll asked about
the one before. No doc promises otherwise; `PROJECT.json` has the lines.

## 6. Plan

1. `Schedules` and `Catalog`: due dates against edits of settings and connections;
   approval against a newer observation.
2. Algorithms as operators against reference definitions: `SelectModels`, merges and
   counts of reports, interval and maintenance windows.
3. Proofs: that `SystemUpdate` implements the job of `CheckRun`, which is active or idle
   there, and what is found for `Schedules` and `Catalog`.
