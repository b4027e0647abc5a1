--------------------------- MODULE StatusSnapshot ---------------------------
(***************************************************************************)
(* What the status page shows while the configuration changes under a      *)
(* running check.  A check takes a copy of the configuration, probes for   *)
(* minutes, reads the previous report and merges with it; an administrator *)
(* may change, pause, delete and re-create providers all the while.  The   *)
(* two meet at application.configMu, in the row latest_report and in the   *)
(* value the broker pushes, and what keeps old results from being shown    *)
(* for a new connection is the connection revision of each provider.       *)
(*                                                                         *)
(* One check runs at a time (CheckRun).  A model's result is abstracted to *)
(* the connection it was measured at: `since' numbers the connections an   *)
(* administrator has given a provider (its address, key and type), which   *)
(* the program does not know; it only knows revisions.                     *)
(***************************************************************************)
EXTENDS Integers, FiniteSets

CONSTANTS
  Providers,    \* provider ids
  Models,       \* model names, the same for every provider
  Urls,         \* connection settings a provider can be given
  FirstUrl,     \* the one the environment configures
  ModelList,    \* the empty model name of an incident of the model list
  MaxRevision   \* bound on the revisions given out

ASSUME SnapshotAssumption ==
  /\ FirstUrl \in Urls
  /\ ModelList \notin Models
  /\ MaxRevision \in Nat \ {0}

VARIABLES
  cfg,           \* application.cfg: the configured providers
  saved,         \* the runtime configuration in SQLite
  lastRevision,  \* the last revision given out
  configMu,      \* who holds it: "free", "edit" or "run"
  edit,          \* the administrator's request in progress
  run,           \* the check in progress
  latest,        \* the report in SQLite
  pushed,        \* the value the broker published last
  incidents      \* open incidents

vars == <<cfg, saved, lastRevision, configMu, edit, run, latest, pushed,
          incidents>>

Modes == {"on", "paused", "off"}   \* Enabled and ProbeEnabled, Enabled only, neither
On(c) == {p \in DOMAIN c : c[p].mode = "on"}
Shown(c) == {p \in DOMAIN c : c[p].mode # "off"}
Overlay(f, g) ==
  [p \in DOMAIN f \union DOMAIN g |-> IF p \in DOMAIN g THEN g[p] ELSE f[p]]
Only(f, S) == [p \in DOMAIN f \intersect S |-> f[p]]

-----------------------------------------------------------------------------
(***************************************************************************)
(* Reports.  A row holds the connection it was measured at, 0 when it is   *)
(* unknown; failed likewise, for a provider whose model list could not be  *)
(* read.                                                                   *)
(***************************************************************************)
NoRows == [m \in Models |-> 0]

Blank(revision) == [revision |-> revision, rows |-> NoRows, failed |-> 0]

Nothing == [p \in {} |-> 0]
NoReport == [generated |-> FALSE, groups |-> Nothing]

\* report.WithConfig: the shown providers, with the results of their present
\* revision and no others.
WithConfig(value, c) ==
  [value EXCEPT !.groups =
     [p \in Shown(c) |->
        IF /\ p \in DOMAIN value.groups
           /\ value.groups[p].revision = c[p].revision
           /\ p \in On(c)
          THEN value.groups[p]
          ELSE Blank(c[p].revision)]]

\* report.Build over the results of a run: `bad' are the providers whose model
\* list could not be read (WithDiscoveryGaps makes their models unknown).
Build(c, targets, bad) ==
  [generated |-> TRUE,
   groups |->
     [p \in Shown(c) |->
        [revision |-> c[p].revision,
         rows |-> [m \in Models |->
                     IF <<p, m>> \in targets /\ p \notin bad
                       THEN c[p].since ELSE 0],
         failed |-> IF p \in bad THEN c[p].since ELSE 0]]]

\* report.MergeProvider
MergeProvider(base, update, p) ==
  IF ~base.generated THEN update
  ELSE [update EXCEPT !.groups =
          Overlay(Only(base.groups, Providers \ {p}), update.groups)]

\* Fault: a partial check replaces the whole group of its providers.
MergeModelsByGroup(base, update, targets) ==
  [update EXCEPT !.groups = Overlay(base.groups, update.groups)]

\* report.MergeModels
MergeModels(base, update, targets) ==
  [update EXCEPT !.groups =
     [p \in DOMAIN base.groups \union DOMAIN update.groups |->
        IF p \notin DOMAIN base.groups THEN update.groups[p]
        ELSE [base.groups[p] EXCEPT !.rows =
                [m \in Models |-> IF <<p, m>> \in targets
                                    THEN update.groups[p].rows[m] ELSE @[m]]]]]

-----------------------------------------------------------------------------
(***************************************************************************)
(* The administrator: a request runs with configMu held from its first     *)
(* step to its answer.                                                     *)
(***************************************************************************)
IdleEdit == [pc |-> "idle", cfg |-> Nothing, value |-> NoReport]

\* Fault: the revision is computed from the connection.
RevisionOfConnection(w) == CHOOSE n \in 1..Cardinality(Urls) : n = w.url

\* rand.Text: a revision nobody has seen.
Revision(w) == lastRevision + 1

\* config.ReconcileProviderRevisions.  `since' is not the program's: it says
\* whether this is still the connection the provider had before.
Reconcile(wanted) ==
  [p \in DOMAIN wanted |->
     LET w == wanted[p]
         same == p \in DOMAIN cfg /\ cfg[p].url = w.url
     IN IF same /\ cfg[p].mode = w.mode THEN cfg[p]
        ELSE [url |-> w.url, mode |-> w.mode, revision |-> Revision(w),
              since |-> IF same THEN cfg[p].since ELSE lastRevision + 1]]

\* replaceRuntimeConfig up to its first statement on the database.
Replace(wanted) ==
  /\ edit.pc = "idle"
  /\ configMu = "free"
  /\ lastRevision < MaxRevision                          \* bound
  /\ configMu' = "edit"
  /\ edit' = [pc |-> "save", cfg |-> Reconcile(wanted), value |-> NoReport]
  /\ lastRevision' = lastRevision + 1
  /\ UNCHANGED <<cfg, saved, run, latest, pushed, incidents>>

Settings == [url : Urls, mode : Modes]

UpdateSettings == Replace(cfg)

UpsertProvider(p, w) == Replace(Overlay(cfg, [q \in {p} |-> w]))

DeleteProvider(p) ==
  /\ p \in DOMAIN cfg
  /\ Replace(Only(cfg, Providers \ {p}))

\* enable, disable, pause, resume: the batch sets the mode of several.
BatchProviders(S, mode) ==
  /\ S \subseteq DOMAIN cfg
  /\ Replace(Overlay(cfg, [p \in S |-> [url |-> cfg[p].url, mode |-> mode]]))

ImportConfig(S, w) == Replace([p \in S |-> w])

Answer == edit' = IdleEdit /\ configMu' = "free"

\* SaveRuntimeConfig.  An error leaves the memory as it was, and does not say
\* that the row was not written.
SaveRuntimeConfig ==
  /\ edit.pc = "save"
  /\ \/ /\ saved' = edit.cfg
        /\ edit' = [edit EXCEPT !.pc = "install"]
        /\ UNCHANGED configMu
     \/ /\ saved' \in {saved, edit.cfg}
        /\ Answer
  /\ UNCHANGED <<cfg, lastRevision, run, latest, pushed, incidents>>

Install ==
  /\ edit.pc = "install"
  /\ cfg' = edit.cfg
  /\ edit' = [edit EXCEPT !.pc = "load"]
  /\ UNCHANGED <<saved, lastRevision, configMu, run, latest, pushed, incidents>>

\* publishLatest: without a report to project it logs and the request is
\* answered as it would have been.
LoadLatest ==
  /\ edit.pc = "load"
  /\ \/ /\ edit' = [edit EXCEPT !.pc = "store",
                                !.value = WithConfig(latest, cfg)]
        /\ UNCHANGED configMu
     \/ Answer
  /\ UNCHANGED <<cfg, saved, lastRevision, run, latest, pushed, incidents>>

StoreLatest ==
  /\ edit.pc = "store"
  /\ latest' \in {latest} \union (IF edit.value.generated THEN {edit.value} ELSE {})
  /\ edit' = [edit EXCEPT !.pc = "push"]
  /\ UNCHANGED <<cfg, saved, lastRevision, configMu, run, pushed, incidents>>

PushLatest ==
  /\ edit.pc = "push"
  /\ pushed' = edit.value
  /\ Answer
  /\ UNCHANGED <<cfg, saved, lastRevision, run, latest, incidents>>

-----------------------------------------------------------------------------
(***************************************************************************)
(* runCheck                                                                *)
(***************************************************************************)
IdleRun == [pc |-> "idle", cfg |-> Nothing, kind |-> "all", scope |-> {},
            targets |-> {}, bad |-> {}, value |-> NoReport]

Targeted(targets) == {t[1] : t \in targets}

\* `scope' is the providers the run is about: the configuration, or what
\* filterProvider and selectedConfig leave of it.
StartRun(kind, scope, targets) ==
  /\ run.pc = "idle"
  /\ run' = [pc |-> "probe", cfg |-> cfg, kind |-> kind, scope |-> scope,
             targets |-> targets, bad |-> {}, value |-> NoReport]
  /\ UNCHANGED <<cfg, saved, lastRevision, configMu, edit, latest, pushed,
                 incidents>>

StartAll == StartRun("all", DOMAIN cfg, On(cfg) \X Models)

\* The provider was on when the check was accepted; it may have been paused or
\* disabled since, and then there is nothing to probe.
StartProvider(p) ==
  /\ p \in DOMAIN cfg
  /\ StartRun("provider", {p}, ({p} \intersect On(cfg)) \X Models)

\* The targets are checked again when the run starts.
StartModels(targets) ==
  /\ targets # {}
  /\ Targeted(targets) \subseteq On(cfg)
  /\ StartRun("models", Targeted(targets), targets)

\* The runner has come back without an error.  Targets name their models, so
\* no model list is read for them.
Probe(bad) ==
  /\ run.pc = "probe"
  /\ bad \subseteq (IF run.kind = "models" THEN {} ELSE Targeted(run.targets))
  /\ run' = [run EXCEPT
               !.pc = IF run.kind = "all" THEN "save" ELSE "previous",
               !.bad = bad,
               !.value = Build(Only(run.cfg, run.scope), run.targets, bad)]
  /\ UNCHANGED <<cfg, saved, lastRevision, configMu, edit, latest, pushed,
                 incidents>>

\* The report before this run, as the configuration of its start shows it.
Previous == WithConfig(latest, run.cfg)

ReadPrevious ==
  /\ run.pc = "previous"
  /\ run' = [run EXCEPT
               !.pc = "save",
               !.value = IF run.kind = "models"
                           THEN MergeModels(Previous, @, run.targets)
                           ELSE MergeProvider(Previous, @,
                                  CHOOSE p \in run.scope : TRUE)]
  /\ UNCHANGED <<cfg, saved, lastRevision, configMu, edit, latest, pushed,
                 incidents>>

\* Fault: the report is projected onto the configuration of the run's start.
ProjectedOnStart == WithConfig(run.value, run.cfg)

Projected == WithConfig(run.value, cfg)

\* The start of the section under configMu, up to RecordCheck.
RecordCheck ==
  /\ run.pc = "save"
  /\ configMu = "free"
  /\ configMu' = "run"
  /\ run' = [run EXCEPT !.pc = "incidents", !.value = Projected]
  /\ latest' = Projected
  /\ UNCHANGED <<cfg, saved, lastRevision, edit, pushed, incidents>>

\* What a run has observed: the targets it probed and, unless it was asked for
\* single models, whether the model list of each provider could be read (the
\* program's observation with an empty model name).
Observations ==
  {t \in run.targets : t[1] \notin run.bad} \union
  (IF run.kind = "models" THEN {} ELSE Targeted(run.targets) \X {ModelList})

\* Fault: every result is observed, whatever has become of its provider.
ObservedAnyway == Observations

\* Those that are still results of the present connection.
Observed ==
  {t \in Observations :
     t[1] \in DOMAIN cfg /\ cfg[t[1]].revision = run.cfg[t[1]].revision}

\* storage.ObserveIncidents: an observation supersedes the incidents of other
\* revisions, then opens, keeps or resolves the one of its own.
ObserveIncidents ==
  /\ run.pc = "incidents"
  /\ \/ UNCHANGED incidents
     \/ \E down \in SUBSET Observed :
          /\ \A t \in Observed :
               t[2] = ModelList => (t \in down <=> t[1] \in run.bad)
          /\ incidents' =
               {i \in incidents : <<i.provider, i.model>> \notin Observed} \union
               {[provider |-> t[1], model |-> t[2],
                 revision |-> run.cfg[t[1]].revision] : t \in down}
  /\ run' = [run EXCEPT !.pc = "publish"]
  /\ UNCHANGED <<cfg, saved, lastRevision, configMu, edit, latest, pushed>>

Publish ==
  /\ run.pc = "publish"
  /\ pushed' = run.value
  /\ configMu' = "free"
  /\ run' = IdleRun
  /\ UNCHANGED <<cfg, saved, lastRevision, edit, latest, incidents>>

\* Cancellation, deadline, budget, a provider changed during discovery, or the
\* database: before RecordCheck has committed, a run ends without a trace.
AbandonRun ==
  /\ run.pc \in {"probe", "previous", "save"}
  /\ run' = IdleRun
  /\ UNCHANGED <<cfg, saved, lastRevision, configMu, edit, latest, pushed,
                 incidents>>

-----------------------------------------------------------------------------
\* publicReport: /api/status projects the stored report, /api/events the pushed
\* one, when they write it out.
PublicReport(value) == WithConfig(value, cfg)

\* The process dies and starts again with the saved configuration.
Restart ==
  /\ cfg' = saved
  /\ configMu' = "free"
  /\ edit' = IdleEdit
  /\ run' = IdleRun
  /\ pushed' = NoReport
  /\ UNCHANGED <<saved, lastRevision, latest, incidents>>

-----------------------------------------------------------------------------
\* A first start: the environment's providers, a revision for each, no report.
Init ==
  /\ cfg = [p \in Providers |-> [url |-> FirstUrl, mode |-> "on",
                                 revision |-> 1, since |-> 1]]
  /\ saved = cfg
  /\ lastRevision = 1
  /\ configMu = "free"
  /\ edit = IdleEdit
  /\ run = IdleRun
  /\ latest = NoReport
  /\ pushed = NoReport
  /\ incidents = {}

EditStep ==
  \/ UpdateSettings
  \/ \E p \in Providers, w \in Settings : UpsertProvider(p, w)
  \/ \E p \in Providers : DeleteProvider(p)
  \/ \E S \in SUBSET Providers, mode \in Modes : BatchProviders(S, mode)
  \/ \E S \in SUBSET Providers, w \in Settings : ImportConfig(S, w)
  \/ SaveRuntimeConfig
  \/ Install
  \/ LoadLatest
  \/ StoreLatest
  \/ PushLatest

RunStep ==
  \/ StartAll
  \/ \E p \in Providers : StartProvider(p)
  \/ \E targets \in SUBSET (Providers \X Models) : StartModels(targets)
  \/ \E bad \in SUBSET Providers : Probe(bad)
  \/ ReadPrevious
  \/ RecordCheck
  \/ ObserveIncidents
  \/ Publish
  \/ AbandonRun

Next == EditStep \/ RunStep \/ Restart

Spec == Init /\ [][Next]_vars

-----------------------------------------------------------------------------
(***************************************************************************)
(* Properties                                                              *)
(***************************************************************************)
Connections == 1..MaxRevision

Config ==
  UNION {[S -> [url : Urls, mode : Modes, revision : Connections,
                since : Connections]] : S \in SUBSET Providers}

Groups ==
  UNION {[S -> [revision : Connections, rows : [Models -> 0..MaxRevision],
                failed : 0..MaxRevision]] : S \in SUBSET Providers}

Reports == [generated : BOOLEAN, groups : Groups]

\* The variables keep their types; in particular every group of a report
\* carries a revision that was given out.
TypeOK ==
  /\ cfg \in Config
  /\ saved \in Config
  /\ lastRevision \in Connections
  /\ configMu \in {"free", "edit", "run"}
  /\ edit \in [pc : {"idle", "save", "install", "load", "store", "push"},
               cfg : Config, value : Reports]
  /\ run \in [pc : {"idle", "probe", "previous", "save", "incidents", "publish"},
              cfg : Config, kind : {"all", "provider", "models"},
              scope : SUBSET Providers,
              targets : SUBSET (Providers \X Models), bad : SUBSET Providers,
              value : Reports]
  /\ latest \in Reports
  /\ pushed \in Reports
  /\ incidents \in SUBSET [provider : Providers,
                            model : Models \union {ModelList},
                            revision : Connections]

\* Whichever report a reader has at hand, and whenever it writes it out (an old
\* one too: a push may fail and the one before it stay), it shows no result of
\* a connection other than the one configured at that moment: not of a check
\* that was in flight when the connection changed, not after a change back, not
\* after the provider was deleted and created again.
ShownIsCurrent ==
  \A value \in {latest, pushed} : \A p \in Shown(cfg) :
    LET group == PublicReport(value).groups[p]
    IN /\ group.failed \in {0, cfg[p].since}
       /\ \A m \in Models : group.rows[m] \in {0, cfg[p].since}

\* A report is stored or pushed only as the present configuration shows it: no
\* check brings back a provider that was deleted, disabled or reconnected
\* while it ran (configMu is held from the projection to the publication).
CommitsAreCurrent ==
  [][/\ latest' # latest => latest' = WithConfig(latest', cfg')
     /\ pushed' # pushed /\ pushed' # NoReport =>
          pushed' = WithConfig(pushed', cfg')]_vars

\* A stored result that is still current is replaced only by a check that was
\* asked to measure it: partial checks merge with the report before them and
\* configuration changes project the stored report, and neither loses what the
\* other has stored.
OnlyMeasuredResultsChange ==
  [][\A p \in DOMAIN latest.groups : \A m \in Models :
       /\ latest' # latest
       /\ p \in On(cfg')
       /\ cfg'[p].revision = latest.groups[p].revision
       => \/ /\ p \in DOMAIN latest'.groups
             /\ latest'.groups[p].rows[m] = latest.groups[p].rows[m]
          \/ run.pc = "save" /\ <<p, m>> \in run.targets]_vars

\* An incident is opened, and one of the present connection is closed, only on
\* a result of its own subject measured at the present revision of its provider.
IncidentsFollowCurrent ==
  [][/\ \A i \in incidents' \ incidents :
          i.provider \in DOMAIN cfg /\ cfg[i.provider].revision = i.revision
     /\ \A i \in incidents \ incidents' :
          (i.provider \in DOMAIN cfg /\ cfg[i.provider].revision = i.revision)
            => /\ run.cfg[i.provider].revision = i.revision
               /\ i.model # ModelList => <<i.provider, i.model>> \in run.targets]_vars

\* docs/architecture.md says that deleting or disabling a provider shows at
\* once in the stored snapshot and on the event stream.
ReflectedAtOnce ==
  [][/\ edit.pc \in {"load", "push"}
     /\ edit' = IdleEdit
     /\ cfg' = cfg
     => /\ DOMAIN latest'.groups \subseteq Shown(cfg)
        /\ DOMAIN pushed'.groups \subseteq Shown(cfg)]_vars
=============================================================================
