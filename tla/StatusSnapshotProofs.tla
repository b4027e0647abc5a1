------------------------ MODULE StatusSnapshotProofs ------------------------
(***************************************************************************)
(* Proofs about StatusSnapshot, for every set of providers, models and     *)
(* connection settings and every bound on the revisions.                   *)
(***************************************************************************)
EXTENDS StatusSnapshot, TLAPS

(***************************************************************************)
(* The inductive invariant                                                 *)
(***************************************************************************)
Copies == {cfg, saved, edit.cfg, run.cfg}
Values == {latest, pushed, edit.value, run.value}

\* A revision stands for one entry, whichever copy of the configuration it is
\* in: a result measured for it was measured at that entry's connection.
Same(c, d) ==
  \A p \in DOMAIN c \intersect DOMAIN d :
    c[p].revision = d[p].revision => c[p] = d[p]

Fits(value, c) ==
  \A p \in DOMAIN value.groups \intersect DOMAIN c :
    value.groups[p].revision = c[p].revision =>
      /\ value.groups[p].failed \in {0, c[p].since}
      /\ \A m \in Models : value.groups[p].rows[m] \in {0, c[p].since}

\* A report may meet any copy, and carries no revision not yet given out.
Sound(value) ==
  /\ \A p \in DOMAIN value.groups : value.groups[p].revision <= lastRevision
  /\ \A c \in Copies : Fits(value, c)

AgreeInv ==
  /\ \A c \in Copies : \A p \in DOMAIN c : c[p].revision <= lastRevision
  /\ \A c, d \in Copies : Same(c, d)
  /\ \A value \in Values : Sound(value)

\* What a check was asked to do, by the copy of the configuration it took.
Asked(kind, c, scope, targets) ==
  \/ kind = "all" /\ scope = DOMAIN c /\ targets = On(c) \X Models
  \/ /\ kind = "provider"
     /\ \E p \in Providers :
          scope = {p} /\ targets = ({p} \intersect On(c)) \X Models
  \/ /\ kind = "models"
     /\ targets \subseteq On(c) \X Models
     /\ scope = Targeted(targets)

RunInv ==
  /\ run.pc # "idle" => Asked(run.kind, run.cfg, run.scope, run.targets)
  /\ run.pc = "previous" =>
       /\ run.kind # "all"
       /\ run.value = Build(Only(run.cfg, run.scope), run.targets, run.bad)
  /\ run.pc = "save" =>
       /\ run.value.generated
       /\ \A p \in DOMAIN run.value.groups :
            /\ p \in DOMAIN run.cfg
            /\ run.value.groups[p].revision = run.cfg[p].revision
  /\ ~latest.generated => DOMAIN latest.groups = {}

\* Who is past the projection holds configMu, and the projection is still that
\* of the present configuration.
LockInv ==
  /\ edit.pc # "idle" => configMu = "edit"
  /\ run.pc \in {"incidents", "publish"} =>
       configMu = "run" /\ run.value = WithConfig(run.value, cfg)
  /\ edit.pc = "store" => edit.value = WithConfig(latest, cfg)
  /\ edit.pc = "push" => edit.value = WithConfig(edit.value, cfg)

\* The configuration about to be installed changes a provider only together
\* with its revision, to one that no report and no check has seen.
FreshInv ==
  edit.pc \in {"save", "install"} =>
    \A p \in DOMAIN edit.cfg :
      \/ p \in DOMAIN cfg /\ edit.cfg[p] = cfg[p]
      \/ /\ \A c \in {cfg, run.cfg} :
              p \in DOMAIN c => c[p].revision # edit.cfg[p].revision
         /\ p \in DOMAIN latest.groups =>
              latest.groups[p].revision # edit.cfg[p].revision

\* The rows a report shows of provider p under configuration c.
RowsOf(value, c, p) == WithConfig(value, c).groups[p].rows

\* While a check runs, the report has results only of the revisions the check
\* started with, and once the check has read it, the same as the check has, the
\* targets apart.
KeepInv ==
  \A p \in On(cfg) :
    IF p \in DOMAIN run.cfg /\ run.cfg[p] = cfg[p]
    THEN run.pc = "save" =>
           \A m \in Models :
             \/ <<p, m>> \in run.targets
             \/ RowsOf(run.value, cfg, p)[m] = RowsOf(latest, cfg, p)[m]
    ELSE run.pc # "idle" => RowsOf(latest, cfg, p) = NoRows

SnapshotInv ==
  TypeOK /\ AgreeInv /\ RunInv /\ LockInv /\ FreshInv /\ KeepInv

-----------------------------------------------------------------------------
(***************************************************************************)
(* Types of the operators                                                  *)
(***************************************************************************)
Entry == [url : Urls, mode : Modes, revision : Connections, since : Connections]

Group == [revision : Connections, rows : [Models -> 0..MaxRevision],
          failed : 0..MaxRevision]

\* A configuration has an entry for some of the providers.
LEMMA ConfigType ==
  /\ \A c \in Config : /\ DOMAIN c \subseteq Providers
                       /\ \A p \in DOMAIN c : c[p] \in Entry
  /\ \A S \in SUBSET Providers : \A c \in [S -> Entry] : c \in Config
<1>1. Config = UNION {[S -> Entry] : S \in SUBSET Providers}
  BY DEF Config, Entry
<1>2. QED
  BY <1>1

\* A report has a group for some of the providers.
LEMMA GroupsType ==
  /\ \A g \in Groups : /\ DOMAIN g \subseteq Providers
                       /\ \A p \in DOMAIN g : g[p] \in Group
  /\ \A S \in SUBSET Providers : \A g \in [S -> Group] : g \in Groups
<1>1. Groups = UNION {[S -> Group] : S \in SUBSET Providers}
  BY DEF Groups, Group
<1>2. QED
  BY <1>1

\* No configuration and no report.
LEMMA EmptyType == /\ Nothing \in Config /\ DOMAIN Nothing = {}
                   /\ NoReport \in Reports
<1>1. Nothing \in [{} -> Entry] /\ Nothing \in [{} -> Group]
  BY DEF Nothing
<1>2. Nothing \in Config /\ Nothing \in Groups
  BY <1>1, ConfigType, GroupsType
<1>3. QED
  BY <1>1, <1>2 DEF NoReport, Reports

LEMMA BlankType == \A revision \in Connections : Blank(revision) \in Group
<1>1. NoRows \in [Models -> 0..MaxRevision] /\ 0 \in 0..MaxRevision
  BY SnapshotAssumption DEF NoRows
<1>2. QED
  BY <1>1 DEF Blank, Group

\* What WithConfig returns, part by part.
LEMMA WithConfigIs ==
  ASSUME NEW value \in Reports, NEW c
  PROVE  /\ WithConfig(value, c).generated = value.generated
         /\ WithConfig(value, c) = [generated |-> value.generated,
                                    groups |-> WithConfig(value, c).groups]
         /\ DOMAIN WithConfig(value, c).groups = Shown(c)
         /\ \A p \in Shown(c) :
              WithConfig(value, c).groups[p] =
                IF /\ p \in DOMAIN value.groups
                   /\ value.groups[p].revision = c[p].revision
                   /\ p \in On(c)
                  THEN value.groups[p]
                  ELSE Blank(c[p].revision)
  BY DEF WithConfig, Reports

LEMMA WithConfigType ==
  ASSUME NEW value \in Reports, NEW c \in Config
  PROVE  WithConfig(value, c) \in Reports
<1> DEFINE g == WithConfig(value, c).groups
<1>1. Shown(c) \in SUBSET Providers /\ \A p \in Shown(c) : c[p] \in Entry
  BY ConfigType DEF Shown
<1>2. ASSUME NEW p \in Shown(c) PROVE g[p] \in Group
  <2>1. Blank(c[p].revision) \in Group
    BY <1>1, BlankType DEF Entry
  <2>2. p \in DOMAIN value.groups => value.groups[p] \in Group
    BY GroupsType DEF Reports
  <2>3. QED
    BY <2>1, <2>2, WithConfigIs
<1>3. g = [p \in Shown(c) |-> g[p]]
  BY DEF WithConfig, Reports
<1>4. g \in [Shown(c) -> Group]
  BY <1>2, <1>3
<1>5. g \in Groups
  BY <1>1, <1>4, GroupsType
<1>6. QED
  BY <1>5, WithConfigIs DEF Reports

\* A projection is its own projection.
LEMMA WithConfigTwice ==
  ASSUME NEW value \in Reports, NEW c \in Config
  PROVE  WithConfig(WithConfig(value, c), c) = WithConfig(value, c)
<1> DEFINE once == WithConfig(value, c)
           twice == WithConfig(once, c)
<1>1. once \in Reports
  BY WithConfigType
<1>2. /\ DOMAIN once.groups = Shown(c)
      /\ DOMAIN twice.groups = Shown(c)
      /\ twice.generated = once.generated
      /\ once = [generated |-> value.generated, groups |-> once.groups]
      /\ twice = [generated |-> once.generated, groups |-> twice.groups]
      /\ once.generated = value.generated
  BY <1>1, WithConfigIs
<1>3. ASSUME NEW p \in Shown(c) PROVE twice.groups[p] = once.groups[p]
  <2>1. /\ once.groups[p] =
             IF /\ p \in DOMAIN value.groups
                /\ value.groups[p].revision = c[p].revision
                /\ p \in On(c)
               THEN value.groups[p]
               ELSE Blank(c[p].revision)
        /\ twice.groups[p] =
             IF /\ once.groups[p].revision = c[p].revision
                /\ p \in On(c)
               THEN once.groups[p]
               ELSE Blank(c[p].revision)
    BY <1>1, <1>2, WithConfigIs
  <2>2. QED
    BY <2>1
<1>4. /\ once.groups = [p \in Shown(c) |-> once.groups[p]]
      /\ twice.groups = [p \in Shown(c) |-> twice.groups[p]]
  BY <1>1 DEF WithConfig, Reports
<1>5. twice.groups = once.groups
  BY <1>3, <1>4
<1>6. QED
  BY <1>2, <1>5

\* A part of a configuration.
LEMMA OnlyIs ==
  ASSUME NEW c \in Config, NEW S
  PROVE  /\ Only(c, S) \in Config
         /\ DOMAIN Only(c, S) = DOMAIN c \intersect S
         /\ \A p \in DOMAIN c \intersect S : Only(c, S)[p] = c[p]
<1>1. Only(c, S) \in [DOMAIN c \intersect S -> Entry]
  BY ConfigType DEF Only
<1>2. DOMAIN c \intersect S \in SUBSET Providers
  BY ConfigType
<1>3. QED
  BY <1>1, <1>2, ConfigType DEF Only

\* What Build returns, part by part.
LEMMA BuildIs ==
  ASSUME NEW c, NEW targets, NEW bad
  PROVE  /\ Build(c, targets, bad).generated
         /\ Build(c, targets, bad) =
              [generated |-> TRUE, groups |-> Build(c, targets, bad).groups]
         /\ DOMAIN Build(c, targets, bad).groups = Shown(c)
         /\ \A p \in Shown(c) :
              Build(c, targets, bad).groups[p] =
                [revision |-> c[p].revision,
                 rows |-> [m \in Models |->
                             IF <<p, m>> \in targets /\ p \notin bad
                               THEN c[p].since ELSE 0],
                 failed |-> IF p \in bad THEN c[p].since ELSE 0]
         /\ \A p \in Shown(c) :
              Build(c, targets, bad).groups[p].revision = c[p].revision
  BY DEF Build

LEMMA BuildType ==
  ASSUME NEW c \in Config, NEW targets, NEW bad
  PROVE  Build(c, targets, bad) \in Reports
<1> DEFINE g == Build(c, targets, bad).groups
<1>1. Shown(c) \in SUBSET Providers /\ \A p \in Shown(c) : c[p] \in Entry
  BY ConfigType DEF Shown
<1>2. ASSUME NEW p \in Shown(c) PROVE g[p] \in Group
  <2>1. /\ c[p].revision \in Connections
        /\ c[p].since \in 0..MaxRevision
        /\ 0 \in 0..MaxRevision
    BY <1>1, SnapshotAssumption DEF Entry, Connections
  <2> DEFINE rows == [m \in Models |->
                        IF <<p, m>> \in targets /\ p \notin bad
                          THEN c[p].since ELSE 0]
  <2>2. rows \in [Models -> 0..MaxRevision]
    BY <2>1
  <2> HIDE DEF rows
  <2>3. [revision |-> c[p].revision, rows |-> rows,
         failed |-> IF p \in bad THEN c[p].since ELSE 0] \in Group
    BY <2>1, <2>2 DEF Group
  <2>4. QED
    BY <2>3, BuildIs DEF rows
<1>3. g = [p \in Shown(c) |-> g[p]]
  BY DEF Build
<1>4. g \in [Shown(c) -> Group]
  BY <1>2, <1>3
<1>5. g \in Groups
  BY <1>1, <1>4, GroupsType
<1> HIDE DEF g
<1>6. Build(c, targets, bad) = [generated |-> TRUE, groups |-> g]
  BY BuildIs DEF g
<1>7. QED
  BY <1>5, <1>6 DEF Reports

\* Every provider's group is either the update's or, for another provider, the
\* one there was.
LEMMA MergeProviderIs ==
  ASSUME NEW base \in Reports, NEW update \in Reports, NEW p
  PROVE  LET merged == MergeProvider(base, update, p)
         IN /\ merged \in Reports
            /\ merged.generated = update.generated
            /\ \A q \in DOMAIN update.groups :
                 q \in DOMAIN merged.groups /\ merged.groups[q] = update.groups[q]
            /\ \A q \in DOMAIN merged.groups \ DOMAIN update.groups :
                 q \in DOMAIN base.groups /\ merged.groups[q] = base.groups[q]
            /\ \A q \in DOMAIN base.groups :
                 base.generated /\ q # p => q \in DOMAIN merged.groups
<1> DEFINE merged == MergeProvider(base, update, p)
           kept == Only(base.groups, Providers \ {p})
           g == Overlay(kept, update.groups)
<1>1. CASE ~base.generated
  BY <1>1 DEF MergeProvider
<1>2. CASE base.generated
  <2>1. merged = [update EXCEPT !.groups = g]
    BY <1>2 DEF MergeProvider
  <2>2. merged = [generated |-> update.generated, groups |-> g]
    BY <2>1 DEF Reports
  <2>3. /\ base.groups \in Groups /\ update.groups \in Groups
        /\ update.generated \in BOOLEAN
    BY DEF Reports
  <2>4. /\ DOMAIN kept = DOMAIN base.groups \ {p}
        /\ \A q \in DOMAIN kept : kept[q] = base.groups[q]
    BY <2>3, GroupsType DEF Only
  <2>5. /\ DOMAIN g = DOMAIN kept \union DOMAIN update.groups
        /\ \A q \in DOMAIN g :
             g[q] = IF q \in DOMAIN update.groups THEN update.groups[q]
                                                  ELSE kept[q]
        /\ g = [q \in DOMAIN g |-> g[q]]
    BY DEF Overlay
  <2> HIDE DEF g, kept, merged
  <2>6. g \in Groups
    <3>1. DOMAIN g \in SUBSET Providers
      BY <2>3, <2>4, <2>5, GroupsType
    <3>2. \A q \in DOMAIN g : g[q] \in Group
      BY <2>3, <2>4, <2>5, GroupsType
    <3>3. g \in [DOMAIN g -> Group]
      BY <2>5, <3>2
    <3>4. QED
      BY <3>1, <3>3, GroupsType
  <2>7. merged \in Reports
    BY <2>2, <2>3, <2>6 DEF Reports
  <2>8. merged.groups = g /\ merged.generated = update.generated
    BY <2>2
  <2>9. QED
    BY <2>4, <2>5, <2>7, <2>8 DEF merged
<1>3. QED
  BY <1>1, <1>2

\* A provider's group keeps what it had, the rows of the targets apart.
LEMMA MergeModelsIs ==
  ASSUME NEW base \in Reports, NEW update \in Reports, NEW targets,
         \A q \in DOMAIN base.groups : \A m \in Models :
           <<q, m>> \in targets => q \in DOMAIN update.groups
  PROVE  LET merged == MergeModels(base, update, targets)
         IN /\ merged \in Reports
            /\ merged.generated = update.generated
            /\ DOMAIN merged.groups = DOMAIN base.groups \union DOMAIN update.groups
            /\ \A q \in DOMAIN update.groups :
                 q \notin DOMAIN base.groups =>
                   merged.groups[q] = update.groups[q]
            /\ \A q \in DOMAIN base.groups :
                 /\ merged.groups[q].revision = base.groups[q].revision
                 /\ merged.groups[q].failed = base.groups[q].failed
                 /\ \A m \in Models :
                      merged.groups[q].rows[m] =
                        IF <<q, m>> \in targets THEN update.groups[q].rows[m]
                                                ELSE base.groups[q].rows[m]
<1> DEFINE merged == MergeModels(base, update, targets)
           rows(q) == [m \in Models |->
                         IF <<q, m>> \in targets THEN update.groups[q].rows[m]
                                                 ELSE base.groups[q].rows[m]]
           g == merged.groups
<1>1. /\ base.groups \in Groups /\ update.groups \in Groups
      /\ update.generated \in BOOLEAN
  BY DEF Reports
<1>2. /\ merged = [generated |-> update.generated, groups |-> g]
      /\ DOMAIN g = DOMAIN base.groups \union DOMAIN update.groups
      /\ g = [q \in DOMAIN g |-> g[q]]
      /\ merged.generated = update.generated
  <2>1. /\ DOMAIN g = DOMAIN base.groups \union DOMAIN update.groups
        /\ g = [q \in DOMAIN base.groups \union DOMAIN update.groups |-> g[q]]
    BY DEF MergeModels, Reports
  <2>2. /\ merged = [generated |-> update.generated, groups |-> g]
        /\ merged.generated = update.generated
    <3> DEFINE h ==
          [q \in DOMAIN base.groups \union DOMAIN update.groups |->
             IF q \notin DOMAIN base.groups THEN update.groups[q]
             ELSE [base.groups[q] EXCEPT !.rows =
                     [m \in Models |->
                        IF <<q, m>> \in targets
                          THEN update.groups[q].rows[m] ELSE @[m]]]]
    <3>1. merged = [update EXCEPT !.groups = h]
      BY DEF MergeModels
    <3> HIDE DEF h, merged
    <3>2. QED
      BY <3>1 DEF Reports
  <2> HIDE DEF merged
  <2>3. QED
    BY <2>1, <2>2
<1>3. ASSUME NEW q \in DOMAIN base.groups
      PROVE  g[q] = [revision |-> base.groups[q].revision, rows |-> rows(q),
                     failed |-> base.groups[q].failed]
  <2>1. g[q] = [base.groups[q] EXCEPT !.rows =
                  [m \in Models |-> IF <<q, m>> \in targets
                                      THEN update.groups[q].rows[m] ELSE @[m]]]
    BY DEF MergeModels, Reports
  <2>2. base.groups[q] \in Group
    BY <1>1, GroupsType
  <2>3. QED
    BY <2>1, <2>2 DEF Group
<1>4. ASSUME NEW q \in DOMAIN update.groups, q \notin DOMAIN base.groups
      PROVE  g[q] = update.groups[q]
  BY <1>4 DEF MergeModels, Reports
<1>5. ASSUME NEW q \in DOMAIN g PROVE g[q] \in Group
  <2>1. CASE q \notin DOMAIN base.groups
    BY <1>1, <1>2, <1>4, <2>1, GroupsType
  <2>2. CASE q \in DOMAIN base.groups
    <3>1. base.groups[q] \in Group
      BY <1>1, <2>2, GroupsType
    <3>2. q \in DOMAIN update.groups => update.groups[q] \in Group
      BY <1>1, GroupsType
    <3>3. rows(q) \in [Models -> 0..MaxRevision]
      BY <2>2, <3>1, <3>2 DEF Group
    <3>4. g[q] = [revision |-> base.groups[q].revision, rows |-> rows(q),
                  failed |-> base.groups[q].failed]
      BY <1>3, <2>2
    <3> HIDE DEF rows, merged
    <3>5. QED
      BY <3>1, <3>3, <3>4 DEF Group
  <2>3. QED
    BY <2>1, <2>2
<1>6. merged \in Reports
  <2> HIDE DEF merged
  <2>1. DOMAIN g \in SUBSET Providers
    BY <1>1, <1>2, GroupsType
  <2>2. g \in [DOMAIN g -> Group]
    BY <1>2, <1>5
  <2>3. g \in Groups
    BY <2>1, <2>2, GroupsType
  <2>4. QED
    BY <1>1, <1>2, <2>3 DEF Reports
<1>7. \A q \in DOMAIN base.groups :
        /\ g[q].revision = base.groups[q].revision
        /\ g[q].failed = base.groups[q].failed
        /\ \A m \in Models : g[q].rows[m] = rows(q)[m]
  <2> SUFFICES ASSUME NEW q \in DOMAIN base.groups
               PROVE  /\ g[q].revision = base.groups[q].revision
                      /\ g[q].failed = base.groups[q].failed
                      /\ \A m \in Models : g[q].rows[m] = rows(q)[m]
    OBVIOUS
  <2>1. g[q] = [revision |-> base.groups[q].revision, rows |-> rows(q),
                failed |-> base.groups[q].failed]
    BY <1>3
  <2> HIDE DEF g, rows
  <2>2. QED
    BY <2>1
<1>8. QED
  BY <1>2, <1>4, <1>6, <1>7

-----------------------------------------------------------------------------
(***************************************************************************)
(* The steps.  The requests of the administrator differ in the             *)
(* configuration they ask for, the checks in what they are about.          *)
(***************************************************************************)
IsWanted(wanted) ==
  /\ DOMAIN wanted \subseteq Providers
  /\ \A p \in DOMAIN wanted : wanted[p].url \in Urls /\ wanted[p].mode \in Modes

\* An entry of the configuration to install is the present one, or has the new
\* revision.
LEMMA ReconcileIs ==
  ASSUME TypeOK, NEW wanted, IsWanted(wanted), lastRevision < MaxRevision
  PROVE  /\ Reconcile(wanted) \in Config
         /\ \A p \in DOMAIN Reconcile(wanted) :
              \/ p \in DOMAIN cfg /\ Reconcile(wanted)[p] = cfg[p]
              \/ Reconcile(wanted)[p].revision = lastRevision + 1
<1> DEFINE R == Reconcile(wanted)
<1>1. /\ DOMAIN R = DOMAIN wanted
      /\ R = [p \in DOMAIN wanted |-> R[p]]
  BY DEF Reconcile
<1>2. \A p \in DOMAIN cfg : cfg[p] \in Entry
  BY ConfigType DEF TypeOK
<1>3. lastRevision + 1 \in Connections
  BY SnapshotAssumption DEF TypeOK, Connections
<1>4. ASSUME NEW p \in DOMAIN wanted
      PROVE  /\ R[p] \in Entry
             /\ \/ p \in DOMAIN cfg /\ R[p] = cfg[p]
                \/ R[p].revision = lastRevision + 1
  <2> DEFINE w == wanted[p]
             same == p \in DOMAIN cfg /\ cfg[p].url = w.url
  <2>1. R[p] = IF same /\ cfg[p].mode = w.mode THEN cfg[p]
               ELSE [url |-> w.url, mode |-> w.mode,
                     revision |-> lastRevision + 1,
                     since |-> IF same THEN cfg[p].since ELSE lastRevision + 1]
    BY DEF Reconcile, Revision
  <2>2. CASE same /\ cfg[p].mode = w.mode
    BY <1>2, <2>1, <2>2
  <2>3. CASE ~(same /\ cfg[p].mode = w.mode)
    <3>1. (IF same THEN cfg[p].since ELSE lastRevision + 1) \in Connections
      BY <1>2, <1>3 DEF Entry
    <3>2. w.url \in Urls /\ w.mode \in Modes
      BY DEF IsWanted
    <3> HIDE DEF w, same
    <3>3. QED
      BY <1>3, <2>1, <2>3, <3>1, <3>2 DEF Entry
  <2>4. QED
    BY <2>2, <2>3
<1>5. DOMAIN wanted \in SUBSET Providers
  BY DEF IsWanted
<1> HIDE DEF R
<1>6. R \in [DOMAIN wanted -> Entry]
  BY <1>1, <1>4
<1>7. R \in Config
  BY <1>5, <1>6, ConfigType
<1>8. QED
  BY <1>1, <1>4, <1>7 DEF R

\* Every request of the administrator asks for a configuration that could be
\* written down.
LEMMA EditIsWanted ==
  ASSUME TypeOK,
         \/ UpdateSettings
         \/ \E p \in Providers, w \in Settings : UpsertProvider(p, w)
         \/ \E p \in Providers : DeleteProvider(p)
         \/ \E S \in SUBSET Providers, mode \in Modes : BatchProviders(S, mode)
         \/ \E S \in SUBSET Providers, w \in Settings : ImportConfig(S, w)
  PROVE  \E wanted : IsWanted(wanted) /\ Replace(wanted)
<1>1. /\ DOMAIN cfg \subseteq Providers
      /\ \A p \in DOMAIN cfg : cfg[p].url \in Urls /\ cfg[p].mode \in Modes
  BY ConfigType DEF TypeOK, Entry
<1>2. CASE UpdateSettings
  BY <1>1, <1>2 DEF UpdateSettings, IsWanted
<1>3. ASSUME NEW p \in Providers, NEW w \in Settings, UpsertProvider(p, w)
      PROVE  \E wanted : IsWanted(wanted) /\ Replace(wanted)
  <2>1. IsWanted(Overlay(cfg, [q \in {p} |-> w]))
    BY <1>1 DEF IsWanted, Overlay, Settings
  <2>2. QED
    BY <1>3, <2>1 DEF UpsertProvider
<1>4. ASSUME NEW p \in Providers, DeleteProvider(p)
      PROVE  \E wanted : IsWanted(wanted) /\ Replace(wanted)
  <2>1. IsWanted(Only(cfg, Providers \ {p}))
    BY <1>1 DEF IsWanted, Only
  <2>2. QED
    BY <1>4, <2>1 DEF DeleteProvider
<1>5. ASSUME NEW S \in SUBSET Providers, NEW mode \in Modes,
             BatchProviders(S, mode)
      PROVE  \E wanted : IsWanted(wanted) /\ Replace(wanted)
  <2> DEFINE g == [p \in S |-> [url |-> cfg[p].url, mode |-> mode]]
  <2>1. /\ DOMAIN g = S
        /\ \A p \in S : g[p].url \in Urls /\ g[p].mode \in Modes
    BY <1>1, <1>5 DEF BatchProviders
  <2>2. Replace(Overlay(cfg, g))
    BY <1>5 DEF BatchProviders
  <2> HIDE DEF g
  <2>3. IsWanted(Overlay(cfg, g))
    BY <1>1, <2>1 DEF IsWanted, Overlay
  <2>4. QED
    BY <2>2, <2>3
<1>6. ASSUME NEW S \in SUBSET Providers, NEW w \in Settings, ImportConfig(S, w)
      PROVE  \E wanted : IsWanted(wanted) /\ Replace(wanted)
  <2>1. IsWanted([p \in S |-> w])
    BY DEF IsWanted, Settings
  <2>2. QED
    BY <1>6, <2>1 DEF ImportConfig
<1>7. QED
  BY <1>2, <1>3, <1>4, <1>5, <1>6

\* Every check is about the whole configuration, one provider of it, or models
\* of providers that are on.
LEMMA StartIsAsked ==
  ASSUME TypeOK,
         \/ StartAll
         \/ \E p \in Providers : StartProvider(p)
         \/ \E targets \in SUBSET (Providers \X Models) : StartModels(targets)
  PROVE  \E kind, scope, targets :
           Asked(kind, cfg, scope, targets) /\ StartRun(kind, scope, targets)
<1>1. CASE StartAll
  BY <1>1 DEF StartAll, Asked
<1>2. ASSUME NEW p \in Providers, StartProvider(p)
      PROVE  \E kind, scope, targets :
               /\ Asked(kind, cfg, scope, targets)
               /\ StartRun(kind, scope, targets)
  <2>1. Asked("provider", cfg, {p}, ({p} \intersect On(cfg)) \X Models)
    BY DEF Asked
  <2>2. QED
    BY <1>2, <2>1 DEF StartProvider
<1>3. ASSUME NEW targets \in SUBSET (Providers \X Models), StartModels(targets)
      PROVE  \E kind, scope, t :
               Asked(kind, cfg, scope, t) /\ StartRun(kind, scope, t)
  <2>1. targets \subseteq On(cfg) \X Models
    BY <1>3 DEF StartModels, Targeted
  <2>2. Asked("models", cfg, Targeted(targets), targets)
    BY <2>1 DEF Asked
  <2>3. QED
    BY <1>3, <2>2 DEF StartModels
<1>4. QED
  BY <1>1, <1>2, <1>3

\* What a check is about has its type.
LEMMA AskedType ==
  ASSUME NEW c \in Config, NEW kind, NEW scope, NEW targets,
         Asked(kind, c, scope, targets)
  PROVE  /\ kind \in {"all", "provider", "models"}
         /\ scope \subseteq Providers
         /\ targets \in SUBSET (Providers \X Models)
         /\ \A q, m : <<q, m>> \in targets => q \in scope /\ q \in On(c)
<1>1. DOMAIN c \subseteq Providers /\ On(c) \subseteq DOMAIN c
  BY ConfigType DEF On
<1>2. CASE kind = "all" /\ scope = DOMAIN c /\ targets = On(c) \X Models
  BY <1>1, <1>2
<1>3. ASSUME NEW p \in Providers, kind = "provider", scope = {p},
             targets = ({p} \intersect On(c)) \X Models
      PROVE  /\ kind \in {"all", "provider", "models"}
             /\ scope \subseteq Providers
             /\ targets \in SUBSET (Providers \X Models)
             /\ \A q, m : <<q, m>> \in targets => q \in scope /\ q \in On(c)
  BY <1>3
<1>4. CASE /\ kind = "models"
           /\ targets \subseteq On(c) \X Models
           /\ scope = Targeted(targets)
  BY <1>1, <1>4 DEF Targeted
<1>5. QED
  BY <1>2, <1>3, <1>4 DEF Asked

\* The report before a run and the report of the run, at the step that merges
\* them.
LEMMA PreviousIs ==
  ASSUME TypeOK, RunInv, run.pc = "previous"
  PROVE  /\ Previous \in Reports
         /\ DOMAIN Previous.groups = Shown(run.cfg)
         /\ \A p \in Shown(run.cfg) :
              Previous.groups[p].revision = run.cfg[p].revision
         /\ run.value \in Reports
         /\ run.value.generated
         /\ DOMAIN run.value.groups = Shown(run.cfg) \intersect run.scope
         /\ \A p \in DOMAIN run.value.groups :
              run.value.groups[p].revision = run.cfg[p].revision
         /\ \A q \in DOMAIN Previous.groups : \A m \in Models :
              <<q, m>> \in run.targets => q \in DOMAIN run.value.groups
<1> DEFINE c == Only(run.cfg, run.scope)
<1>1. run.cfg \in Config /\ latest \in Reports /\ run.value \in Reports
  BY DEF TypeOK
<1>2. /\ Previous \in Reports
      /\ DOMAIN Previous.groups = Shown(run.cfg)
      /\ \A p \in Shown(run.cfg) :
           Previous.groups[p].revision = run.cfg[p].revision
  <2> DEFINE P == WithConfig(latest, run.cfg)
  <2>1. P \in Reports
    BY <1>1, WithConfigType
  <2>2. /\ DOMAIN P.groups = Shown(run.cfg)
        /\ \A p \in Shown(run.cfg) :
             \/ P.groups[p].revision = run.cfg[p].revision
             \/ P.groups[p] = Blank(run.cfg[p].revision)
    BY <1>1, WithConfigIs
  <2> HIDE DEF P
  <2>3. \A revision : Blank(revision).revision = revision
    BY DEF Blank
  <2>4. \A p \in Shown(run.cfg) : P.groups[p].revision = run.cfg[p].revision
    BY <2>2, <2>3
  <2>5. QED
    BY <2>1, <2>2, <2>4 DEF Previous, P
<1>3. run.value = Build(c, run.targets, run.bad)
  BY DEF RunInv
<1>4. /\ c \in Config
      /\ DOMAIN c = DOMAIN run.cfg \intersect run.scope
      /\ \A p \in DOMAIN c : c[p] = run.cfg[p]
  <2>1. /\ Only(run.cfg, run.scope) \in Config
        /\ DOMAIN Only(run.cfg, run.scope) = DOMAIN run.cfg \intersect run.scope
        /\ \A p \in DOMAIN run.cfg \intersect run.scope :
             Only(run.cfg, run.scope)[p] = run.cfg[p]
    BY <1>1, OnlyIs
  <2> HIDE DEF c
  <2>2. c = Only(run.cfg, run.scope)
    BY DEF c
  <2>3. QED
    BY <2>1, <2>2
<1>5. Shown(c) = Shown(run.cfg) \intersect run.scope
  BY <1>4 DEF Shown
<1> HIDE DEF c
<1>6. /\ run.value.generated
      /\ DOMAIN run.value.groups = Shown(c)
      /\ \A p \in Shown(c) : run.value.groups[p].revision = c[p].revision
  <2> DEFINE b == Build(c, run.targets, run.bad)
  <2>1. b.generated /\ DOMAIN b.groups = Shown(c)
    BY BuildIs
  <2>2. ASSUME NEW p \in Shown(c)
        PROVE  b.groups[p].revision = c[p].revision
    BY BuildIs
  <2> HIDE DEF b
  <2>3. run.value = b
    BY <1>3 DEF b
  <2>4. QED
    BY <2>1, <2>2, <2>3
<1>7. \A q, m : <<q, m>> \in run.targets => q \in run.scope
  BY <1>1, AskedType DEF RunInv
<1>8. \A p \in Shown(c) : c[p] = run.cfg[p]
  BY <1>4 DEF Shown
<1>9. QED
  BY <1>1, <1>2, <1>5, <1>6, <1>7, <1>8

LEMMA TypeInit == Init => TypeOK
<1> SUFFICES ASSUME Init PROVE TypeOK
  OBVIOUS
<1> DEFINE e == [url |-> FirstUrl, mode |-> "on", revision |-> 1, since |-> 1]
<1>1. 1 \in Connections
  BY SnapshotAssumption DEF Connections
<1>2. e \in Entry
  BY <1>1, SnapshotAssumption DEF Entry, Modes
<1>3. cfg \in [Providers -> Entry]
  BY <1>2 DEF Init
<1>4. cfg \in Config /\ saved \in Config
  BY <1>3, ConfigType DEF Init
<1>5. QED
  BY <1>1, <1>4, EmptyType DEF Init, TypeOK, IdleEdit, IdleRun

LEMMA TypeStep == TypeOK /\ RunInv /\ [Next]_vars => TypeOK'
<1> SUFFICES ASSUME TypeOK, RunInv, [Next]_vars PROVE TypeOK'
  OBVIOUS
<1> DEFINE Edits == [pc : {"idle", "save", "install", "load", "store", "push"},
                     cfg : Config, value : Reports]
           Runs == [pc : {"idle", "probe", "previous", "save", "incidents",
                          "publish"},
                    cfg : Config, kind : {"all", "provider", "models"},
                    scope : SUBSET Providers,
                    targets : SUBSET (Providers \X Models),
                    bad : SUBSET Providers, value : Reports]
<1>a. /\ cfg \in Config /\ saved \in Config /\ lastRevision \in Connections
      /\ configMu \in {"free", "edit", "run"} /\ edit \in Edits /\ run \in Runs
      /\ latest \in Reports /\ pushed \in Reports
  BY DEF TypeOK
<1>b. IdleEdit \in Edits /\ IdleRun \in Runs
  BY EmptyType DEF IdleEdit, IdleRun
<1>c. ASSUME edit' \in Edits, run' \in Runs,
             cfg' \in Config, saved' \in Config,
             lastRevision' \in Connections, latest' \in Reports,
             configMu' \in {"free", "edit", "run"}, pushed' \in Reports,
             incidents' = incidents
      PROVE  TypeOK'
  BY <1>c DEF TypeOK
<1>1. ASSUME NEW wanted, IsWanted(wanted), Replace(wanted) PROVE TypeOK'
  <2>1. Reconcile(wanted) \in Config
    BY <1>1, ReconcileIs DEF Replace
  <2>2. edit' \in Edits
    BY <1>1, <2>1, EmptyType DEF Replace
  <2>3. lastRevision' \in Connections
    BY <1>1, <1>a, SnapshotAssumption DEF Replace, Connections
  <2>4. QED
    BY <1>1, <1>a, <1>c, <2>2, <2>3 DEF Replace
<1>2. CASE SaveRuntimeConfig
  BY <1>2, <1>a, <1>b, <1>c DEF SaveRuntimeConfig, Answer
<1>3. CASE Install
  BY <1>3, <1>a, <1>b, <1>c DEF Install
<1>4. CASE LoadLatest
  <2>1. WithConfig(latest, cfg) \in Reports
    BY <1>a, WithConfigType
  <2>2. edit' \in Edits
    BY <1>4, <1>a, <1>b, <2>1 DEF LoadLatest, Answer
  <2>3. QED
    BY <1>4, <1>a, <1>c, <2>2 DEF LoadLatest, Answer
<1>5. CASE StoreLatest
  BY <1>5, <1>a, <1>c DEF StoreLatest
<1>6. CASE PushLatest
  BY <1>6, <1>a, <1>b, <1>c DEF PushLatest, Answer
<1>7. ASSUME NEW kind, NEW scope, NEW targets,
             Asked(kind, cfg, scope, targets), StartRun(kind, scope, targets)
      PROVE  TypeOK'
  <2>1. run' \in Runs
    BY <1>7, <1>a, AskedType, EmptyType DEF StartRun
  <2>2. QED
    BY <1>7, <1>a, <1>c, <2>1 DEF StartRun
<1>8. ASSUME NEW bad \in SUBSET Providers, Probe(bad) PROVE TypeOK'
  <2>1. Build(Only(run.cfg, run.scope), run.targets, bad) \in Reports
    BY <1>a, OnlyIs, BuildType
  <2>2. run' \in Runs
    BY <1>8, <1>a, <2>1 DEF Probe
  <2>3. QED
    BY <1>8, <1>a, <1>c, <2>2 DEF Probe
<1>9. CASE ReadPrevious
  <2>1. /\ Previous \in Reports /\ run.value \in Reports
        /\ \A q \in DOMAIN Previous.groups : \A m \in Models :
             <<q, m>> \in run.targets => q \in DOMAIN run.value.groups
    BY <1>9, PreviousIs DEF ReadPrevious
  <2>2. MergeModels(Previous, run.value, run.targets) \in Reports
    BY <2>1, MergeModelsIs
  <2>3. MergeProvider(Previous, run.value, CHOOSE p \in run.scope : TRUE)
          \in Reports
    BY <2>1, MergeProviderIs
  <2>4. run' \in Runs
    BY <1>9, <1>a, <2>2, <2>3 DEF ReadPrevious
  <2>5. QED
    BY <1>9, <1>a, <1>c, <2>4 DEF ReadPrevious
<1>10. CASE RecordCheck
  <2>1. Projected \in Reports
    BY <1>a, WithConfigType DEF Projected
  <2>2. run' \in Runs
    BY <1>10, <1>a, <2>1 DEF RecordCheck
  <2>3. QED
    BY <1>10, <1>a, <1>c, <2>1, <2>2 DEF RecordCheck
<1>11. CASE ObserveIncidents
  <2>1. run' \in Runs
    BY <1>11, <1>a DEF ObserveIncidents
  <2> DEFINE Incidents == [provider : Providers,
                           model : Models \union {ModelList},
                           revision : Connections]
  <2>2. incidents \in SUBSET Incidents
    BY DEF TypeOK
  <2>3. ASSUME NEW t \in Observed
        PROVE  [provider |-> t[1], model |-> t[2],
                revision |-> run.cfg[t[1]].revision] \in Incidents
    <3>1. t[1] \in Providers /\ t[2] \in Models \union {ModelList}
      BY <1>a DEF Observed, Observations, Targeted
    <3>2. run.cfg[t[1]].revision \in Connections
      BY <1>a, ConfigType DEF Observed, Entry
    <3>3. QED
      BY <3>1, <3>2
  <2> DEFINE Of(t) == [provider |-> t[1], model |-> t[2],
                       revision |-> run.cfg[t[1]].revision]
  <2>4. \/ incidents' = incidents
        \/ \E down \in SUBSET Observed :
             incidents' \subseteq incidents \union {Of(t) : t \in down}
    BY <1>11 DEF ObserveIncidents
  <2>5. \A t \in Observed : Of(t) \in Incidents
    BY <2>3
  <2> HIDE DEF Of, Incidents
  <2>6. incidents' \in SUBSET Incidents
    BY <2>2, <2>4, <2>5
  <2>7. QED
    BY <1>11, <1>a, <2>1, <2>6 DEF ObserveIncidents, TypeOK, Incidents
<1>12. CASE Publish
  BY <1>12, <1>a, <1>b, <1>c DEF Publish
<1>13. CASE AbandonRun
  BY <1>13, <1>a, <1>b, <1>c DEF AbandonRun
<1>14. CASE Restart
  BY <1>14, <1>a, <1>b, <1>c, EmptyType DEF Restart
<1>15. CASE UNCHANGED vars
  BY <1>15, <1>a, <1>c DEF vars
<1>16. QED
  BY <1>1, <1>2, <1>3, <1>4, <1>5, <1>6, <1>7, <1>8, <1>9, <1>10, <1>11, <1>12,
     <1>13, <1>14, <1>15, EditIsWanted, StartIsAsked
     DEF Next, EditStep, RunStep

\* The report of a run has the revisions of the configuration the run took.
LEMMA BuildOfRun ==
  ASSUME NEW c \in Config, NEW scope, NEW targets, NEW bad
  PROVE  LET built == Build(Only(c, scope), targets, bad)
         IN /\ built.generated
            /\ \A p \in DOMAIN built.groups :
                 p \in DOMAIN c /\ built.groups[p].revision = c[p].revision
<1> DEFINE d == Only(c, scope)
           built == Build(d, targets, bad)
<1>1. /\ DOMAIN d = DOMAIN c \intersect scope
      /\ \A p \in DOMAIN c \intersect scope : d[p] = c[p]
  BY OnlyIs
<1> HIDE DEF d
<1>2. /\ built.generated
      /\ DOMAIN built.groups = Shown(d)
      /\ \A p \in Shown(d) : built.groups[p].revision = d[p].revision
  BY BuildIs
<1> HIDE DEF built
<1>3. Shown(d) \subseteq DOMAIN d
  BY DEF Shown
<1>4. /\ built.generated
      /\ \A p \in DOMAIN built.groups :
           p \in DOMAIN c /\ built.groups[p].revision = c[p].revision
  BY <1>1, <1>2, <1>3
<1>5. QED
  BY <1>4 DEF built, d

\* So has the report it is merged with, and their merge.
LEMMA MergedOfRun ==
  ASSUME TypeOK, RunInv, ReadPrevious
  PROVE  /\ run'.value.generated
         /\ \A p \in DOMAIN run'.value.groups :
              /\ p \in DOMAIN run.cfg
              /\ run'.value.groups[p].revision = run.cfg[p].revision
<1>1. /\ Previous \in Reports /\ run.value \in Reports /\ run.value.generated
      /\ DOMAIN Previous.groups = Shown(run.cfg)
      /\ \A p \in Shown(run.cfg) :
           Previous.groups[p].revision = run.cfg[p].revision
      /\ DOMAIN run.value.groups \subseteq Shown(run.cfg)
      /\ \A p \in DOMAIN run.value.groups :
           run.value.groups[p].revision = run.cfg[p].revision
      /\ \A q \in DOMAIN Previous.groups : \A m \in Models :
           <<q, m>> \in run.targets => q \in DOMAIN run.value.groups
  BY PreviousIs DEF ReadPrevious
<1>2. Shown(run.cfg) \subseteq DOMAIN run.cfg
  BY DEF Shown
<1>a. Previous \in Reports /\ run.value \in Reports
  BY <1>1
<1>b. \A q \in DOMAIN Previous.groups : \A m \in Models :
        <<q, m>> \in run.targets => q \in DOMAIN run.value.groups
  BY <1>1
<1>3. CASE run.kind = "models"
  <2> DEFINE merged == MergeModels(Previous, run.value, run.targets)
  <2>1. /\ merged.generated = run.value.generated
        /\ DOMAIN merged.groups = DOMAIN Previous.groups \union DOMAIN run.value.groups
        /\ \A q \in DOMAIN Previous.groups :
             merged.groups[q].revision = Previous.groups[q].revision
    BY <1>a, <1>b, MergeModelsIs
  <2>2. run'.value = merged
    BY <1>3 DEF ReadPrevious, TypeOK
  <2> HIDE DEF merged
  <2>3. QED
    BY <1>1, <1>2, <2>1, <2>2
<1>4. CASE run.kind # "models"
  <2> DEFINE merged == MergeProvider(Previous, run.value,
                                     CHOOSE p \in run.scope : TRUE)
  <2>1. /\ merged.generated = run.value.generated
        /\ \A q \in DOMAIN run.value.groups :
             q \in DOMAIN merged.groups /\ merged.groups[q] = run.value.groups[q]
        /\ \A q \in DOMAIN merged.groups \ DOMAIN run.value.groups :
             q \in DOMAIN Previous.groups /\ merged.groups[q] = Previous.groups[q]
    BY <1>a, MergeProviderIs
  <2>2. run'.value = merged
    BY <1>4 DEF ReadPrevious, TypeOK
  <2> HIDE DEF merged
  <2>3. QED
    BY <1>1, <1>2, <2>1, <2>2
<1>5. QED
  BY <1>3, <1>4

LEMMA RunInvStep == TypeOK /\ RunInv /\ LockInv /\ [Next]_vars => RunInv'
<1> SUFFICES ASSUME TypeOK, RunInv, LockInv, [Next]_vars PROVE RunInv'
  OBVIOUS
<1>a. ASSUME run' = run, latest' = latest PROVE RunInv'
  BY <1>a DEF RunInv
<1>b. ASSUME run'.pc = "idle", latest' = latest PROVE RunInv'
  BY <1>b DEF RunInv
<1>c. IdleRun.pc = "idle"
  BY DEF IdleRun
<1>1. ASSUME NEW wanted, IsWanted(wanted), Replace(wanted) PROVE RunInv'
  BY <1>1, <1>a DEF Replace
<1>2. CASE SaveRuntimeConfig
  BY <1>2, <1>a DEF SaveRuntimeConfig
<1>3. CASE Install
  BY <1>3, <1>a DEF Install
<1>4. CASE LoadLatest
  BY <1>4, <1>a DEF LoadLatest
<1>5. CASE StoreLatest
  BY <1>5 DEF StoreLatest, RunInv
<1>6. CASE PushLatest
  BY <1>6, <1>a DEF PushLatest
<1>7. ASSUME NEW kind, NEW scope, NEW targets,
             Asked(kind, cfg, scope, targets), StartRun(kind, scope, targets)
      PROVE  RunInv'
  BY <1>7 DEF StartRun, RunInv
<1>8. ASSUME NEW bad \in SUBSET Providers, Probe(bad) PROVE RunInv'
  <2>1. /\ run'.pc = IF run.kind = "all" THEN "save" ELSE "previous"
        /\ run'.kind = run.kind /\ run'.cfg = run.cfg /\ run'.bad = bad
        /\ run'.scope = run.scope /\ run'.targets = run.targets
        /\ run'.value = Build(Only(run.cfg, run.scope), run.targets, bad)
        /\ latest' = latest /\ run.pc = "probe"
    BY <1>8 DEF Probe, TypeOK
  <2>2. run.cfg \in Config
    BY DEF TypeOK
  <2>3. /\ run'.value.generated
        /\ \A p \in DOMAIN run'.value.groups :
             /\ p \in DOMAIN run.cfg
             /\ run'.value.groups[p].revision = run.cfg[p].revision
    BY <2>1, <2>2, BuildOfRun
  <2>4. QED
    BY <2>1, <2>3 DEF RunInv
<1>9. CASE ReadPrevious
  <2>1. /\ run'.pc = "save"
        /\ run'.kind = run.kind /\ run'.cfg = run.cfg
        /\ run'.scope = run.scope /\ run'.targets = run.targets
        /\ latest' = latest /\ run.pc = "previous"
    BY <1>9 DEF ReadPrevious, TypeOK
  <2>2. QED
    BY <1>9, <2>1, MergedOfRun DEF RunInv
<1>10. CASE RecordCheck
  <2>1. /\ run'.pc = "incidents" /\ run.pc = "save"
        /\ run'.kind = run.kind /\ run'.cfg = run.cfg
        /\ run'.scope = run.scope /\ run'.targets = run.targets
        /\ latest' = WithConfig(run.value, cfg)
    BY <1>10 DEF RecordCheck, TypeOK, Projected
  <2>2. run.value \in Reports
    BY DEF TypeOK
  <2>3. latest'.generated
    BY <2>1, <2>2, WithConfigIs DEF RunInv
  <2>4. QED
    BY <2>1, <2>3 DEF RunInv
<1>11. CASE ObserveIncidents
  <2>1. /\ run'.pc = "publish" /\ run.pc = "incidents"
        /\ run'.kind = run.kind /\ run'.cfg = run.cfg
        /\ run'.scope = run.scope /\ run'.targets = run.targets
        /\ latest' = latest
    BY <1>11 DEF ObserveIncidents, TypeOK
  <2>2. QED
    BY <2>1 DEF RunInv
<1>12. CASE Publish
  BY <1>12, <1>b, <1>c DEF Publish
<1>13. CASE AbandonRun
  BY <1>13, <1>b, <1>c DEF AbandonRun
<1>14. CASE Restart
  BY <1>14, <1>b, <1>c DEF Restart
<1>15. CASE UNCHANGED vars
  BY <1>15, <1>a DEF vars
<1>16. QED
  BY <1>1, <1>2, <1>3, <1>4, <1>5, <1>6, <1>7, <1>8, <1>9, <1>10, <1>11, <1>12,
     <1>13, <1>14, <1>15, EditIsWanted, StartIsAsked
     DEF Next, EditStep, RunStep

LEMMA LockStep == TypeOK /\ LockInv /\ [Next]_vars => LockInv'
<1> SUFFICES ASSUME TypeOK, LockInv, [Next]_vars PROVE LockInv'
  OBVIOUS
<1>a. /\ cfg \in Config /\ latest \in Reports /\ run.value \in Reports
      /\ edit.value \in Reports
  BY DEF TypeOK
<1>b. IdleRun.pc = "idle" /\ IdleEdit.pc = "idle"
  BY DEF IdleRun, IdleEdit
<1>1. ASSUME NEW wanted, IsWanted(wanted), Replace(wanted) PROVE LockInv'
  BY <1>1 DEF Replace, LockInv
<1>2. CASE SaveRuntimeConfig
  BY <1>2, <1>b DEF SaveRuntimeConfig, Answer, LockInv, TypeOK
<1>3. CASE Install
  BY <1>3 DEF Install, LockInv, TypeOK
<1>4. CASE LoadLatest
  BY <1>4, <1>b DEF LoadLatest, Answer, LockInv, TypeOK
<1>5. CASE StoreLatest
  <2>1. /\ edit.pc = "store" /\ edit'.pc = "push" /\ edit'.value = edit.value
        /\ UNCHANGED <<cfg, configMu, run>>
    BY <1>5 DEF StoreLatest, TypeOK
  <2>2. WithConfig(edit.value, cfg) = edit.value
    BY <1>a, <2>1, WithConfigTwice DEF LockInv
  <2>3. QED
    BY <2>1, <2>2 DEF LockInv
<1>6. CASE PushLatest
  BY <1>6, <1>b DEF PushLatest, Answer, LockInv
<1>7. ASSUME NEW kind, NEW scope, NEW targets, StartRun(kind, scope, targets)
      PROVE  LockInv'
  BY <1>7 DEF StartRun, LockInv
<1>8. ASSUME NEW bad \in SUBSET Providers, Probe(bad) PROVE LockInv'
  <2>1. run'.pc \notin {"incidents", "publish"}
    BY <1>8 DEF Probe, TypeOK
  <2>2. QED
    BY <1>8, <2>1 DEF Probe, LockInv
<1>9. CASE ReadPrevious
  <2>1. run'.pc = "save"
    BY <1>9 DEF ReadPrevious, TypeOK
  <2>2. QED
    BY <1>9, <2>1 DEF ReadPrevious, LockInv
<1>10. CASE RecordCheck
  <2>1. /\ configMu = "free" /\ configMu' = "run"
        /\ run'.value = WithConfig(run.value, cfg)
        /\ UNCHANGED <<cfg, edit>>
    BY <1>10 DEF RecordCheck, Projected, TypeOK
  <2>2. run'.value = WithConfig(run'.value, cfg)
    BY <1>a, <2>1, WithConfigTwice
  <2>3. QED
    BY <2>1, <2>2 DEF LockInv
<1>11. CASE ObserveIncidents
  <2>1. run.pc = "incidents" /\ run'.value = run.value
    BY <1>11 DEF ObserveIncidents, TypeOK
  <2>2. QED
    BY <1>11, <2>1 DEF ObserveIncidents, LockInv
<1>12. CASE Publish
  BY <1>12, <1>b DEF Publish, LockInv
<1>13. CASE AbandonRun
  BY <1>13, <1>b DEF AbandonRun, LockInv
<1>14. CASE Restart
  BY <1>14, <1>b DEF Restart, LockInv
<1>15. CASE UNCHANGED vars
  BY <1>15 DEF vars, LockInv
<1>16. QED
  BY <1>1, <1>2, <1>3, <1>4, <1>5, <1>6, <1>7, <1>8, <1>9, <1>10, <1>11, <1>12,
     <1>13, <1>14, <1>15, EditIsWanted, StartIsAsked
     DEF Next, EditStep, RunStep

LEMMA FreshStep ==
  TypeOK /\ AgreeInv /\ LockInv /\ FreshInv /\ [Next]_vars => FreshInv'
<1> SUFFICES ASSUME TypeOK, AgreeInv, LockInv, FreshInv, [Next]_vars
             PROVE  FreshInv'
  OBVIOUS
<1>a. ASSUME edit'.pc \notin {"save", "install"} PROVE FreshInv'
  BY <1>a DEF FreshInv
<1>b. IdleEdit.pc = "idle" /\ IdleRun.cfg = Nothing /\ DOMAIN Nothing = {}
  BY EmptyType DEF IdleRun, IdleEdit
<1>c. ASSUME edit' = edit, cfg' = cfg, latest' = latest,
             run'.cfg \in {run.cfg, cfg, Nothing}
      PROVE  FreshInv'
  BY <1>b, <1>c DEF FreshInv
<1>1. ASSUME NEW wanted, IsWanted(wanted), Replace(wanted) PROVE FreshInv'
  <2> DEFINE R == Reconcile(wanted)
  <2>1. \A p \in DOMAIN R : \/ p \in DOMAIN cfg /\ R[p] = cfg[p]
                            \/ R[p].revision = lastRevision + 1
    BY <1>1, ReconcileIs DEF Replace
  <2>2. /\ \A c \in {cfg, run.cfg} : \A p \in DOMAIN c :
             c[p].revision \in Nat /\ c[p].revision <= lastRevision
        /\ \A p \in DOMAIN latest.groups :
             /\ latest.groups[p].revision \in Nat
             /\ latest.groups[p].revision <= lastRevision
        /\ lastRevision \in Nat
    <3>1. cfg \in Config /\ run.cfg \in Config /\ latest.groups \in Groups
      BY DEF TypeOK, Reports
    <3>2. /\ \A c \in {cfg, run.cfg} :
               \A p \in DOMAIN c : c[p].revision \in Nat
          /\ \A p \in DOMAIN latest.groups : latest.groups[p].revision \in Nat
          /\ lastRevision \in Nat
      BY <3>1, ConfigType, GroupsType, SnapshotAssumption
         DEF Entry, Group, Connections, TypeOK
    <3>3. QED
      BY <3>2 DEF AgreeInv, Copies, Values, Sound
  <2>3. edit'.cfg = R /\ UNCHANGED <<cfg, run, latest>>
    BY <1>1 DEF Replace
  <2> HIDE DEF R
  <2>4. ASSUME NEW p \in DOMAIN R, R[p].revision = lastRevision + 1
        PROVE  /\ \A c \in {cfg, run.cfg} :
                    p \in DOMAIN c => c[p].revision # R[p].revision
               /\ p \in DOMAIN latest.groups =>
                    latest.groups[p].revision # R[p].revision
    BY <2>2, <2>4
  <2>5. QED
    BY <2>1, <2>3, <2>4 DEF FreshInv
<1>2. CASE SaveRuntimeConfig
  <2>1. /\ edit.pc = "save"
        /\ edit'.cfg = edit.cfg \/ edit'.pc = "idle"
        /\ UNCHANGED <<cfg, run, latest>>
    BY <1>2, <1>b DEF SaveRuntimeConfig, Answer, TypeOK
  <2>2. QED
    BY <2>1 DEF FreshInv
<1>3. CASE Install
  <2>1. edit'.pc = "load"
    BY <1>3 DEF Install, TypeOK
  <2>2. QED
    BY <2>1, <1>a
<1>4. CASE LoadLatest
  <2>1. edit'.pc \in {"store", "idle"}
    BY <1>4, <1>b DEF LoadLatest, Answer, TypeOK
  <2>2. QED
    BY <2>1, <1>a
<1>5. CASE StoreLatest
  <2>1. edit'.pc = "push"
    BY <1>5 DEF StoreLatest, TypeOK
  <2>2. QED
    BY <2>1, <1>a
<1>6. CASE PushLatest
  BY <1>6, <1>a, <1>b DEF PushLatest, Answer
<1>7. ASSUME NEW kind, NEW scope, NEW targets, StartRun(kind, scope, targets)
      PROVE  FreshInv'
  BY <1>7, <1>c DEF StartRun
<1>8. ASSUME NEW bad \in SUBSET Providers, Probe(bad) PROVE FreshInv'
  BY <1>8, <1>c DEF Probe, TypeOK
<1>9. CASE ReadPrevious
  BY <1>9, <1>c DEF ReadPrevious, TypeOK
<1>10. CASE RecordCheck
  BY <1>10, <1>a DEF RecordCheck, LockInv
<1>11. CASE ObserveIncidents
  BY <1>11, <1>c DEF ObserveIncidents, TypeOK
<1>12. CASE Publish
  BY <1>12, <1>b, <1>c DEF Publish
<1>13. CASE AbandonRun
  BY <1>13, <1>b, <1>c DEF AbandonRun
<1>14. CASE Restart
  BY <1>14, <1>a, <1>b DEF Restart
<1>15. CASE UNCHANGED vars
  BY <1>15, <1>c DEF vars
<1>16. QED
  BY <1>1, <1>2, <1>3, <1>4, <1>5, <1>6, <1>7, <1>8, <1>9, <1>10, <1>11, <1>12,
     <1>13, <1>14, <1>15, EditIsWanted, StartIsAsked
     DEF Next, EditStep, RunStep

-----------------------------------------------------------------------------
(***************************************************************************)
(* Agreement of the copies and of the reports                              *)
(***************************************************************************)
\* A group measured for an entry of a configuration.
Measured(group, entry) ==
  /\ group.revision = entry.revision
  /\ group.failed \in {0, entry.since}
  /\ \A m \in Models : group.rows[m] \in {0, entry.since}

\* A report measured for a copy agrees with every other copy.
LEMMA MeasuredIsSound ==
  ASSUME AgreeInv, NEW value, NEW c \in Copies,
         \A p \in DOMAIN value.groups :
           p \in DOMAIN c /\ Measured(value.groups[p], c[p])
  PROVE  Sound(value)
<1>1. \A p \in DOMAIN value.groups : value.groups[p].revision <= lastRevision
  BY DEF AgreeInv, Measured
<1>2. ASSUME NEW d \in Copies,
             NEW p \in DOMAIN value.groups \intersect DOMAIN d,
             value.groups[p].revision = d[p].revision
      PROVE  /\ value.groups[p].failed \in {0, d[p].since}
             /\ \A m \in Models : value.groups[p].rows[m] \in {0, d[p].since}
  <2>1. c[p] = d[p]
    BY <1>2 DEF AgreeInv, Same, Measured
  <2>2. QED
    BY <2>1 DEF Measured
<1>3. QED
  BY <1>1, <1>2 DEF Sound, Fits

LEMMA BlankMeasured ==
  \A entry : Measured(Blank(entry.revision), entry)
  BY DEF Measured, Blank, NoRows

LEMMA ProjectionMeasured ==
  ASSUME NEW value \in Reports, NEW c \in Config, Fits(value, c)
  PROVE  \A p \in Shown(c) : Measured(WithConfig(value, c).groups[p], c[p])
<1> SUFFICES ASSUME NEW p \in Shown(c)
             PROVE  Measured(WithConfig(value, c).groups[p], c[p])
  OBVIOUS
<1> DEFINE g == WithConfig(value, c).groups[p]
<1>1. \/ /\ p \in DOMAIN value.groups
         /\ value.groups[p].revision = c[p].revision
         /\ g = value.groups[p]
      \/ g = Blank(c[p].revision)
  BY WithConfigIs
<1>2. p \in DOMAIN c
  BY DEF Shown
<1> HIDE DEF g
<1>3. CASE g = Blank(c[p].revision)
  BY <1>3, BlankMeasured DEF g
<1>4. CASE /\ p \in DOMAIN value.groups
           /\ value.groups[p].revision = c[p].revision
           /\ g = value.groups[p]
  BY <1>2, <1>4 DEF Fits, Measured, g
<1>5. QED
  BY <1>1, <1>3, <1>4

LEMMA BuildMeasured ==
  ASSUME NEW c \in Config, NEW scope, NEW targets, NEW bad
  PROVE  LET built == Build(Only(c, scope), targets, bad)
         IN \A p \in DOMAIN built.groups :
              p \in DOMAIN c /\ Measured(built.groups[p], c[p])
<1> DEFINE d == Only(c, scope)
           built == Build(d, targets, bad)
<1>1. /\ DOMAIN d = DOMAIN c \intersect scope
      /\ \A p \in DOMAIN c \intersect scope : d[p] = c[p]
  BY OnlyIs
<1>2. Shown(d) \subseteq DOMAIN d
  BY DEF Shown
<1> HIDE DEF d
<1>3. ASSUME NEW p \in Shown(d) PROVE Measured(built.groups[p], d[p])
  <2> DEFINE rows == [m \in Models |-> IF <<p, m>> \in targets /\ p \notin bad
                                         THEN d[p].since ELSE 0]
             failed == IF p \in bad THEN d[p].since ELSE 0
  <2>1. built.groups[p] = [revision |-> d[p].revision, rows |-> rows,
                           failed |-> failed]
    BY BuildIs
  <2>2. /\ \A m \in Models : rows[m] \in {0, d[p].since}
        /\ failed \in {0, d[p].since}
    OBVIOUS
  <2> HIDE DEF rows, failed, built
  <2>3. QED
    BY <2>1, <2>2 DEF Measured
<1>4. DOMAIN built.groups = Shown(d)
  BY BuildIs
<1> HIDE DEF built
<1>5. \A p \in DOMAIN built.groups :
        p \in DOMAIN c /\ Measured(built.groups[p], c[p])
  BY <1>1, <1>2, <1>3, <1>4
<1>6. QED
  BY <1>5 DEF built, d

\* Reading the previous report and merging with it leaves a report measured for
\* the configuration the run took.
LEMMA MergedMeasured ==
  ASSUME TypeOK, RunInv, AgreeInv, ReadPrevious
  PROVE  \A p \in DOMAIN run'.value.groups :
           p \in DOMAIN run.cfg /\ Measured(run'.value.groups[p], run.cfg[p])
<1>1. /\ Previous \in Reports /\ run.value \in Reports
      /\ \A q \in DOMAIN Previous.groups : \A m \in Models :
           <<q, m>> \in run.targets => q \in DOMAIN run.value.groups
      /\ DOMAIN Previous.groups = Shown(run.cfg)
  BY PreviousIs DEF ReadPrevious
<1>2. \A p \in DOMAIN run.value.groups :
        p \in DOMAIN run.cfg /\ Measured(run.value.groups[p], run.cfg[p])
  <2>1. run.cfg \in Config
    BY DEF TypeOK
  <2>2. run.value = Build(Only(run.cfg, run.scope), run.targets, run.bad)
    BY DEF RunInv, ReadPrevious
  <2>3. QED
    BY <2>1, <2>2, BuildMeasured
<1>3. \A p \in DOMAIN Previous.groups :
        p \in DOMAIN run.cfg /\ Measured(Previous.groups[p], run.cfg[p])
  <2>1. latest \in Reports /\ run.cfg \in Config
    BY DEF TypeOK
  <2>2. Fits(latest, run.cfg)
    BY DEF AgreeInv, Values, Copies, Sound
  <2>3. \A p \in Shown(run.cfg) : Measured(Previous.groups[p], run.cfg[p])
    BY <2>1, <2>2, ProjectionMeasured DEF Previous
  <2>4. QED
    BY <1>1, <2>3 DEF Shown
<1>4. CASE run.kind = "models"
  <2> DEFINE merged == MergeModels(Previous, run.value, run.targets)
  <2>1. /\ DOMAIN merged.groups = DOMAIN Previous.groups \union DOMAIN run.value.groups
        /\ \A q \in DOMAIN run.value.groups :
             q \notin DOMAIN Previous.groups =>
               merged.groups[q] = run.value.groups[q]
        /\ \A q \in DOMAIN Previous.groups :
             /\ merged.groups[q].revision = Previous.groups[q].revision
             /\ merged.groups[q].failed = Previous.groups[q].failed
             /\ \A m \in Models :
                  merged.groups[q].rows[m] =
                    IF <<q, m>> \in run.targets
                      THEN run.value.groups[q].rows[m]
                      ELSE Previous.groups[q].rows[m]
    BY <1>1, MergeModelsIs
  <2>2. run'.value = merged
    BY <1>4 DEF ReadPrevious, TypeOK
  <2> HIDE DEF merged
  <2>3. ASSUME NEW p \in DOMAIN Previous.groups
        PROVE  p \in DOMAIN run.cfg /\ Measured(merged.groups[p], run.cfg[p])
    BY <1>1, <1>2, <1>3, <2>1 DEF Measured
  <2>4. QED
    BY <1>2, <2>1, <2>2, <2>3
<1>5. CASE run.kind # "models"
  <2> DEFINE merged == MergeProvider(Previous, run.value,
                                     CHOOSE p \in run.scope : TRUE)
  <2>1. /\ \A q \in DOMAIN run.value.groups :
             q \in DOMAIN merged.groups /\ merged.groups[q] = run.value.groups[q]
        /\ \A q \in DOMAIN merged.groups \ DOMAIN run.value.groups :
             q \in DOMAIN Previous.groups /\ merged.groups[q] = Previous.groups[q]
    <3>1. Previous \in Reports /\ run.value \in Reports
      BY <1>1
    <3>2. QED
      BY <3>1, MergeProviderIs
  <2>2. run'.value = merged
    BY <1>5 DEF ReadPrevious, TypeOK
  <2> HIDE DEF merged
  <2>3. QED
    BY <1>2, <1>3, <2>1, <2>2
<1>6. QED
  BY <1>4, <1>5

\* A step that only moves copies and stores sound reports keeps the agreement.
LEMMA KeepsAgreement ==
  ASSUME AgreeInv, lastRevision' = lastRevision,
         \A c \in {cfg', saved', edit'.cfg, run'.cfg} :
           c \in Copies \/ c = Nothing,
         \A value \in {latest', pushed', edit'.value, run'.value} :
           value \in Values \/ Sound(value)
  PROVE  AgreeInv'
<1>1. DOMAIN Nothing = {}
  BY EmptyType
<1>2. \A c \in Copies' : c \in Copies \/ c = Nothing
  BY DEF Copies
<1>3. \A value \in Values' : Sound(value)
  BY DEF Values, AgreeInv
<1>4. \A c \in Copies' : \A p \in DOMAIN c : c[p].revision <= lastRevision
  BY <1>1, <1>2 DEF AgreeInv
<1>5. \A c, d \in Copies' : Same(c, d)
  BY <1>1, <1>2 DEF AgreeInv, Same
<1>6. \A value \in Values' :
        /\ \A p \in DOMAIN value.groups :
             value.groups[p].revision <= lastRevision
        /\ \A c \in Copies' : Fits(value, c)
  BY <1>1, <1>2, <1>3 DEF Sound, Fits
<1>7. QED
  BY <1>4, <1>5, <1>6 DEF AgreeInv, Sound

LEMMA NothingIsSound == Sound(NoReport)
<1>1. NoReport.groups = Nothing /\ DOMAIN Nothing = {}
  BY EmptyType DEF NoReport
<1>2. QED
  BY <1>1 DEF Sound, Fits

\* The projection of a sound report onto any copy is sound.
LEMMA ProjectionIsSound ==
  ASSUME AgreeInv, NEW value \in Reports, Sound(value), NEW c \in Copies,
         c \in Config
  PROVE  Sound(WithConfig(value, c))
<1>1. \A p \in Shown(c) : Measured(WithConfig(value, c).groups[p], c[p])
  BY ProjectionMeasured DEF Sound
<1>2. /\ DOMAIN WithConfig(value, c).groups = Shown(c)
      /\ Shown(c) \subseteq DOMAIN c
  BY WithConfigIs DEF Shown
<1>3. \A p \in DOMAIN WithConfig(value, c).groups :
        p \in DOMAIN c /\ Measured(WithConfig(value, c).groups[p], c[p])
  BY <1>1, <1>2
<1>4. QED
  BY <1>3, MeasuredIsSound

LEMMA AgreeInit == Init => AgreeInv
<1> SUFFICES ASSUME Init PROVE AgreeInv
  OBVIOUS
<1>1. DOMAIN Nothing = {} /\ NoReport.groups = Nothing
  BY EmptyType DEF NoReport
<1>2. /\ \A c \in Copies : c = cfg \/ c = Nothing
      /\ \A value \in Values : value = NoReport
      /\ \A p \in DOMAIN cfg : cfg[p].revision = 1
      /\ lastRevision = 1
  BY DEF Init, Copies, Values, IdleEdit, IdleRun
<1>3. \A value \in Values : Sound(value)
  BY <1>2, NothingIsSound
<1>4. \A c \in Copies : \A p \in DOMAIN c : c[p].revision <= lastRevision
  BY <1>1, <1>2
<1>5. \A c, d \in Copies : Same(c, d)
  BY <1>1, <1>2 DEF Same
<1>6. QED
  BY <1>3, <1>4, <1>5 DEF AgreeInv

\* A new configuration agrees with the copies and the reports there are.
LEMMA ReplaceKeepsAgreement ==
  ASSUME TypeOK, AgreeInv, NEW wanted, IsWanted(wanted), Replace(wanted)
  PROVE  AgreeInv'
<1> DEFINE R == Reconcile(wanted)
<1>1. \A p \in DOMAIN R : \/ p \in DOMAIN cfg /\ R[p] = cfg[p]
                          \/ R[p].revision = lastRevision + 1
  BY ReconcileIs DEF Replace
<1>2. /\ cfg' = cfg /\ saved' = saved /\ run' = run
      /\ edit'.cfg = R /\ edit'.value = NoReport
      /\ latest' = latest /\ pushed' = pushed
      /\ lastRevision' = lastRevision + 1
  BY DEF Replace
<1> HIDE DEF R
<1>3. /\ lastRevision \in Nat
      /\ \A c \in Copies : \A p \in DOMAIN c :
           c[p].revision \in Nat /\ c[p].revision <= lastRevision
      /\ \A value \in Values : \A p \in DOMAIN value.groups :
           /\ value.groups[p].revision \in Nat
           /\ value.groups[p].revision <= lastRevision
  <2>1. /\ \A c \in Copies : c \in Config
        /\ \A value \in Values : value.groups \in Groups
        /\ lastRevision \in Nat
    BY SnapshotAssumption DEF TypeOK, Copies, Values, Reports, Connections
  <2>2. /\ \A c \in Copies : \A p \in DOMAIN c : c[p].revision \in Nat
        /\ \A value \in Values : \A p \in DOMAIN value.groups :
             value.groups[p].revision \in Nat
    BY <2>1, ConfigType, GroupsType, SnapshotAssumption
       DEF Entry, Group, Connections
  <2>3. QED
    BY <2>1, <2>2 DEF AgreeInv, Sound
<1>4. /\ \A c \in Copies' : c \in Copies \/ c = R
      /\ \A value \in Values' : value \in Values \/ value = NoReport
      /\ cfg \in Copies
  BY <1>2 DEF Copies, Values
<1>5. \A p \in DOMAIN R : R[p].revision <= lastRevision + 1
  BY <1>1, <1>3, <1>4
<1>6. \A c \in Copies' : \A p \in DOMAIN c : c[p].revision <= lastRevision + 1
  BY <1>3, <1>4, <1>5
<1>7. ASSUME NEW c \in Copies PROVE Same(R, c) /\ Same(c, R)
  <2>1. Same(cfg, c) /\ Same(c, cfg)
    BY <1>4 DEF AgreeInv
  <2>2. ASSUME NEW p \in DOMAIN R \intersect DOMAIN c,
               c[p].revision = R[p].revision
        PROVE  c[p] = R[p]
    <3>1. R[p].revision # lastRevision + 1
      BY <1>3, <2>2
    <3>2. QED
      BY <1>1, <2>1, <2>2, <3>1 DEF Same
  <2>3. QED
    BY <2>2 DEF Same
<1>8. \A c, d \in Copies' : Same(c, d)
  <2>1. Same(R, R)
    BY DEF Same
  <2>2. \A c, d \in Copies : Same(c, d)
    BY DEF AgreeInv
  <2>3. QED
    BY <1>4, <1>7, <2>1, <2>2
<1>9. ASSUME NEW value \in Values PROVE Fits(value, R)
  <2>1. Fits(value, cfg)
    BY <1>4 DEF AgreeInv, Sound
  <2>2. \A p \in DOMAIN value.groups \intersect DOMAIN R :
          R[p].revision = lastRevision + 1 =>
            value.groups[p].revision # R[p].revision
    BY <1>3
  <2>3. QED
    BY <1>1, <2>1, <2>2 DEF Fits
<1>10. ASSUME NEW value \in Values'
       PROVE  /\ \A p \in DOMAIN value.groups :
                   value.groups[p].revision <= lastRevision + 1
              /\ \A c \in Copies' : Fits(value, c)
  <2>1. CASE value = NoReport
    <3>1. NoReport.groups = Nothing /\ DOMAIN Nothing = {}
      BY EmptyType DEF NoReport
    <3>2. QED
      BY <2>1, <3>1 DEF Fits
  <2>2. CASE value \in Values
    <3>1. \A c \in Copies : Fits(value, c)
      BY <2>2 DEF AgreeInv, Sound
    <3>2. \A p \in DOMAIN value.groups :
            value.groups[p].revision <= lastRevision + 1
      BY <1>3, <2>2
    <3>3. QED
      BY <1>4, <1>9, <2>2, <3>1, <3>2
  <2>3. QED
    BY <1>4, <2>1, <2>2
<1>11. QED
  BY <1>2, <1>6, <1>8, <1>10 DEF AgreeInv, Sound

LEMMA AgreeStep == TypeOK /\ RunInv /\ AgreeInv /\ [Next]_vars => AgreeInv'
<1> SUFFICES ASSUME TypeOK, RunInv, AgreeInv, [Next]_vars PROVE AgreeInv'
  OBVIOUS
<1>a. /\ cfg \in Copies /\ saved \in Copies /\ edit.cfg \in Copies
      /\ run.cfg \in Copies
      /\ latest \in Values /\ pushed \in Values /\ edit.value \in Values
      /\ run.value \in Values
  BY DEF Copies, Values
<1>b. /\ cfg \in Config /\ run.cfg \in Config /\ latest \in Reports
      /\ run.value \in Reports
  BY DEF TypeOK
<1>c. /\ IdleEdit.cfg = Nothing /\ IdleEdit.value = NoReport
      /\ IdleRun.cfg = Nothing /\ IdleRun.value = NoReport
  BY DEF IdleEdit, IdleRun
<1>d. Sound(NoReport) /\ \A value \in Values : Sound(value)
  BY NothingIsSound DEF AgreeInv
<1>1. ASSUME NEW wanted, IsWanted(wanted), Replace(wanted) PROVE AgreeInv'
  BY <1>1, ReplaceKeepsAgreement
<1>2. CASE SaveRuntimeConfig
  <2>1. /\ saved' \in {saved, edit.cfg}
        /\ edit'.cfg \in {edit.cfg, Nothing}
        /\ edit'.value \in {edit.value, NoReport}
        /\ UNCHANGED <<cfg, lastRevision, run, latest, pushed>>
    BY <1>2, <1>c DEF SaveRuntimeConfig, Answer, TypeOK
  <2>2. QED
    BY <1>a, <1>d, <2>1, KeepsAgreement
<1>3. CASE Install
  <2>1. /\ cfg' = edit.cfg /\ edit'.cfg = edit.cfg /\ edit'.value = edit.value
        /\ UNCHANGED <<saved, lastRevision, run, latest, pushed>>
    BY <1>3 DEF Install, TypeOK
  <2>2. QED
    BY <1>a, <1>d, <2>1, KeepsAgreement
<1>4. CASE LoadLatest
  <2>1. /\ edit'.cfg \in {edit.cfg, Nothing}
        /\ edit'.value \in {WithConfig(latest, cfg), NoReport}
        /\ UNCHANGED <<cfg, saved, lastRevision, run, latest, pushed>>
    BY <1>4, <1>c DEF LoadLatest, Answer, TypeOK
  <2>2. Sound(WithConfig(latest, cfg))
    BY <1>a, <1>b, <1>d, ProjectionIsSound
  <2>3. QED
    BY <1>a, <1>d, <2>1, <2>2, KeepsAgreement
<1>5. CASE StoreLatest
  <2>1. /\ edit'.cfg = edit.cfg /\ edit'.value = edit.value
        /\ latest' \in {latest, edit.value}
        /\ UNCHANGED <<cfg, saved, lastRevision, run, pushed>>
    BY <1>5 DEF StoreLatest, TypeOK
  <2>2. QED
    BY <1>a, <1>d, <2>1, KeepsAgreement
<1>6. CASE PushLatest
  <2>1. /\ edit'.cfg = Nothing /\ edit'.value = NoReport
        /\ pushed' = edit.value
        /\ UNCHANGED <<cfg, saved, lastRevision, run, latest>>
    BY <1>6, <1>c DEF PushLatest, Answer
  <2>2. QED
    BY <1>a, <1>d, <2>1, KeepsAgreement
<1>7. ASSUME NEW kind, NEW scope, NEW targets, StartRun(kind, scope, targets)
      PROVE  AgreeInv'
  <2>1. /\ run'.cfg = cfg /\ run'.value = NoReport
        /\ UNCHANGED <<cfg, saved, lastRevision, edit, latest, pushed>>
    BY <1>7 DEF StartRun
  <2>2. QED
    BY <1>a, <1>d, <2>1, KeepsAgreement
<1>8. ASSUME NEW bad \in SUBSET Providers, Probe(bad) PROVE AgreeInv'
  <2>1. /\ run'.cfg = run.cfg
        /\ run'.value = Build(Only(run.cfg, run.scope), run.targets, bad)
        /\ UNCHANGED <<cfg, saved, lastRevision, edit, latest, pushed>>
    BY <1>8 DEF Probe, TypeOK
  <2>2. \A p \in DOMAIN run'.value.groups :
          p \in DOMAIN run.cfg /\ Measured(run'.value.groups[p], run.cfg[p])
    BY <1>b, <2>1, BuildMeasured
  <2>3. Sound(run'.value)
    BY <1>a, <2>2, MeasuredIsSound
  <2>4. QED
    BY <1>a, <1>d, <2>1, <2>3, KeepsAgreement
<1>9. CASE ReadPrevious
  <2>1. /\ run'.cfg = run.cfg
        /\ UNCHANGED <<cfg, saved, lastRevision, edit, latest, pushed>>
    BY <1>9 DEF ReadPrevious, TypeOK
  <2>2. Sound(run'.value)
    BY <1>a, <1>9, MergedMeasured, MeasuredIsSound
  <2>3. QED
    BY <1>a, <1>d, <2>1, <2>2, KeepsAgreement
<1>10. CASE RecordCheck
  <2>1. /\ run'.cfg = run.cfg
        /\ run'.value = WithConfig(run.value, cfg)
        /\ latest' = WithConfig(run.value, cfg)
        /\ UNCHANGED <<cfg, saved, lastRevision, edit, pushed>>
    BY <1>10 DEF RecordCheck, Projected, TypeOK
  <2>2. Sound(WithConfig(run.value, cfg))
    BY <1>a, <1>b, <1>d, ProjectionIsSound
  <2>3. QED
    BY <1>a, <1>d, <2>1, <2>2, KeepsAgreement
<1>11. CASE ObserveIncidents
  <2>1. /\ run'.cfg = run.cfg /\ run'.value = run.value
        /\ UNCHANGED <<cfg, saved, lastRevision, edit, latest, pushed>>
    BY <1>11 DEF ObserveIncidents, TypeOK
  <2>2. QED
    BY <1>a, <1>d, <2>1, KeepsAgreement
<1>12. CASE Publish
  <2>1. /\ run'.cfg = Nothing /\ run'.value = NoReport
        /\ pushed' = run.value
        /\ UNCHANGED <<cfg, saved, lastRevision, edit, latest>>
    BY <1>12, <1>c DEF Publish
  <2>2. QED
    BY <1>a, <1>d, <2>1, KeepsAgreement
<1>13. CASE AbandonRun
  <2>1. /\ run'.cfg = Nothing /\ run'.value = NoReport
        /\ UNCHANGED <<cfg, saved, lastRevision, edit, latest, pushed>>
    BY <1>13, <1>c DEF AbandonRun
  <2>2. QED
    BY <1>a, <1>d, <2>1, KeepsAgreement
<1>14. CASE Restart
  <2>1. /\ cfg' = saved /\ edit'.cfg = Nothing /\ run'.cfg = Nothing
        /\ edit'.value = NoReport /\ run'.value = NoReport /\ pushed' = NoReport
        /\ UNCHANGED <<saved, lastRevision, latest>>
    BY <1>14, <1>c DEF Restart
  <2>2. QED
    BY <1>a, <1>d, <2>1, KeepsAgreement
<1>15. CASE UNCHANGED vars
  <2>1. UNCHANGED <<cfg, saved, lastRevision, edit, run, latest, pushed>>
    BY <1>15 DEF vars
  <2>2. QED
    BY <1>a, <1>d, <2>1, KeepsAgreement
<1>16. QED
  BY <1>1, <1>2, <1>3, <1>4, <1>5, <1>6, <1>7, <1>8, <1>9, <1>10, <1>11, <1>12,
     <1>13, <1>14, <1>15, EditIsWanted, StartIsAsked
     DEF Next, EditStep, RunStep

-----------------------------------------------------------------------------
(***************************************************************************)
(* What a check keeps                                                      *)
(***************************************************************************)
\* What a report shows of a provider that is on.
LEMMA RowsOfIs ==
  ASSUME NEW value \in Reports, NEW c, NEW p \in On(c)
  PROVE  RowsOf(value, c, p) =
           IF /\ p \in DOMAIN value.groups
              /\ value.groups[p].revision = c[p].revision
             THEN value.groups[p].rows ELSE NoRows
<1>1. p \in Shown(c)
  BY DEF On, Shown
<1>2. \A revision : Blank(revision).rows = NoRows
  BY DEF Blank
<1>3. QED
  BY <1>1, <1>2, WithConfigIs DEF RowsOf

\* It is the same under two configurations with the same entry for it.
LEMMA RowsOfSameEntry ==
  ASSUME NEW value \in Reports, NEW c, NEW d, NEW p \in On(c),
         p \in DOMAIN d, d[p] = c[p]
  PROVE  p \in On(d) /\ RowsOf(value, d, p) = RowsOf(value, c, p)
<1>1. p \in On(d)
  BY DEF On
<1>2. QED
  BY <1>1, RowsOfIs

\* A projection shows the same as the report.
LEMMA RowsOfProjection ==
  ASSUME NEW value \in Reports, NEW c \in Config, NEW p \in On(c)
  PROVE  RowsOf(WithConfig(value, c), c, p) = RowsOf(value, c, p)
  BY WithConfigTwice DEF RowsOf


\* What the merge leaves of the report before the run, the targets apart.
LEMMA MergedKeeps ==
  ASSUME TypeOK, TypeOK', RunInv, ReadPrevious, NEW p \in On(run.cfg),
         NEW m \in Models, <<p, m>> \notin run.targets
  PROVE  RowsOf(run'.value, run.cfg, p)[m] = RowsOf(latest, run.cfg, p)[m]
<1>1. /\ Previous \in Reports /\ run.value \in Reports
      /\ \A q \in DOMAIN Previous.groups : \A n \in Models :
           <<q, n>> \in run.targets => q \in DOMAIN run.value.groups
  BY PreviousIs DEF ReadPrevious
<1>2. /\ DOMAIN Previous.groups = Shown(run.cfg)
      /\ DOMAIN run.value.groups = Shown(run.cfg) \intersect run.scope
  BY PreviousIs DEF ReadPrevious
<1>3. run'.value \in Reports /\ latest \in Reports
  BY DEF TypeOK
<1>4. p \in Shown(run.cfg) /\ p \in DOMAIN Previous.groups
  BY <1>2 DEF On, Shown
<1>5. RowsOf(latest, run.cfg, p) = Previous.groups[p].rows
  BY DEF RowsOf, Previous
<1>6. RowsOf(run'.value, run.cfg, p) =
        IF p \in DOMAIN run'.value.groups THEN run'.value.groups[p].rows
                                          ELSE NoRows
  BY <1>3, RowsOfIs, MergedOfRun
<1>7. CASE run.kind = "models"
  <2> DEFINE merged == MergeModels(Previous, run.value, run.targets)
  <2>1. /\ DOMAIN merged.groups = DOMAIN Previous.groups \union DOMAIN run.value.groups
        /\ \A q \in DOMAIN Previous.groups : \A n \in Models :
             merged.groups[q].rows[n] =
               IF <<q, n>> \in run.targets THEN run.value.groups[q].rows[n]
                                           ELSE Previous.groups[q].rows[n]
    BY <1>1, MergeModelsIs
  <2>2. run'.value = merged
    BY <1>7 DEF ReadPrevious, TypeOK
  <2> HIDE DEF merged
  <2>3. QED
    BY <1>4, <1>5, <1>6, <2>1, <2>2
<1>8. CASE run.kind # "models"
  <2>1. PICK one \in Providers :
          run.scope = {one} /\ run.targets = ({one} \intersect On(run.cfg)) \X Models
    BY <1>8 DEF RunInv, Asked, ReadPrevious
  <2>2. p # one /\ (CHOOSE q \in run.scope : TRUE) = one
    BY <2>1
  <2> DEFINE merged == MergeProvider(Previous, run.value, one)
  <2>3. run'.value = merged
    BY <1>8, <2>2 DEF ReadPrevious, TypeOK
  <2>4. p \notin DOMAIN run.value.groups
    BY <1>2, <2>1, <2>2
  <2>5. CASE Previous.generated
    <3>1. /\ \A q \in DOMAIN merged.groups \ DOMAIN run.value.groups :
               /\ q \in DOMAIN Previous.groups
               /\ merged.groups[q] = Previous.groups[q]
          /\ \A q \in DOMAIN Previous.groups :
               Previous.generated /\ q # one => q \in DOMAIN merged.groups
      <4>1. Previous \in Reports /\ run.value \in Reports
        BY <1>1
      <4>2. QED
        BY <4>1, MergeProviderIs
    <3> HIDE DEF merged
    <3>2. QED
      BY <1>4, <1>5, <1>6, <2>2, <2>3, <2>4, <2>5, <3>1
  <2>6. CASE ~Previous.generated
    <3>1. run'.value = run.value
      BY <2>3, <2>6 DEF MergeProvider
    <3>2. ~latest.generated
      BY <1>3, <2>6, WithConfigIs DEF Previous
    <3>3. RowsOf(latest, run.cfg, p) = NoRows
      BY <1>3, <3>2, RowsOfIs DEF RunInv
    <3>4. QED
      BY <1>6, <2>4, <3>1, <3>3
  <2>7. QED
    BY <2>5, <2>6
<1>9. QED
  BY <1>7, <1>8

LEMMA KeepStep ==
  ASSUME TypeOK, TypeOK', AgreeInv, RunInv, LockInv, FreshInv, KeepInv,
         [Next]_vars
  PROVE  KeepInv'
<1>a. /\ cfg \in Config /\ latest \in Reports /\ run.value \in Reports
      /\ latest' \in Reports
  BY DEF TypeOK
<1>b. IdleRun.pc = "idle" /\ IdleRun.cfg = Nothing /\ DOMAIN Nothing = {}
  BY EmptyType DEF IdleRun
<1>c. ASSUME cfg' = cfg, latest' = latest, run' = run PROVE KeepInv'
  BY <1>c DEF KeepInv
<1>d. ASSUME run' = IdleRun PROVE KeepInv'
  BY <1>b, <1>d DEF KeepInv
<1>e. On(cfg) \subseteq DOMAIN cfg
  BY DEF On
<1>1. ASSUME NEW wanted, IsWanted(wanted), Replace(wanted) PROVE KeepInv'
  BY <1>1, <1>c DEF Replace
<1>2. CASE SaveRuntimeConfig
  BY <1>2, <1>c DEF SaveRuntimeConfig
<1>3. CASE Install
  <2>1. /\ edit.pc = "install" /\ cfg' = edit.cfg
        /\ run' = run /\ latest' = latest
    BY <1>3 DEF Install
  <2>2. SUFFICES ASSUME NEW p \in On(edit.cfg)
                 PROVE  IF p \in DOMAIN run.cfg /\ run.cfg[p] = edit.cfg[p]
                        THEN run.pc = "save" =>
                               \A m \in Models :
                                 \/ <<p, m>> \in run.targets
                                 \/ RowsOf(run.value, edit.cfg, p)[m]
                                      = RowsOf(latest, edit.cfg, p)[m]
                        ELSE run.pc # "idle" =>
                               RowsOf(latest, edit.cfg, p) = NoRows
    BY <2>1 DEF KeepInv
  <2>3. p \in DOMAIN edit.cfg
    BY DEF On
  <2>4. CASE p \in DOMAIN cfg /\ edit.cfg[p] = cfg[p]
    <3>1. /\ p \in On(cfg)
          /\ RowsOf(latest, cfg, p) = RowsOf(latest, edit.cfg, p)
          /\ RowsOf(run.value, cfg, p) = RowsOf(run.value, edit.cfg, p)
      BY <1>a, <2>4, RowsOfSameEntry
    <3>2. QED
      BY <2>4, <3>1 DEF KeepInv
  <2>5. CASE /\ \A c \in {cfg, run.cfg} :
                  p \in DOMAIN c => c[p].revision # edit.cfg[p].revision
             /\ p \in DOMAIN latest.groups =>
                  latest.groups[p].revision # edit.cfg[p].revision
    <3>1. RowsOf(latest, edit.cfg, p) = NoRows
      BY <1>a, <2>5, RowsOfIs
    <3>2. ~(p \in DOMAIN run.cfg /\ run.cfg[p] = edit.cfg[p])
      BY <2>5
    <3>3. QED
      BY <3>1, <3>2
  <2>6. QED
    BY <2>1, <2>3, <2>4, <2>5 DEF FreshInv
<1>4. CASE LoadLatest
  BY <1>4, <1>c DEF LoadLatest
<1>5. CASE StoreLatest
  <2>1. /\ latest' \in {latest, WithConfig(latest, cfg)}
        /\ cfg' = cfg /\ run' = run
    BY <1>5 DEF StoreLatest, LockInv
  <2>2. \A p \in On(cfg) : RowsOf(latest', cfg, p) = RowsOf(latest, cfg, p)
    BY <1>a, <2>1, RowsOfProjection
  <2>3. QED
    BY <2>1, <2>2 DEF KeepInv
<1>6. CASE PushLatest
  BY <1>6, <1>c DEF PushLatest
<1>7. ASSUME NEW kind, NEW scope, NEW targets, StartRun(kind, scope, targets)
      PROVE  KeepInv'
  <2>1. run'.cfg = cfg /\ cfg' = cfg /\ run'.pc = "probe"
    BY <1>7 DEF StartRun
  <2>2. QED
    BY <1>e, <2>1 DEF KeepInv
<1>8. ASSUME NEW bad \in SUBSET Providers, Probe(bad) PROVE KeepInv'
  <2>1. /\ run'.cfg = run.cfg /\ run'.targets = run.targets
        /\ run'.pc = IF run.kind = "all" THEN "save" ELSE "previous"
        /\ run.pc = "probe" /\ cfg' = cfg /\ latest' = latest
    BY <1>8 DEF Probe, TypeOK
  <2>2. ASSUME NEW p \in On(cfg), p \in DOMAIN run.cfg, run.cfg[p] = cfg[p],
               run.kind = "all", NEW m \in Models
        PROVE  <<p, m>> \in run.targets
    <3>1. p \in On(run.cfg)
      BY <2>2 DEF On
    <3>2. run.targets = On(run.cfg) \X Models
      BY <2>1, <2>2 DEF RunInv, Asked
    <3>3. QED
      BY <3>1, <3>2
  <2>3. QED
    BY <2>1, <2>2 DEF KeepInv
<1>9. CASE ReadPrevious
  <2>1. /\ run'.cfg = run.cfg /\ run'.targets = run.targets
        /\ run'.pc = "save" /\ run.pc = "previous"
        /\ cfg' = cfg /\ latest' = latest
    BY <1>9 DEF ReadPrevious, TypeOK
  <2>2. run'.value \in Reports
    BY DEF TypeOK
  <2>3. ASSUME NEW p \in On(cfg), p \in DOMAIN run.cfg, run.cfg[p] = cfg[p],
               NEW m \in Models, <<p, m>> \notin run.targets
        PROVE  RowsOf(run'.value, cfg, p)[m] = RowsOf(latest, cfg, p)[m]
    <3>1. /\ p \in On(run.cfg)
          /\ RowsOf(run'.value, run.cfg, p) = RowsOf(run'.value, cfg, p)
          /\ RowsOf(latest, run.cfg, p) = RowsOf(latest, cfg, p)
      BY <1>a, <2>2, <2>3, RowsOfSameEntry
    <3>2. QED
      BY <1>9, <2>3, <3>1, MergedKeeps
  <2>4. QED
    BY <2>1, <2>3 DEF KeepInv
<1>10. CASE RecordCheck
  <2>1. /\ run'.cfg = run.cfg /\ run'.pc = "incidents" /\ run.pc = "save"
        /\ cfg' = cfg /\ latest' = WithConfig(run.value, cfg)
    BY <1>10 DEF RecordCheck, Projected, TypeOK
  <2>2. ASSUME NEW p \in On(cfg),
  ~(p \in DOMAIN run.cfg /\ run.cfg[p] = cfg[p])
        PROVE  RowsOf(latest', cfg, p) = NoRows
    <3>1. RowsOf(latest', cfg, p) = RowsOf(run.value, cfg, p)
      BY <1>a, <2>1, RowsOfProjection
    <3>2. Same(run.cfg, cfg)
      BY DEF AgreeInv, Copies
    <3>3. p \in DOMAIN run.value.groups =>
            run.value.groups[p].revision # cfg[p].revision
      BY <1>e, <2>1, <2>2, <3>2 DEF RunInv, Same
    <3>4. QED
      BY <1>a, <3>1, <3>3, RowsOfIs
  <2>3. QED
    BY <2>1, <2>2 DEF KeepInv
<1>11. CASE ObserveIncidents
  <2>1. /\ run'.cfg = run.cfg /\ run'.pc = "publish" /\ run.pc = "incidents"
        /\ cfg' = cfg /\ latest' = latest
    BY <1>11 DEF ObserveIncidents, TypeOK
  <2>2. QED
    BY <2>1 DEF KeepInv
<1>12. CASE Publish
  BY <1>12, <1>d DEF Publish
<1>13. CASE AbandonRun
  BY <1>13, <1>d DEF AbandonRun
<1>14. CASE Restart
  BY <1>14, <1>d DEF Restart
<1>15. CASE UNCHANGED vars
  BY <1>15, <1>c DEF vars
<1>16. QED
  BY <1>1, <1>2, <1>3, <1>4, <1>5, <1>6, <1>7, <1>8, <1>9, <1>10, <1>11, <1>12,
     <1>13, <1>14, <1>15, EditIsWanted, StartIsAsked
     DEF Next, EditStep, RunStep

LEMMA InvInit == Init => SnapshotInv
<1> SUFFICES ASSUME Init PROVE SnapshotInv
  OBVIOUS
<1>1. IdleRun.pc = "idle" /\ IdleEdit.pc = "idle"
  BY DEF IdleRun, IdleEdit
<1>2. NoReport.groups = Nothing /\ DOMAIN Nothing = {}
  BY EmptyType DEF NoReport
<1>3. RunInv
  BY <1>1, <1>2 DEF Init, RunInv
<1>4. LockInv
  BY <1>1 DEF Init, LockInv
<1>5. FreshInv
  BY <1>1 DEF Init, FreshInv
<1>6. KeepInv
  <2>1. IdleRun.cfg = Nothing
    BY DEF IdleRun
  <2>2. QED
    BY <1>1, <1>2, <2>1 DEF Init, KeepInv
<1>7. QED
  BY <1>3, <1>4, <1>5, <1>6, TypeInit, AgreeInit DEF SnapshotInv

-----------------------------------------------------------------------------
(***************************************************************************)
(* Theorems                                                                *)
(***************************************************************************)
\* The copies of the configuration and the reports agree, whoever holds
\* configMu has the present projection, and a check keeps what it was not asked
\* to measure, in every state of every behaviour.
THEOREM SnapshotIsConsistent == Spec => []SnapshotInv
<1>1. SnapshotInv /\ [Next]_vars => SnapshotInv'
  BY TypeStep, AgreeStep, RunInvStep, LockStep, FreshStep, KeepStep
     DEF SnapshotInv
<1>2. QED
  BY InvInit, <1>1, PTL DEF Spec

\* The configurations, the request, the check, the reports and the incidents
\* keep their types; every revision in them was given out.
THEOREM TypeCorrect == Spec => []TypeOK
<1>1. SnapshotInv => TypeOK
  BY DEF SnapshotInv
<1>2. QED
  BY <1>1, SnapshotIsConsistent, PTL

\* The stored and the pushed report, written out at any moment, show no result
\* of a connection other than the one configured then.
THEOREM ShownIsAlwaysCurrent == Spec => []ShownIsCurrent
<1>1. SnapshotInv => ShownIsCurrent
  <2> SUFFICES ASSUME TypeOK, AgreeInv,
                      NEW value \in {latest, pushed}, NEW p \in Shown(cfg)
               PROVE  LET group == PublicReport(value).groups[p]
                      IN /\ group.failed \in {0, cfg[p].since}
                         /\ \A m \in Models :
                              group.rows[m] \in {0, cfg[p].since}
    BY DEF SnapshotInv, ShownIsCurrent
  <2>1. value \in Reports /\ cfg \in Config
    BY DEF TypeOK
  <2>2. Fits(value, cfg)
    BY DEF AgreeInv, Sound, Values, Copies
  <2>3. Measured(PublicReport(value).groups[p], cfg[p])
    BY <2>1, <2>2, ProjectionMeasured DEF PublicReport
  <2>4. QED
    BY <2>3 DEF Measured
<1>2. QED
  BY <1>1, SnapshotIsConsistent, PTL

\* A report is stored or pushed only as the present configuration shows it.
THEOREM CommitsAreAlwaysCurrent == Spec => CommitsAreCurrent
<1> DEFINE Commit ==
      /\ latest' # latest => latest' = WithConfig(latest', cfg')
      /\ pushed' # pushed /\ pushed' # NoReport =>
           pushed' = WithConfig(pushed', cfg')
<1>1. ASSUME SnapshotInv, [Next]_vars PROVE [Commit]_vars
  <2>1. /\ cfg \in Config /\ latest \in Reports /\ run.value \in Reports
        /\ edit.value \in Reports
    BY <1>1 DEF SnapshotInv, TypeOK
  <2>2. LockInv
    BY <1>1 DEF SnapshotInv
  <2>3. CASE StoreLatest
    <3>1. /\ latest' \in {latest, WithConfig(latest, cfg)}
          /\ cfg' = cfg /\ pushed' = pushed
      BY <2>2, <2>3 DEF StoreLatest, LockInv
    <3>2. QED
      BY <2>1, <3>1, WithConfigTwice
  <2>4. CASE PushLatest
    BY <2>2, <2>4 DEF PushLatest, LockInv
  <2>5. CASE RecordCheck
    <3>1. /\ latest' = WithConfig(run.value, cfg)
          /\ cfg' = cfg /\ pushed' = pushed
      BY <2>5 DEF RecordCheck, Projected
    <3>2. QED
      BY <2>1, <3>1, WithConfigTwice
  <2>6. CASE Publish
    BY <2>2, <2>6 DEF Publish, LockInv
  <2>7. CASE Restart
    BY <2>7 DEF Restart
  <2>8. CASE UNCHANGED <<latest, pushed>>
    BY <2>8
  <2>9. QED
    BY <1>1, <2>3, <2>4, <2>5, <2>6, <2>7, <2>8
       DEF Next, EditStep, RunStep, vars, UpdateSettings, UpsertProvider,
           DeleteProvider, BatchProviders, ImportConfig, Replace,
           SaveRuntimeConfig, Install, LoadLatest, StartAll, StartProvider,
           StartModels, StartRun, Probe, ReadPrevious, ObserveIncidents,
           AbandonRun
<1>2. QED
  BY <1>1, SnapshotIsConsistent, PTL DEF Spec, CommitsAreCurrent

\* A stored result that is still current is replaced only by a check that was
\* asked to measure it.
THEOREM OnlyMeasuredResultsEverChange == Spec => OnlyMeasuredResultsChange
<1> DEFINE Change ==
      \A p \in DOMAIN latest.groups : \A m \in Models :
        /\ latest' # latest
        /\ p \in On(cfg')
        /\ cfg'[p].revision = latest.groups[p].revision
        => \/ /\ p \in DOMAIN latest'.groups
              /\ latest'.groups[p].rows[m] = latest.groups[p].rows[m]
           \/ run.pc = "save" /\ <<p, m>> \in run.targets
<1>1. ASSUME SnapshotInv, [Next]_vars PROVE [Change]_vars
  <2>1. /\ cfg \in Config /\ latest \in Reports /\ run.value \in Reports
        /\ AgreeInv /\ RunInv /\ LockInv /\ KeepInv
    BY <1>1 DEF SnapshotInv, TypeOK
  <2>2. ASSUME NEW value \in Reports, cfg' = cfg,
               latest' = WithConfig(value, cfg),
               \A p \in On(cfg) : \A m \in Models :
                 \/ run.pc = "save" /\ <<p, m>> \in run.targets
                 \/ RowsOf(value, cfg, p)[m] = RowsOf(latest, cfg, p)[m]
        PROVE  Change
    <3> SUFFICES ASSUME NEW p \in DOMAIN latest.groups, NEW m \in Models,
                        p \in On(cfg),
                        cfg[p].revision = latest.groups[p].revision
                 PROVE  \/ /\ p \in DOMAIN latest'.groups
                           /\ latest'.groups[p].rows[m] = latest.groups[p].rows[m]
                        \/ run.pc = "save" /\ <<p, m>> \in run.targets
      BY <2>2
    <3>1. p \in DOMAIN latest'.groups
      BY <2>2, WithConfigIs DEF On, Shown
    <3>2. latest'.groups[p].rows = RowsOf(value, cfg, p)
      BY <2>2 DEF RowsOf
    <3>3. latest.groups[p].rows = RowsOf(latest, cfg, p)
      BY <2>1, RowsOfIs
    <3>4. QED
      BY <2>2, <3>1, <3>2, <3>3
  <2>3. CASE StoreLatest
    <3>1. latest' \in {latest, WithConfig(latest, cfg)} /\ cfg' = cfg
      BY <2>1, <2>3 DEF StoreLatest, LockInv
    <3>2. QED
      BY <2>1, <2>2, <3>1
  <2>4. CASE RecordCheck
    <3>1. /\ run.pc = "save" /\ cfg' = cfg
          /\ latest' = WithConfig(run.value, cfg)
      BY <2>4 DEF RecordCheck, Projected
    <3>2. ASSUME NEW p \in On(cfg), NEW m \in Models
          PROVE  \/ <<p, m>> \in run.targets
                 \/ RowsOf(run.value, cfg, p)[m] = RowsOf(latest, cfg, p)[m]
      <4>1. CASE p \in DOMAIN run.cfg /\ run.cfg[p] = cfg[p]
        BY <2>1, <3>1, <4>1 DEF KeepInv
      <4>2. CASE ~(p \in DOMAIN run.cfg /\ run.cfg[p] = cfg[p])
        <5>1. RowsOf(latest, cfg, p) = NoRows
          BY <2>1, <3>1, <4>2 DEF KeepInv
        <5>2. Same(run.cfg, cfg) /\ p \in DOMAIN cfg
          BY <2>1 DEF AgreeInv, Copies, On
        <5>3. p \in DOMAIN run.value.groups =>
                run.value.groups[p].revision # cfg[p].revision
          BY <2>1, <3>1, <4>2, <5>2 DEF RunInv, Same
        <5>4. RowsOf(run.value, cfg, p) = NoRows
          BY <2>1, <5>3, RowsOfIs
        <5>5. QED
          BY <5>1, <5>4
      <4>3. QED
        BY <4>1, <4>2
    <3>3. QED
      BY <2>1, <2>2, <3>1, <3>2
  <2>5. CASE UNCHANGED latest
    BY <2>5
  <2>6. QED
    BY <1>1, <2>3, <2>4, <2>5
       DEF Next, EditStep, RunStep, vars, UpdateSettings, UpsertProvider,
           DeleteProvider, BatchProviders, ImportConfig, Replace,
           SaveRuntimeConfig, Install, LoadLatest, PushLatest, StartAll,
           StartProvider, StartModels, StartRun, Probe, ReadPrevious,
           ObserveIncidents, Publish, AbandonRun, Restart
<1>2. QED
  BY <1>1, SnapshotIsConsistent, PTL DEF Spec, OnlyMeasuredResultsChange

\* An incident is opened, and one of the present connection closed, only on a
\* result of its own subject measured at its provider's present revision.
THEOREM IncidentsAlwaysFollowCurrent == Spec => IncidentsFollowCurrent
<1> DEFINE Follow ==
      /\ \A i \in incidents' \ incidents :
           i.provider \in DOMAIN cfg /\ cfg[i.provider].revision = i.revision
      /\ \A i \in incidents \ incidents' :
           (i.provider \in DOMAIN cfg /\ cfg[i.provider].revision = i.revision)
             => /\ run.cfg[i.provider].revision = i.revision
                /\ i.model # ModelList =>
                     <<i.provider, i.model>> \in run.targets
<1>1. ASSUME [Next]_vars PROVE [Follow]_vars
  <2>1. CASE ObserveIncidents
    <3>1. CASE UNCHANGED incidents
      BY <3>1
    <3>2. ASSUME NEW down \in SUBSET Observed,
                 incidents' =
                   {i \in incidents : <<i.provider, i.model>> \notin Observed}
                   \union {[provider |-> t[1], model |-> t[2],
                            revision |-> run.cfg[t[1]].revision] : t \in down}
          PROVE  Follow
      <4>1. ASSUME NEW i \in incidents' \ incidents
            PROVE  /\ i.provider \in DOMAIN cfg
                   /\ cfg[i.provider].revision = i.revision
        <5>1. PICK t \in down :
                i = [provider |-> t[1], model |-> t[2],
                     revision |-> run.cfg[t[1]].revision]
          BY <3>2, <4>1
        <5>2. i.provider = t[1] /\ i.revision = run.cfg[t[1]].revision
          BY <5>1
        <5>3. t[1] \in DOMAIN cfg /\ cfg[t[1]].revision = run.cfg[t[1]].revision
          BY DEF Observed
        <5>4. QED
          BY <5>2, <5>3
      <4>2. ASSUME NEW i \in incidents \ incidents',
                   i.provider \in DOMAIN cfg,
                   cfg[i.provider].revision = i.revision
            PROVE  /\ run.cfg[i.provider].revision = i.revision
                   /\ i.model # ModelList =>
                        <<i.provider, i.model>> \in run.targets
        <5>1. <<i.provider, i.model>> \in Observed
          BY <3>2, <4>2
        <5>2. /\ <<i.provider, i.model>> \in Observations
              /\ cfg[i.provider].revision = run.cfg[i.provider].revision
          BY <5>1 DEF Observed
        <5>3. i.model # ModelList => <<i.provider, i.model>> \in run.targets
          BY <5>2 DEF Observations
        <5>4. QED
          BY <4>2, <5>2, <5>3
      <4>3. QED
        BY <4>1, <4>2
    <3>3. QED
      BY <2>1, <3>1, <3>2 DEF ObserveIncidents
  <2>2. CASE UNCHANGED incidents
    BY <2>2
  <2>3. QED
    BY <1>1, <2>1, <2>2
       DEF Next, EditStep, RunStep, vars, UpdateSettings, UpsertProvider,
           DeleteProvider, BatchProviders, ImportConfig, Replace,
           SaveRuntimeConfig, Install, LoadLatest, StoreLatest, PushLatest,
           StartAll, StartProvider, StartModels, StartRun, Probe, ReadPrevious,
           RecordCheck, Publish, AbandonRun, Restart
<1>2. QED
  BY <1>1, PTL DEF Spec, IncidentsFollowCurrent
=============================================================================
