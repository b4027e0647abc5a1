------------------------ MODULE NotificationsProofs ------------------------
(***************************************************************************)
(* Proofs about Notifications, for all thresholds and every bound.         *)
(***************************************************************************)
EXTENDS Notifications, TLAPS

\* A bound is used up with the edits, and a check tells what it has seen of the scope that
\* it found configured.
CheckInv ==
  /\ settings.generation + left.edits <= MaxEdits
  /\ check.pc \in {"evaluate", "deliver"} => check.cfg \in Scopes
  /\ check.pc = "deliver" => check.seen # "unknown" /\ check.checked = check.cfg
  /\ about = "notice" => check.pc = "idle"

\* A delivery is that of a check, or of a round.
JobInv ==
  about # "notice" => round.pc = "idle" /\ (job.pc # "idle" => check.pc = "deliver")

\* How far a sending of the notice is, and what is known of the earlier ones.
NoticeInv ==
  about = "notice" =>
    /\ tries.sent <= notice.attempts /\ notice.attempts <= 3
    /\ notice.status = "none" =>
         notice.attempts = 0 /\ tries.sent = 0 /\ tries.errors = 0
    /\ notice.status = "error" => tries.sent = tries.errors
    /\ job.pc # "idle" <=> round.pc = "deliver"
    /\ round.pc = "deliver" => notice.status = "sending"
    /\ job.pc \in {"create", "send"} =>
         tries.sent = tries.errors /\ tries.sent < notice.attempts
    /\ job.pc \in {"create", "send"} => ~job.accepted
    /\ job.pc = "finish" => tries.sent = tries.errors + 1
    /\ job.pc = "ended" /\ ~job.accepted => tries.sent = tries.errors

LEMMA NoticeInit == Init => NoticeInv
<1> SUFFICES ASSUME Init PROVE NoticeInv
  OBVIOUS
<1>1. /\ job = [pc |-> "idle", accepted |-> FALSE, arrived |-> FALSE]
      /\ round = [pc |-> "idle", version |-> 0, on |-> FALSE]
      /\ notice = [status |-> "none", attempts |-> 0, rested |-> FALSE]
      /\ tries = [sent |-> 0, errors |-> 0]
  BY DEF Init, NoJob, NoRound
<1>2. QED
  BY <1>1 DEF NoticeInv

LEMMA NoticeStep ==
  ASSUME TypeOK, CheckInv, NoticeInv, [Next]_vars
  PROVE  NoticeInv'
<1> USE DEF NoticeInv, TypeOK, SendingType, HistoryType, CheckInv
<1> SUFFICES ASSUME about' = "notice" PROVE NoticeInv'
  OBVIOUS
<1>1. about = "notice" /\ check.pc = "idle"
  BY DEF vars, Next, BeginCheck, FinishCheck, CheckFails, LockRules, ReadSettings,
    ReadConfig, Evaluate, EvaluateFails, StartAlert, EndAlert, CooldownEnds, CreateDelivery,
    send, FinishDelivery, ResultNotSaved, StartRound, CheckVersion, ReserveNotice,
    ReserveFails, FinishNotice, Rest, SendNotification, NotificationSent, WorldChanges,
    EditScope, EditChannel, SaveSettings, Maintain, EventEnds, Crash
<1>2. CASE UNCHANGED vars
  BY <1>2 DEF vars, history
<1>3. CASE CreateDelivery
  BY <1>1, <1>3 DEF CreateDelivery, history
<1>4. CASE send
  <2>1. /\ job.pc = "send" /\ job'.pc = "finish" /\ UNCHANGED <<notice, round>>
        /\ tries'.sent = tries.sent + 1 /\ tries'.errors = tries.errors
    <3>1. /\ job.pc = "send" /\ UNCHANGED <<notice, round>>
          /\ tries' = [tries EXCEPT !.sent = @ + 1]
      BY <1>1, <1>4 DEF send
    <3>2. CASE job' = [pc |-> "finish", accepted |-> TRUE, arrived |-> TRUE]
      BY <3>1, <3>2
    <3>3. CASE \E arrived \in BOOLEAN :
                 job' = [job EXCEPT !.pc = "finish", !.arrived = arrived]
      <4>1. PICK arrived \in BOOLEAN :
              job' = [job EXCEPT !.pc = "finish", !.arrived = arrived]
        BY <3>3
      <4>2. job'.pc = "finish"
        BY <4>1
      <4>3. QED
        BY <3>1, <4>2
    <3>4. QED
      BY <1>4, <3>2, <3>3 DEF send
  <2>2. /\ tries.sent = tries.errors /\ tries.sent < notice.attempts
        /\ notice.attempts <= 3 /\ round.pc = "deliver" /\ notice.status = "sending"
    BY <1>1, <2>1
  <2>3. tries.sent \in Nat /\ notice.attempts \in Nat
    OBVIOUS
  <2>4. QED
    BY <2>1, <2>2, <2>3
<1>5. CASE FinishDelivery
  BY <1>1, <1>5 DEF FinishDelivery
<1>6. CASE ResultNotSaved
  BY <1>1, <1>6 DEF ResultNotSaved, history
<1>7. CASE StartRound
  BY <1>1, <1>7 DEF StartRound, history
<1>8. CASE CheckVersion
  BY <1>1, <1>8 DEF CheckVersion, EndRound, NoRound, history
<1>9. CASE ReserveNotice
  BY <1>1, <1>9 DEF ReserveNotice, Reservable, Reserved, EndRound, NoRound, NoJob, history
<1>10. CASE ReserveFails
  BY <1>1, <1>10 DEF ReserveFails, Reservable, Reserved, EndRound, NoRound, history
<1>11. CASE FinishNotice
  BY <1>1, <1>11 DEF FinishNotice, Returned, EndRound, NoRound, NoJob, history
<1>12. CASE Rest
  BY <1>1, <1>12 DEF Rest, history
<1>13. CASE Crash
  BY <1>1, <1>13 DEF Crash, NoRound, NoJob
<1>14. CASE UNCHANGED <<about, notice, round, job, tries>>
  BY <1>1, <1>14
<1>15. QED
  BY <1>1, <1>2, <1>3, <1>4, <1>5, <1>6, <1>7, <1>8, <1>9, <1>10, <1>11, <1>12, <1>13,
     <1>14
  DEF Next, BeginCheck, FinishCheck, CheckFails, LockRules, ReadSettings, ReadConfig,
    Evaluate, EvaluateFails, StartAlert, EndAlert, CooldownEnds, SendNotification,
    NotificationSent, WorldChanges, EditScope, EditChannel, SaveSettings, Maintain,
    EventEnds, history

LEMMA Bounds ==
  /\ MaxEdits \in Nat /\ 0 \in 0..MaxEdits
  /\ MaxConnections \in Nat /\ 0 \in 0..MaxConnections
  /\ Threshold("ok") \in Nat \ {0}
  /\ \A status : Threshold(status) \in Nat \ {0}
  /\ Seen \subseteq Observations
  BY NotificationsAssumption DEF Threshold, Observations

\* The constants of the module have the types of what they are the first values of.
LEMMA Constants ==
  /\ NoCheck \in Checks /\ NoCheck.pc = "idle" /\ NoCheck.generation = 0
  /\ NoRow \in StateRows
  /\ NoScope \notin Scopes
<1>1. NoScope \notin Scopes
  BY DEF NoScope, Scopes, Lists
<1>2. QED
  BY <1>1, Bounds DEF NoCheck, NoRow, Checks, StateRows, AnyScope, Told, Observations

\* An edit of the providers makes a list of connections.
LEMMA EditedScope ==
  ASSUME EnvironmentType, EditScope
  PROVE  scope' \in Scopes
<1>1. /\ scope = [connections |-> scope.connections, rest |-> scope.rest]
      /\ scope.connections \in SUBSET (0..MaxConnections) /\ scope.connections # {}
      /\ scope.rest \in BOOLEAN
  BY DEF EnvironmentType, Scopes, Lists
<1>2. \A list \in SUBSET (0..MaxConnections), rest \in BOOLEAN :
        list # {} => [connections |-> list, rest |-> rest] \in Scopes
  BY DEF Scopes, Lists
<1>3. CASE Connect
  <2>1. PICK replaced \in {{}} \union {{c} : c \in scope.connections} :
          scope' = [scope EXCEPT !.connections = (@ \ replaced) \union {fresh}]
    BY <1>3 DEF Connect
  <2>2. fresh \in 0..MaxConnections
    <3>1. left.connections \in 0..MaxConnections /\ left.connections > 0
      BY <1>3 DEF Connect, EnvironmentType
    <3>2. QED
      BY <3>1, Bounds DEF fresh
  <2> DEFINE list == (scope.connections \ replaced) \union {fresh}
  <2>3. list \in SUBSET (0..MaxConnections) /\ list # {}
    BY <1>1, <2>2
  <2>4. scope' = [connections |-> list, rest |-> scope.rest]
    BY <1>1, <2>1
  <2>5. QED
    BY <1>1, <1>2, <2>3, <2>4, Zenon
<1>4. CASE Disconnect
  <2>1. PICK c \in scope.connections \ {0} :
          scope.connections # {c} /\ scope' = [scope EXCEPT !.connections = @ \ {c}]
    BY <1>4 DEF Disconnect
  <2> DEFINE list == scope.connections \ {c}
  <2>2. list \in SUBSET (0..MaxConnections) /\ list # {}
    BY <1>1, <2>1
  <2>3. scope' = [connections |-> list, rest |-> scope.rest]
    BY <1>1, <2>1
  <2>4. QED
    BY <1>1, <1>2, <2>2, <2>3, Zenon
<1>5. CASE scope' = [scope EXCEPT !.rest = ~@]
  <2>1. (~scope.rest) \in BOOLEAN
    OBVIOUS
  <2>2. scope' = [connections |-> scope.connections, rest |-> ~scope.rest]
    BY <1>1, <1>5
  <2>3. QED
    BY <1>1, <1>2, <2>1, <2>2, Zenon
<1>6. QED
  BY <1>3, <1>4, <1>5 DEF EditScope

LEMMA EnvironmentStep ==
  ASSUME EnvironmentType, CheckInv, check \in Checks, [Next]_vars
  PROVE  EnvironmentType'
<1> USE Bounds DEF EnvironmentType, environment
<1>1. CASE WorldChanges
  BY <1>1 DEF WorldChanges
<1>2. CASE EditScope
  <2>1. scope' \in Scopes
    BY <1>2, EditedScope DEF EnvironmentType
  <2>2. left' \in [about : {"global", "rule", "notice"}, edits : Nat,
                   connections : 0..MaxConnections, deletions : Nat, troubles : Nat]
    BY <1>2 DEF EditScope, Connect, Disconnect, Edit
  <2>3. QED
    BY <1>2, <2>1, <2>2 DEF EditScope
<1>3. CASE EditChannel
  BY <1>3 DEF EditChannel, Edit
<1>4. CASE SaveSettings
  BY <1>4 DEF SaveSettings, Edit, Scopes, CheckInv
<1>5. CASE Maintain
  BY <1>5 DEF Maintain, Edit
<1>6. CASE EventEnds
  BY <1>6 DEF EventEnds
<1>7. CASE UNCHANGED <<about, environment>> /\ (Trouble \/ UNCHANGED left)
  BY <1>7 DEF Trouble
<1>8. QED
  BY <1>1, <1>2, <1>3, <1>4, <1>5, <1>6, <1>7
  DEF Next, vars, BeginCheck, FinishCheck, CheckFails, LockRules, ReadSettings, ReadConfig,
    Evaluate, Write, Hold, EvaluateFails, StartAlert, EndAlert, CooldownEnds,
    CreateDelivery, send, FinishDelivery, ResultNotSaved, StartRound, CheckVersion,
    ReserveNotice, ReserveFails, FinishNotice, Rest, SendNotification, NotificationSent,
    Crash

LEMMA CheckInvStep ==
  ASSUME EnvironmentType, CheckInv, check \in Checks, [Next]_vars
  PROVE  CheckInv'
<1> USE Bounds, Constants DEF CheckInv, EnvironmentType, environment, Checks
<1>1. CASE BeginCheck
  BY <1>1 DEF BeginCheck, NoCheck
<1>2. CASE ReadConfig
  <2>1. check'.pc = "evaluate" /\ check'.cfg = scope /\ check'.generation = check.generation
    BY <1>2 DEF ReadConfig
  <2>2. QED
    BY <1>2, <2>1 DEF ReadConfig, Scopes
<1>3. CASE StartAlert
  BY <1>3 DEF StartAlert, Ignored, Evidence
<1>4. CASE /\ \E pc \in {"settings", "config", "lock"}, seen \in Observations :
                check' = [check EXCEPT !.pc = pc, !.seen = seen]
           /\ about # "notice" \/ check.pc # "idle"
           /\ UNCHANGED <<about, environment, left>>
  BY <1>4
<1>5. CASE check' = NoCheck /\ UNCHANGED <<about, environment>> /\ (Trouble \/ UNCHANGED left)
  BY <1>5 DEF Trouble
<1>6. CASE UNCHANGED <<about, environment, check>> /\ (Trouble \/ UNCHANGED left)
  BY <1>6 DEF Trouble
<1>7. CASE EditScope
  <2>1. left'.edits \in Int /\ left'.edits <= left.edits
    BY <1>7 DEF EditScope, Connect, Disconnect, Edit
  <2>2. UNCHANGED <<about, settings, check>>
    BY <1>7 DEF EditScope
  <2>3. QED
    BY <2>1, <2>2
<1>8. CASE EditChannel \/ Maintain \/ SaveSettings
  <2>1. settings'.generation \in settings.generation..settings.generation + 1
    BY <1>8 DEF EditChannel, Maintain, SaveSettings
  <2>2. UNCHANGED <<about, scope, check>> /\ left'.edits = left.edits - 1
    BY <1>8 DEF EditChannel, Maintain, SaveSettings, Edit
  <2>3. QED
    BY <2>1, <2>2 DEF Scopes
<1>9. CASE WorldChanges \/ EventEnds
  BY <1>9 DEF WorldChanges, EventEnds
<1>10. CASE FinishCheck
  <2>1. \/ check' = [check EXCEPT !.pc = "lock", !.seen = world]
        \/ check' = [check EXCEPT !.pc = "config", !.seen = world]
    BY <1>10 DEF FinishCheck
  <2>2. QED
    BY <1>4, <1>10, <2>1 DEF FinishCheck
<1>11. CASE LockRules \/ (ReadSettings /\ check' # NoCheck)
  <2>1. \/ check' = [check EXCEPT !.pc = "settings"]
        \/ check' = [check EXCEPT !.pc = "config"]
    BY <1>11 DEF LockRules, ReadSettings
  <2>2. /\ about # "notice" \/ check.pc # "idle"
        /\ UNCHANGED <<about, environment, left>>
    BY <1>11 DEF LockRules, ReadSettings
  <2>3. /\ check'.pc \in {"settings", "config"}
        /\ check'.generation = check.generation
    BY <2>1
  <2>4. QED
    BY <2>2, <2>3
<1>12. QED
  BY <1>1, <1>2, <1>3, <1>5, <1>6, <1>7, <1>8, <1>9, <1>10, <1>11
  DEF Next, vars, CheckFails, ReadSettings, Evaluate, Write, Hold, EvaluateFails,
    StartAlert, EndAlert, CooldownEnds, CreateDelivery, send, FinishDelivery,
    ResultNotSaved, StartRound, CheckVersion, ReserveNotice, ReserveFails, FinishNotice,
    Rest, SendNotification, NotificationSent, Crash

LEMMA CheckStep ==
  ASSUME EnvironmentType, check \in Checks, [Next]_vars
  PROVE  check' \in Checks
<1> USE Bounds, Constants DEF EnvironmentType
<1>1. CASE check' = NoCheck \/ UNCHANGED check
  BY <1>1
<1>2. CASE BeginCheck
  <2>1. scope \in AnyScope
    BY DEF AnyScope
  <2>2. check' = [pc |-> "probe", checked |-> scope, version |-> settings.version,
                  generation |-> settings.generation, cfg |-> NoScope, on |-> enabled,
                  seen |-> "unknown"]
    BY <1>2 DEF BeginCheck, NoCheck
  <2>3. NoScope \in AnyScope
    BY DEF AnyScope
  <2>4. QED
    BY <2>1, <2>2, <2>3 DEF Checks, Observations
<1>3. CASE ReadConfig
  <2>1. scope \in AnyScope
    BY DEF AnyScope
  <2>2. \E on \in BOOLEAN : check' = [check EXCEPT !.pc = "evaluate", !.cfg = scope, !.on = on]
    BY <1>3 DEF ReadConfig, Checks
  <2>3. \A value \in AnyScope, on \in BOOLEAN :
          [check EXCEPT !.pc = "evaluate", !.cfg = value, !.on = on] \in Checks
    BY DEF Checks
  <2>4. QED
    BY <2>1, <2>2, <2>3
<1>4. CASE FinishCheck
  BY <1>4 DEF FinishCheck, Checks
<1>5. CASE LockRules \/ (ReadSettings /\ check' # NoCheck)
  BY <1>5 DEF LockRules, ReadSettings, Checks
<1>6. CASE StartAlert
  BY <1>6 DEF StartAlert, Checks
<1>7. QED
  BY <1>1, <1>2, <1>3, <1>4, <1>5, <1>6
  DEF Next, vars, CheckFails, ReadSettings, Evaluate, EvaluateFails, EndAlert, CooldownEnds,
    CreateDelivery, send, FinishDelivery, ResultNotSaved, StartRound, CheckVersion,
    ReserveNotice, ReserveFails, FinishNotice, Rest, SendNotification, NotificationSent,
    WorldChanges, EditScope, EditChannel, SaveSettings, Maintain, EventEnds, Crash

\* What a check has to say of its scope, and the row it is for.
LEMMA RowOfCheck ==
  ASSUME EnvironmentType, CheckInv, check \in Checks, rows \in [Keys -> StateRows],
         check.pc \in {"evaluate", "deliver"}
  PROVE  /\ Key \in Keys /\ Row \in StateRows
         /\ Evidence \in Observations
         /\ check.cfg \in Scopes /\ check.cfg \in AnyScope
         /\ Counted \in Nat \ {0}
<1>1. /\ check.cfg \in Scopes /\ check.cfg.connections \in Lists
      /\ check.generation \in 0..MaxEdits
  BY DEF CheckInv, Scopes, Checks
<1>2. Key \in Keys
  BY <1>1 DEF Key, Keys
<1>3. Row \in StateRows
  BY <1>2 DEF Row
<1>4. Evidence \in Observations
  BY DEF Evidence, Checks, Observations
<1>5. Counted \in Nat \ {0}
  BY <1>3 DEF Counted, StateRows
<1>6. QED
  BY <1>1, <1>2, <1>3, <1>4, <1>5 DEF AnyScope

\* A check whose settings and configuration stay the same is about the same row.
LEMMA SameKey ==
  ASSUME about' = about, check'.generation = check.generation, check'.cfg = check.cfg
  PROVE  Key' = Key
<1>1. CASE about = "rule"
  <2>1. Key = <<check.generation, check.cfg.connections>>
    BY <1>1 DEF Key
  <2>2. Key' = <<check'.generation, check'.cfg.connections>>
    BY <1>1 DEF Key
  <2>3. QED
    BY <2>1, <2>2, Zenon
<1>2. CASE about # "rule"
  BY <1>2 DEF Key
<1>3. QED
  BY <1>1, <1>2

LEMMA RowsStep ==
  ASSUME EnvironmentType, CheckInv, check \in Checks, rows \in [Keys -> StateRows],
         [Next]_vars
  PROVE  rows' \in [Keys -> StateRows]
<1>1. CASE UNCHANGED rows
  BY <1>1
<1>2. CASE CooldownEnds
  <2>1. Key \in Keys /\ rows' = [rows EXCEPT ![Key].cooling = FALSE]
    BY <1>2, RowOfCheck DEF CooldownEnds
  <2>2. [rows[Key] EXCEPT !.cooling = FALSE] \in StateRows
    BY <2>1 DEF StateRows
  <2>3. QED
    BY <2>1, <2>2
<1>3. CASE Evaluate /\ ~UNCHANGED rows
  <2> USE RowOfCheck, Bounds, Constants
  <2>1. check.pc = "evaluate"
    BY <1>3 DEF Evaluate
  <2>2. PICK row : rows' = [rows EXCEPT ![Key] = row]
          /\ \/ row = [Row EXCEPT !.candidate = "", !.count = 0, !.scope = NoScope]
             \/ row = [NoRow EXCEPT !.status = "ok", !.cooling = Row.cooling]
             \/ ~Ignored /\ row = [Row EXCEPT !.candidate = Evidence, !.count = Counted,
                                              !.scope = check.cfg]
    BY <1>3 DEF Evaluate, Write, Hold
  <2>3. CASE row = [Row EXCEPT !.candidate = "", !.count = 0, !.scope = NoScope]
    BY <2>1, <2>2, <2>3 DEF StateRows, Told, AnyScope
  <2>4. CASE row = [NoRow EXCEPT !.status = "ok", !.cooling = Row.cooling]
    BY <2>1, <2>2, <2>4 DEF StateRows, Told, AnyScope
  <2>5. CASE ~Ignored /\ row = [Row EXCEPT !.candidate = Evidence, !.count = Counted,
                                           !.scope = check.cfg]
    <3>1. Evidence \in Told
      BY <2>1, <2>5 DEF Ignored, Told, Observations
    <3>2. QED
      BY <2>1, <2>2, <2>5, <3>1 DEF StateRows
  <2>6. QED
    BY <2>2, <2>3, <2>4, <2>5
<1>4. CASE EndAlert /\ ~UNCHANGED rows
  <2>1. check.pc = "deliver" /\ check.seen \in Told
    BY <1>4 DEF EndAlert, CheckInv, Checks, Observations, Told
  <2>2. rows' = [rows EXCEPT ![Key] = [NoRow EXCEPT !.status = check.seen,
                                                    !.cooling = Cooldown]]
    BY <1>4 DEF EndAlert, MissedByRow
  <2>3. [NoRow EXCEPT !.status = check.seen, !.cooling = Cooldown] \in StateRows
    BY <2>1, Constants, NotificationsAssumption DEF StateRows
  <2>4. QED
    BY <2>1, <2>2, <2>3, RowOfCheck
<1>5. QED
  BY <1>1, <1>2, <1>3, <1>4
  DEF Next, vars, BeginCheck, FinishCheck, CheckFails, LockRules, ReadSettings, ReadConfig,
    EvaluateFails, StartAlert, CreateDelivery, send, FinishDelivery, ResultNotSaved,
    StartRound, CheckVersion, ReserveNotice, ReserveFails, FinishNotice, Rest,
    SendNotification, NotificationSent, WorldChanges, EditScope, EditChannel, SaveSettings,
    Maintain, EventEnds, Crash

LEMMA JobStep ==
  ASSUME EnvironmentType, CheckInv, check \in Checks, JobInv, [Next]_vars
  PROVE  JobInv'
<1> USE DEF JobInv, NoJob, NoRound, Checks
<1>1. CASE UNCHANGED <<about, round, job, check>>
  BY <1>1
<1>2. CASE UNCHANGED <<about, round, job>> /\ check.pc # "deliver"
  BY <1>2
<1>3. CASE StartAlert \/ EndAlert \/ Crash
  BY <1>3 DEF StartAlert, EndAlert, Crash, environment
<1>4. CASE CreateDelivery \/ send \/ FinishDelivery \/ ResultNotSaved
  BY <1>4 DEF CreateDelivery, send, FinishDelivery, ResultNotSaved
<1>5. CASE about = "notice" /\ UNCHANGED about
  BY <1>5
<1>6. QED
  BY <1>1, <1>2, <1>3, <1>4, <1>5
  DEF Next, vars, environment, history, BeginCheck, FinishCheck, CheckFails, LockRules,
    ReadSettings, ReadConfig, Evaluate, EvaluateFails, CooldownEnds, StartRound,
    CheckVersion, ReserveNotice, ReserveFails, FinishNotice, Rest, SendNotification,
    NotificationSent, WorldChanges, EditScope, EditChannel, SaveSettings, Maintain,
    EventEnds

LEMMA SendingStep ==
  ASSUME EnvironmentType, SendingType, [Next]_vars
  PROVE  SendingType'
<1> USE DEF SendingType, EnvironmentType
<1> DEFINE
      Jobs == [pc : {"idle", "create", "send", "finish", "ended", "unsaved"},
               accepted : BOOLEAN, arrived : BOOLEAN]
      Rounds == [pc : {"idle", "version", "reserve", "deliver"}, version : Nat, on : BOOLEAN]
      Notices == [status : {"none", "sending", "success", "error"}, attempts : Nat,
                  rested : BOOLEAN]
<1>0. /\ NoJob \in Jobs /\ [NoJob EXCEPT !.pc = "create"] \in Jobs
      /\ [NoJob EXCEPT !.pc = "ended"] \in Jobs
      /\ NoRound \in Rounds
      /\ Reserved \in Notices
  <2>1. NoJob \in Jobs
    BY DEF NoJob
  <2>2. NoRound \in Rounds
    BY DEF NoRound
  <2>3. Reserved \in Notices
    BY DEF Reserved
  <2>4. QED
    BY <2>1, <2>2, <2>3
<1>1. mu' \in {"free", "auto", "manual"}
  BY DEF Next, vars, environment, history, BeginCheck, FinishCheck, CheckFails, LockRules,
    ReadSettings, ReadConfig, Release, EndRound, Evaluate, EvaluateFails, StartAlert,
    EndAlert, CooldownEnds, CreateDelivery, send, FinishDelivery, ResultNotSaved,
    StartRound, CheckVersion, ReserveNotice, ReserveFails, FinishNotice, Rest,
    SendNotification, NotificationSent, WorldChanges, EditScope, EditChannel, SaveSettings,
    Maintain, EventEnds, Crash
<1>2. job' \in Jobs
  <2>1. CASE StartAlert \/ EndAlert \/ FinishNotice \/ Crash
    BY <1>0, <2>1 DEF StartAlert, EndAlert, FinishNotice, Crash
  <2>2. CASE CreateDelivery
    BY <2>2 DEF CreateDelivery
  <2>3. CASE send
    <3>1. [pc |-> "finish", accepted |-> TRUE, arrived |-> TRUE] \in Jobs
      OBVIOUS
    <3>2. \A arrived \in BOOLEAN :
            [job EXCEPT !.pc = "finish", !.arrived = arrived] \in Jobs
      OBVIOUS
    <3>3. \/ job' = [pc |-> "finish", accepted |-> TRUE, arrived |-> TRUE]
          \/ \E arrived \in BOOLEAN :
               job' = [job EXCEPT !.pc = "finish", !.arrived = arrived]
      BY <2>3 DEF send
    <3>4. QED
      BY <3>1, <3>2, <3>3
  <2>4. CASE FinishDelivery \/ ResultNotSaved
    BY <2>4 DEF FinishDelivery, ResultNotSaved
  <2>5. CASE ReserveNotice
    BY <1>0, <2>5 DEF ReserveNotice
  <2>6. CASE UNCHANGED job
    BY <2>6
  <2>7. QED
    BY <2>1, <2>2, <2>3, <2>4, <2>5, <2>6
    DEF Next, vars, history, environment, BeginCheck, FinishCheck, CheckFails, LockRules,
      ReadSettings, ReadConfig, Evaluate, EvaluateFails, CooldownEnds, StartRound,
      CheckVersion, ReserveFails, Rest, SendNotification, NotificationSent, WorldChanges,
      EditScope, EditChannel, SaveSettings, Maintain, EventEnds
<1>3. round' \in Rounds
  <2>1. CASE StartRound
    BY <2>1 DEF StartRound
  <2>2. CASE CheckVersion
    BY <1>0, <2>2 DEF CheckVersion, EndRound
  <2>3. CASE ReserveNotice
    BY <1>0, <2>3 DEF ReserveNotice, EndRound
  <2>4. CASE ReserveFails \/ FinishNotice \/ Crash
    BY <1>0, <2>4 DEF ReserveFails, FinishNotice, Crash, EndRound
  <2>5. CASE UNCHANGED round
    BY <2>5
  <2>6. QED
    BY <2>1, <2>2, <2>3, <2>4, <2>5
    DEF Next, vars, history, environment, BeginCheck, FinishCheck, CheckFails, LockRules,
      ReadSettings, ReadConfig, Evaluate, EvaluateFails, StartAlert, EndAlert,
      CooldownEnds, CreateDelivery, send, FinishDelivery, ResultNotSaved, Rest,
      SendNotification, NotificationSent, WorldChanges, EditScope, EditChannel,
      SaveSettings, Maintain, EventEnds
<1>4. notice' \in Notices
  <2>1. CASE ReserveNotice \/ ReserveFails
    BY <1>0, <2>1 DEF ReserveNotice, ReserveFails
  <2>2. CASE FinishNotice
    BY <2>2 DEF FinishNotice
  <2>3. CASE Rest
    BY <2>3 DEF Rest
  <2>4. CASE UNCHANGED notice
    BY <2>4
  <2>5. QED
    BY <2>1, <2>2, <2>3, <2>4
    DEF Next, vars, history, environment, BeginCheck, FinishCheck, CheckFails, LockRules,
      ReadSettings, ReadConfig, Evaluate, EvaluateFails, StartAlert, EndAlert,
      CooldownEnds, CreateDelivery, send, FinishDelivery, ResultNotSaved, StartRound,
      CheckVersion, SendNotification, NotificationSent, WorldChanges, EditScope,
      EditChannel, SaveSettings, Maintain, EventEnds, Crash
<1>5. QED
  BY <1>1, <1>2, <1>3, <1>4

LEMMA Updated ==
  ASSUME NEW S, NEW f \in [Keys -> S], NEW key, NEW value \in S
  PROVE  [f EXCEPT ![key] = value] \in [Keys -> S]
  OBVIOUS

\* What the steps do to the histories that say yes or no of a row.
LEMMA MarkedStep ==
  ASSUME lost \in [Keys -> BOOLEAN], unaware \in [Keys -> BOOLEAN], [Next]_vars
  PROVE  lost' \in [Keys -> BOOLEAN] /\ unaware' \in [Keys -> BOOLEAN]
<1>1. MissedByRow => lost' \in [Keys -> BOOLEAN]
  <2>1. (lost[Key] \/ Row.candidate \notin {"", check.seen}) \in BOOLEAN
    OBVIOUS
  <2>2. QED
    BY <2>1, Updated, Zenon DEF MissedByRow
<1>2. \A row : Write(row) => lost' \in [Keys -> BOOLEAN]
  <2> TAKE row
  <2>1. (lost[Key] /\ row.count > 1) \in BOOLEAN /\ TRUE \in BOOLEAN
    OBVIOUS
  <2>2. [lost EXCEPT ![Key] = lost[Key] /\ row.count > 1] \in [Keys -> BOOLEAN]
    BY <2>1, Updated, Zenon
  <2>3. [lost EXCEPT ![Key] = TRUE] \in [Keys -> BOOLEAN]
    BY <2>1, Updated, Zenon
  <2>4. QED
    BY <2>2, <2>3, Zenon DEF Write
<1>3. Forget => unaware' \in [Keys -> BOOLEAN]
  <2>1. (unaware[Key] \/ (about # "notice" /\ job.arrived)) \in BOOLEAN
    OBVIOUS
  <2>2. QED
    BY <2>1, Updated, Zenon DEF Forget
<1>4. CASE Evaluate
  BY <1>1, <1>2, <1>4 DEF Evaluate, Hold
<1>5. CASE EvaluateFails
  BY <1>5 DEF EvaluateFails
<1>6. CASE EndAlert
  BY <1>1, <1>3, <1>6 DEF EndAlert
<1>7. CASE Crash
  BY <1>1, <1>3, <1>7 DEF Crash
<1>8. CASE UNCHANGED <<lost, unaware>>
  BY <1>8
<1>9. QED
  BY <1>4, <1>5, <1>6, <1>7, <1>8
  DEF Next, vars, environment, history, BeginCheck, FinishCheck, CheckFails, LockRules,
    ReadSettings, ReadConfig, StartAlert, CooldownEnds, CreateDelivery, send,
    FinishDelivery, ResultNotSaved, StartRound, CheckVersion, ReserveNotice, ReserveFails,
    FinishNotice, Rest, SendNotification, NotificationSent, WorldChanges, EditScope,
    EditChannel, SaveSettings, Maintain, EventEnds

LEMMA HistoryStep ==
  ASSUME EnvironmentType, SendingType, HistoryType, CheckInv, JobInv, check \in Checks,
         rows \in [Keys -> StateRows], [Next]_vars
  PROVE  HistoryType'
<1> USE DEF HistoryType
<1> DEFINE Streaks == [seen : Observations, scope : AnyScope, count : Nat]
<1>1. streak' \in [Keys -> Streaks]
  <2>1. CASE Observe /\ check.pc = "evaluate"
    <3>1. /\ Key \in Keys /\ Evidence \in Observations /\ check.cfg \in AnyScope
          /\ streak[Key] \in Streaks
      BY <2>1, RowOfCheck
    <3>2. Continued \in Streaks
      BY <3>1, Bounds DEF Continued
    <3> HIDE DEF Streaks
    <3>3. streak \in [Keys -> Streaks]
      BY DEF Streaks
    <3>4. QED
      BY <2>1, <3>2, <3>3, Updated DEF Observe
  <2>2. CASE UNCHANGED streak
    BY <2>2
  <2>3. QED
    BY <2>1, <2>2
    DEF Next, vars, environment, history, BeginCheck, FinishCheck, CheckFails, LockRules,
      ReadSettings, ReadConfig, Evaluate, EvaluateFails, StartAlert, EndAlert,
      CooldownEnds, CreateDelivery, send, FinishDelivery, ResultNotSaved, StartRound,
      CheckVersion, ReserveNotice, ReserveFails, FinishNotice, Rest, SendNotification,
      NotificationSent, WorldChanges, EditScope, EditChannel, SaveSettings, Maintain,
      EventEnds, Crash
<1>2. lost' \in [Keys -> BOOLEAN] /\ unaware' \in [Keys -> BOOLEAN]
  BY MarkedStep
<1>3. told' \in [Keys -> Told] /\ tries' \in [sent : Nat, errors : Nat]
  <2>1. CASE send
    <3>1. about # "notice" => check.seen \in Told
      BY <2>1 DEF send, JobInv, CheckInv, Checks, Observations, Told
    <3>2. told' = told \/ (about # "notice" /\ told' = [told EXCEPT ![Key] = check.seen])
      BY <2>1 DEF send
    <3>3. told' \in [Keys -> Told]
      BY <3>1, <3>2, Updated
    <3>4. tries' = [tries EXCEPT !.sent = @ + 1] \/ tries' = tries
      BY <2>1 DEF send
    <3>5. QED
      BY <3>3, <3>4
  <2>2. CASE FinishDelivery
    BY <2>2 DEF FinishDelivery
  <2>3. CASE UNCHANGED <<told, tries>>
    BY <2>3
  <2>4. QED
    BY <2>1, <2>2, <2>3
    DEF Next, vars, environment, history, BeginCheck, FinishCheck, CheckFails, LockRules,
      ReadSettings, ReadConfig, Evaluate, EvaluateFails, StartAlert, EndAlert,
      CooldownEnds, CreateDelivery, ResultNotSaved, StartRound, CheckVersion,
      ReserveNotice, ReserveFails, FinishNotice, Rest, SendNotification, NotificationSent,
      WorldChanges, EditScope, EditChannel, SaveSettings, Maintain, EventEnds, Crash
<1>4. QED
  BY <1>1, <1>2, <1>3

LEMMA LeftInit ==
  ASSUME Init
  PROVE  /\ left.about \in {"global", "rule", "notice"} /\ left.edits \in 0..MaxEdits
         /\ left \in [about : {"global", "rule", "notice"}, edits : Nat,
                     connections : 0..MaxConnections, deletions : Nat, troubles : Nat]
<1>1. left \in [about : {"global", "rule", "notice"}, edits : 0..MaxEdits,
               connections : 0..MaxConnections, deletions : Nat, troubles : Nat]
  BY NotificationsAssumption, Zenon DEF Init
<1>2. QED
  BY <1>1, Bounds

LEMMA TypeInit == Init => TypeOK /\ CheckInv /\ JobInv
<1> SUFFICES ASSUME Init PROVE TypeOK /\ CheckInv /\ JobInv
  OBVIOUS
<1> USE Bounds, Constants, NotificationsAssumption DEF Init
<1>1. EnvironmentType /\ settings.generation = 0
  <2>1. scope \in Scopes
    BY DEF Scopes, Lists
  <2>2. /\ left.about \in {"global", "rule", "notice"} /\ left.edits \in 0..MaxEdits
        /\ left \in [about : {"global", "rule", "notice"}, edits : Nat,
                    connections : 0..MaxConnections, deletions : Nat, troubles : Nat]
    BY LeftInit
  <2>3. settings \in [version : Nat, generation : 0..MaxEdits] /\ settings.generation = 0
    OBVIOUS
  <2>4. about = left.about /\ world \in Observations
    BY DEF Observations
  <2>5. enabled \in BOOLEAN /\ maintenance \in BOOLEAN /\ pending \in BOOLEAN
    OBVIOUS
  <2> HIDE Bounds, Constants, NotificationsAssumption DEF Init
  <2>6. QED
    BY <2>1, <2>2, <2>3, <2>4, <2>5 DEF EnvironmentType
<1>2. check \in Checks /\ rows \in [Keys -> StateRows]
  OBVIOUS
<1>3. SendingType /\ JobInv
  BY DEF SendingType, JobInv, NoJob, NoRound
<1>4. HistoryType
  BY DEF HistoryType, Observations, AnyScope, Told
<1>5. CheckInv
  <2>1. check.pc = "idle" /\ check.generation = 0
    OBVIOUS
  <2>2. left.edits \in 0..MaxEdits
    BY LeftInit
  <2>3. MaxEdits \in Nat
    OBVIOUS
  <2> HIDE Bounds, Constants, NotificationsAssumption DEF Init
  <2>4. QED
    BY <1>1, <2>1, <2>2, <2>3 DEF CheckInv
<1>6. QED
  BY <1>1, <1>2, <1>3, <1>4, <1>5 DEF TypeOK

\* What the steps of every behaviour can build on.
Sound == TypeOK /\ CheckInv /\ JobInv

LEMMA SoundAlways == Spec => []Sound
<1>1. Init => Sound
  BY TypeInit DEF Sound
<1>2. Sound /\ [Next]_vars => Sound'
  BY EnvironmentStep, CheckInvStep, CheckStep, RowsStep, JobStep, SendingStep, HistoryStep
  DEF Sound, TypeOK
<1>3. QED
  BY <1>1, <1>2, PTL DEF Spec

\* All variables keep their types: what the edits make of the lists of connections and of
\* the generations has a row of its own, and a history.
THEOREM TypeCorrect == Spec => []TypeOK
<1>1. Sound => TypeOK
  BY DEF Sound
<1>2. QED
  BY <1>1, SoundAlways, PTL

\* A notice is sent again only when every earlier sending is on record as an error, and
\* never a fourth time, whatever refusals, failing statements, crashes and edits there
\* are: the row says "sending" until a result is saved, and only "error" is reserved
\* again.  A sending without an answer is an error, too: the notice can arrive twice.
THEOREM NoticesNeverReplayed == Spec => NoticesAreNotReplayed
<1>1. Init => NoticeInv
  BY NoticeInit
<1>2. Sound /\ NoticeInv /\ [Next]_vars => NoticeInv'
  BY NoticeStep DEF Sound
<1>3. Sound /\ NoticeInv /\ [Next]_vars =>
        [tries'.sent # tries.sent => tries.sent = tries.errors /\ tries.sent < 3]_vars
  <2> SUFFICES ASSUME Sound, NoticeInv, [Next]_vars, tries'.sent # tries.sent
               PROVE  tries.sent = tries.errors /\ tries.sent < 3
    OBVIOUS
  <2>1. CASE send
    <3>1. about = "notice" /\ job.pc = "send"
      BY <2>1 DEF send
    <3>2. tries.sent \in Nat /\ notice.attempts \in Nat
      BY DEF Sound, TypeOK, HistoryType, SendingType
    <3>3. QED
      BY <3>1, <3>2 DEF NoticeInv
  <2>2. CASE FinishDelivery
    BY <2>2 DEF FinishDelivery, Sound, TypeOK, HistoryType
  <2>3. CASE UNCHANGED tries
    BY <2>3
  <2>4. QED
    BY <2>1, <2>2, <2>3
    DEF Next, vars, history, environment, BeginCheck, FinishCheck, CheckFails, LockRules,
      ReadSettings, ReadConfig, Evaluate, EvaluateFails, StartAlert, EndAlert,
      CooldownEnds, CreateDelivery, ResultNotSaved, StartRound, CheckVersion,
      ReserveNotice, ReserveFails, FinishNotice, Rest, SendNotification, NotificationSent,
      WorldChanges, EditScope, EditChannel, SaveSettings, Maintain, EventEnds, Crash
<1>4. QED
  BY <1>1, <1>2, <1>3, SoundAlways, PTL DEF Spec, NoticesAreNotReplayed

-----------------------------------------------------------------------------
(***************************************************************************)
(* Evidence.  What a row has counted was seen, one after the other, by the *)
(* checks that read this row, whatever other rows were read in between;    *)
(* unless an alert of another status is on its way, which will replace the *)
(* row, or the row misses an observation.                                  *)
(***************************************************************************)
Counting(key) == rows[key].candidate # ""
Seconded(key) ==
  /\ rows[key].candidate = streak[key].seen /\ rows[key].scope = streak[key].scope
  /\ rows[key].count <= streak[key].count
Passing(key) == check.pc = "deliver" /\ key = Key /\ rows[key].candidate # check.seen

RowInv ==
  \A key \in Keys : Counting(key) =>
    rows[key].count > 0 /\ rows[key].count < Threshold(rows[key].candidate)

EvidenceInv ==
  \A key \in Keys : Counting(key) /\ ~lost[key] => Seconded(key) \/ Passing(key)

\* What the check of an alert does to the rows: nothing that is counted changes, or its
\* row counts no more, or it counts one more that is not enough.
Counts ==
  \/ \A key \in Keys : /\ rows'[key].candidate = rows[key].candidate
                        /\ rows'[key].count = rows[key].count
                        /\ rows'[key].scope = rows[key].scope
  \/ /\ check.pc \in {"evaluate", "deliver"}
     /\ \E row \in StateRows : rows' = [rows EXCEPT ![Key] = row] /\ row.candidate = ""
  \/ /\ check.pc = "evaluate" /\ ~Ignored /\ ~Enough /\ Observe
     /\ \E row \in StateRows :
          /\ rows' = [rows EXCEPT ![Key] = row]
          /\ row.candidate = Evidence /\ row.count = Counted /\ row.scope = check.cfg

LEMMA CountsStep ==
  ASSUME EnvironmentType, CheckInv, check \in Checks, rows \in [Keys -> StateRows],
         [Next]_vars
  PROVE  Counts
<1> USE DEF Counts
<1>1. CASE UNCHANGED rows
  BY <1>1
<1>2. CASE CooldownEnds
  <2>1. Key \in Keys /\ rows' = [rows EXCEPT ![Key].cooling = FALSE]
    BY <1>2, RowOfCheck DEF CooldownEnds
  <2>2. QED
    BY <2>1 DEF StateRows
<1>3. CASE Evaluate /\ ~UNCHANGED rows
  <2>0. check.pc = "evaluate" /\ Row \in StateRows /\ Observe
        /\ rows' \in [Keys -> StateRows] /\ Key \in Keys
    BY <1>3, RowOfCheck, RowsStep DEF Evaluate
  <2>1. PICK row : rows' = [rows EXCEPT ![Key] = row]
          /\ \/ row = [Row EXCEPT !.candidate = "", !.count = 0, !.scope = NoScope]
             \/ row = [NoRow EXCEPT !.status = "ok", !.cooling = Row.cooling]
             \/ /\ ~Ignored /\ ~Enough
                /\ row = [Row EXCEPT !.candidate = Evidence, !.count = Counted,
                                     !.scope = check.cfg]
    BY <1>3 DEF Evaluate, Write, Hold
  <2>2. row \in StateRows
    BY <2>0, <2>1
  <2>3. CASE row = [Row EXCEPT !.candidate = "", !.count = 0, !.scope = NoScope]
    BY <2>0, <2>1, <2>2, <2>3 DEF StateRows
  <2>4. CASE row = [NoRow EXCEPT !.status = "ok", !.cooling = Row.cooling]
    BY <2>0, <2>1, <2>2, <2>4 DEF NoRow
  <2>5. CASE /\ ~Ignored /\ ~Enough
             /\ row = [Row EXCEPT !.candidate = Evidence, !.count = Counted,
                                  !.scope = check.cfg]
    <3>1. row.candidate = Evidence /\ row.count = Counted /\ row.scope = check.cfg
      BY <2>0, <2>5 DEF StateRows
    <3>2. QED
      BY <2>0, <2>1, <2>2, <2>5, <3>1
  <2>6. QED
    BY <2>1, <2>3, <2>4, <2>5
<1>4. CASE EndAlert /\ ~UNCHANGED rows
  <2>1. check.pc = "deliver" /\ Key \in Keys /\ rows' \in [Keys -> StateRows]
    BY <1>4, RowOfCheck, RowsStep DEF EndAlert
  <2>2. rows' = [rows EXCEPT ![Key] = [NoRow EXCEPT !.status = check.seen,
                                                    !.cooling = Cooldown]]
    BY <1>4 DEF EndAlert, MissedByRow
  <2>3. [NoRow EXCEPT !.status = check.seen, !.cooling = Cooldown].candidate = ""
    BY DEF NoRow
  <2>4. [NoRow EXCEPT !.status = check.seen, !.cooling = Cooldown] \in StateRows
    BY <2>1, <2>2
  <2>5. QED
    BY <2>1, <2>2, <2>3, <2>4
<1>5. QED
  BY <1>1, <1>2, <1>3, <1>4
  DEF Next, vars, history, environment, BeginCheck, FinishCheck, CheckFails, LockRules,
    ReadSettings, ReadConfig, EvaluateFails, StartAlert, CreateDelivery, send,
    FinishDelivery, ResultNotSaved, StartRound, CheckVersion, ReserveNotice, ReserveFails,
    FinishNotice, Rest, SendNotification, NotificationSent, WorldChanges, EditScope,
    EditChannel, SaveSettings, Maintain, EventEnds, Crash

LEMMA Below == \A a \in Nat \ {0}, b \in Nat : ~(a >= b) => a > 0 /\ a < b
  OBVIOUS

LEMMA OneAtLeast == \A a \in Nat \ {0}, b \in Nat : ~(a > 1) /\ b > 0 => a <= b
  OBVIOUS

LEMMA RowInvStep ==
  ASSUME EnvironmentType, CheckInv, check \in Checks, rows \in [Keys -> StateRows], RowInv,
         [Next]_vars
  PROVE  RowInv'
<1> SUFFICES ASSUME NEW key \in Keys, rows'[key].candidate # ""
             PROVE  /\ rows'[key].count > 0
                    /\ rows'[key].count < Threshold(rows'[key].candidate)
  BY DEF RowInv, Counting, Threshold
<1>1. CASE rows'[key].candidate = rows[key].candidate /\ rows'[key].count = rows[key].count
  BY <1>1 DEF RowInv, Counting
<1>2. CASE /\ check.pc = "evaluate" /\ ~Enough /\ key = Key
           /\ rows'[key].candidate = Evidence /\ rows'[key].count = Counted
  <2>1. Counted \in Nat \ {0} /\ ~(Counted >= Threshold(Evidence))
    BY <1>2, RowOfCheck DEF Enough
  <2>2. Threshold(Evidence) \in Nat
    BY Bounds
  <2>3. /\ Threshold(rows'[key].candidate) \in Nat
        /\ ~(Counted >= Threshold(rows'[key].candidate))
    BY <1>2, <2>1, <2>2 DEF Threshold
  <2>4. Counted > 0 /\ Counted < Threshold(rows'[key].candidate)
    BY <2>1, <2>3, Below, Zenon
  <2>5. rows'[key].count = Counted
    BY <1>2
  <2>6. QED
    BY <2>4, <2>5
<1>3. QED
  BY <1>1, <1>2, CountsStep, RowOfCheck DEF Counts

LEMMA Observed ==
  ASSUME Sound, RowInv, EvidenceInv, check.pc = "evaluate", Observe
  PROVE  /\ Key \in Keys /\ streak'[Key].seen = Evidence
         /\ streak'[Key].scope = check.cfg
         /\ streak'[Key].count > 0
         /\ \A key \in Keys \ {Key} : streak'[key] = streak[key]
         /\ ~lost[Key] =>
              /\ Enough => streak'[Key].count >= Threshold(Evidence)
              /\ ~Enough => Counted <= streak'[Key].count
              /\ Enough /\ Row.candidate = Evidence =>
                   Row.scope = check.cfg /\ Row.count <= streak'[Key].count
<1> DEFINE t == Threshold(Evidence)
           before == streak[Key]
           now == streak'[Key]
<1>1. /\ Key \in Keys /\ Row \in StateRows /\ Evidence \in Observations
      /\ Row.count \in Nat /\ before.count \in Nat /\ t \in Nat /\ t > 0
      /\ before \in [seen : Observations, scope : AnyScope, count : Nat]
      /\ streak \in [Keys -> [seen : Observations, scope : AnyScope, count : Nat]]
  BY RowOfCheck, Bounds DEF Sound, TypeOK, HistoryType, StateRows
<1>2. Row.candidate = Evidence => Row.count > 0 /\ Row.count < t
  <2>1. Evidence # ""
    BY <1>1 DEF Observations
  <2>2. Row.candidate = Evidence => Row.count > 0 /\ Row.count < Threshold(Row.candidate)
    BY <1>1, <2>1 DEF RowInv, Counting, Row
  <2>3. QED
    BY <2>2
<1>3. ~lost[Key] /\ Row.candidate = Evidence /\ Row.scope = check.cfg =>
        before.seen = Evidence /\ before.scope = check.cfg /\ Row.count <= before.count
  <2>1. Evidence # ""
    BY <1>1 DEF Observations
  <2>2. ~Passing(Key)
    BY DEF Passing
  <2>3. Counting(Key) /\ ~lost[Key] => Seconded(Key)
    BY <1>1, <2>2 DEF EvidenceInv
  <2>4. QED
    BY <2>1, <2>3 DEF Counting, Seconded, Row
<1>4. /\ now = Continued
      /\ \A key \in Keys \ {Key} : streak'[key] = streak[key]
  BY <1>1 DEF Observe
<1>5. CASE before.seen = Evidence /\ before.scope = check.cfg
  <2>1. now = [before EXCEPT !.count = IF before.count < t THEN before.count + 1
                                                           ELSE before.count]
    BY <1>4, <1>5 DEF Continued
  <2> HIDE DEF before, now
  <2>2. /\ now.seen = Evidence /\ now.scope = check.cfg
        /\ now.count = IF before.count < t THEN before.count + 1 ELSE before.count
    BY <1>1, <1>5, <2>1
  <2>3. /\ ~lost[Key] /\ Counted = Row.count + 1 => Counted = 1 \/ Row.count <= before.count
        /\ Counted = Row.count + 1 \/ Counted = 1
    BY <1>1, <1>3 DEF Counted
  <2>4. Enough <=> (t = 1 \/ Counted >= t)
    BY DEF Enough
  <2>5. Row.candidate = Evidence /\ Row.scope # check.cfg => Counted = 1
    BY DEF Counted
  <2> HIDE DEF t
  <2>6. now.count \in Nat /\ now.count > 0 /\ now.count >= before.count
    BY <1>1, <2>2
  <2>7. ~lost[Key] /\ ~Enough => Counted <= now.count
    BY <1>1, <2>2, <2>3, <2>4, <2>6
  <2>8. ~lost[Key] /\ Enough => now.count >= t
    BY <1>1, <2>2, <2>3, <2>4, <2>6
  <2>9. ~lost[Key] /\ Enough /\ Row.candidate = Evidence =>
          Row.scope = check.cfg /\ Row.count <= now.count
    BY <1>1, <1>2, <1>3, <2>4, <2>5, <2>6
  <2>10. QED
    BY <1>1, <1>4, <2>2, <2>6, <2>7, <2>8, <2>9 DEF t, now
<1>6. CASE ~(before.seen = Evidence /\ before.scope = check.cfg)
  <2>1. now = [seen |-> Evidence, scope |-> check.cfg, count |-> 1]
    BY <1>4, <1>6 DEF Continued
  <2>2. ~lost[Key] => Counted = 1 /\ ~(Row.candidate = Evidence /\ Row.scope = check.cfg)
    BY <1>3, <1>6 DEF Counted
  <2>3. ~lost[Key] /\ Enough => t = 1
    BY <1>1, <2>2 DEF Enough
  <2>4. now.seen = Evidence /\ now.scope = check.cfg /\ now.count = 1
    BY <2>1
  <2>5. QED
    BY <1>1, <1>2, <1>4, <2>2, <2>3, <2>4
<1>7. QED
  BY <1>5, <1>6

\* What was not written: a row keeps its count only of what was seen now, or misses it.
LEMMA NotPassed ==
  ASSUME MissedByRow, lost \in [Keys -> BOOLEAN], NEW key \in Keys, ~lost'[key],
         Counting(key)
  PROVE  ~lost[key] /\ ~Passing(key)
<1>1. CASE key = Key
  <2>1. lost'[key] <=> (lost[key] \/ Row.candidate \notin {"", check.seen})
    BY <1>1 DEF MissedByRow
  <2>2. QED
    BY <1>1, <2>1 DEF Counting, Passing, Row
<1>2. CASE key # Key
  BY <1>2 DEF MissedByRow, Passing
<1>3. QED
  BY <1>1, <1>2

LEMMA EvidenceStep ==
  ASSUME Sound, RowInv, EvidenceInv, [Next]_vars
  PROVE  EvidenceInv'
<1> SUFFICES ASSUME NEW key \in Keys, rows'[key].candidate # "", ~lost'[key]
             PROVE  Seconded(key)' \/ Passing(key)'
  BY DEF EvidenceInv, Counting
<1> USE DEF Sound, TypeOK
<1> DEFINE Same == /\ rows'[key].candidate = rows[key].candidate
                   /\ rows'[key].count = rows[key].count
                   /\ rows'[key].scope = rows[key].scope
                   /\ streak'[key] = streak[key]
                   /\ ~lost[key]
<1>1. Same => Counting(key) /\ (Seconded(key) \/ Passing(key))
  BY DEF EvidenceInv, Counting
<1>2. Same /\ Seconded(key) => Seconded(key)'
  BY DEF Seconded
<1>3. CASE Same /\ ~Passing(key)
  BY <1>1, <1>2, <1>3
<1>4. CASE Same /\ UNCHANGED <<about, check>>
  <2>1. Passing(key) => Passing(key)'
    BY <1>4 DEF Passing, Key
  <2>2. QED
    BY <1>1, <1>2, <1>4, <2>1
<1>5. CASE Evaluate \/ StartAlert
  <2>1. check.pc = "evaluate" /\ Observe
    BY <1>5 DEF Evaluate, StartAlert
  <2>2. Key \in Keys /\ Row \in StateRows /\ ~Passing(key)
    BY <2>1, RowOfCheck DEF Passing
  <2>3. CASE key # Key
    <3>1. rows'[key] = rows[key] /\ lost'[key] = lost[key]
      <4>1. /\ UNCHANGED rows \/ \E row : rows' = [rows EXCEPT ![Key] = row]
            /\ UNCHANGED lost \/ \E b : lost' = [lost EXCEPT ![Key] = b]
        BY <1>5, Zenon DEF Evaluate, StartAlert, Write, Hold, MissedByRow
      <4>2. QED
        BY <2>3, <4>1 DEF HistoryType
    <3>2. streak'[key] = streak[key]
      BY <2>1, <2>3, Observed
    <3>3. QED
      BY <1>3, <2>2, <3>1, <3>2
  <2>4. CASE /\ key = Key /\ ~lost[Key] /\ rows'[key] = Row
             /\ Row.candidate = Evidence /\ Enough
    <3>1. /\ streak'[Key].seen = Evidence /\ streak'[Key].scope = check.cfg
          /\ Row.scope = check.cfg /\ Row.count <= streak'[Key].count
      BY <2>1, <2>4, Observed
    <3>2. QED
      BY <2>4, <3>1 DEF Seconded
  <2>5. CASE key = Key /\ Evaluate
    <3>1. CASE /\ ~Ignored /\ ~Enough
               /\ Write([Row EXCEPT !.candidate = Evidence, !.count = Counted,
                                    !.scope = check.cfg])
      <4> DEFINE row == [Row EXCEPT !.candidate = Evidence, !.count = Counted,
                                    !.scope = check.cfg]
      <4>1. row.candidate = Evidence /\ row.count = Counted /\ row.scope = check.cfg
        BY <2>2 DEF StateRows
      <4> HIDE DEF row
      <4>2. rows' = [rows EXCEPT ![Key] = row] /\ lost' = [lost EXCEPT ![Key] = @ /\ row.count > 1]
        <5>1. lost \in [Keys -> BOOLEAN]
          BY DEF HistoryType
        <5>2. lost' # [lost EXCEPT ![Key] = TRUE]
          BY <2>2, <2>5, <5>1
        <5>3. Write(row)
          BY <3>1 DEF row
        <5>4. QED
          BY <5>2, <5>3 DEF Write
      <4>3. rows'[key] = row /\ ~(lost[Key] /\ row.count > 1)
        <5>1. rows'[key] = row
          BY <2>2, <2>5, <4>2
        <5>2. lost'[Key] = (lost[Key] /\ row.count > 1)
          BY <2>2, <4>2 DEF HistoryType
        <5>3. QED
          BY <2>5, <5>1, <5>2
      <4>4. Counted <= streak'[Key].count
        <5>1. CASE ~lost[Key]
          BY <2>1, <3>1, <5>1, Observed
        <5>2. CASE ~(Counted > 1)
          <6>1. Counted \in Nat \ {0} /\ streak'[Key].count > 0
            BY <2>1, Observed, RowOfCheck
          <6>2. streak'[Key].count \in Nat
            BY <2>2, HistoryStep DEF HistoryType
          <6>3. QED
            BY <5>2, <6>1, <6>2, OneAtLeast
        <5>3. QED
          BY <4>1, <4>3, <5>1, <5>2
      <4>5. streak'[Key].seen = Evidence /\ streak'[Key].scope = check.cfg
        BY <2>1, Observed
      <4>6. QED
        BY <2>5, <4>1, <4>3, <4>4, <4>5 DEF Seconded
    <3>2. CASE ~Ignored /\ Enough /\ Hold
      <4>1. Counting(key)
        BY <3>2 DEF Hold, Counting
      <4>2. lost'[Key] <=> (lost[Key] \/ Row.candidate \notin {"", check.seen})
        BY <2>2, <3>2 DEF Hold, MissedByRow, HistoryType
      <4>3. rows'[key] = Row /\ Row.candidate = check.seen /\ ~lost[Key]
        BY <2>5, <3>2, <4>1, <4>2 DEF Hold, Counting, Row
      <4>4. check.seen = Evidence
        BY <3>2 DEF Ignored, Evidence
      <4>5. QED
        BY <2>4, <2>5, <3>2, <4>3, <4>4
    <3>3. ASSUME NEW row, Write(row), row.candidate = ""
          PROVE  FALSE
      <4>1. rows' # [rows EXCEPT ![Key] = row]
        BY <2>2, <2>5, <3>3
      <4>2. lost' = [lost EXCEPT ![Key] = TRUE]
        BY <3>3, <4>1 DEF Write
      <4>3. QED
        BY <2>2, <2>5, <4>2 DEF HistoryType
    <3>4. CASE Write([Row EXCEPT !.candidate = "", !.count = 0, !.scope = NoScope])
      <4>1. [Row EXCEPT !.candidate = "", !.count = 0, !.scope = NoScope].candidate = ""
        BY <2>2 DEF StateRows
      <4>2. QED
        BY <3>3, <3>4, <4>1
    <3>5. CASE Write([NoRow EXCEPT !.status = "ok", !.cooling = Row.cooling])
      <4>1. [NoRow EXCEPT !.status = "ok", !.cooling = Row.cooling].candidate = ""
        BY DEF NoRow
      <4>2. QED
        BY <3>3, <3>5, <4>1
    <3>6. QED
      BY <2>5, <3>1, <3>2, <3>4, <3>5 DEF Evaluate
  <2>6. CASE key = Key /\ StartAlert
    <3>1. rows'[key] = Row /\ ~Ignored /\ Enough /\ ~lost[Key]
      BY <2>6 DEF StartAlert, Row
    <3>2. check.seen = Evidence
      BY <3>1 DEF Ignored, Evidence
    <3>3. CASE Row.candidate = check.seen
      BY <2>4, <2>6, <3>1, <3>2, <3>3
    <3>4. CASE Row.candidate # check.seen
      <4>1. check' = [check EXCEPT !.pc = "deliver"] /\ about' = about
        BY <2>6 DEF StartAlert
      <4>2. /\ check'.pc = "deliver" /\ check'.seen = check.seen
            /\ check'.generation = check.generation /\ check'.cfg = check.cfg
        BY <4>1 DEF Checks
      <4>3. Key' = key
        BY <2>6, <4>1, <4>2, SameKey
      <4>4. QED
        BY <3>1, <3>4, <4>2, <4>3 DEF Passing
    <3>5. QED
      BY <3>3, <3>4
  <2>7. QED
    BY <1>5, <2>3, <2>5, <2>6
<1>6. CASE EndAlert
  <2>1. check.pc = "deliver" /\ UNCHANGED streak
    BY <1>6 DEF EndAlert
  <2>2. Key \in Keys
    BY <2>1, RowOfCheck
  <2>3. CASE /\ rows' = [rows EXCEPT ![Key] = [NoRow EXCEPT !.status = check.seen,
                                                           !.cooling = Cooldown]]
             /\ lost' = [lost EXCEPT ![Key] = FALSE]
    <3>1. key # Key
      BY <2>2, <2>3 DEF NoRow
    <3>2. Same /\ ~Passing(key)
      BY <2>1, <2>2, <2>3, <3>1 DEF Passing, HistoryType
    <3>3. QED
      BY <1>3, <3>2
  <2>4. CASE MissedByRow /\ UNCHANGED rows
    <3>1. Counting(key)
      BY <2>4 DEF Counting
    <3>2. Same /\ ~Passing(key)
      BY <2>1, <2>4, <3>1, NotPassed DEF HistoryType
    <3>3. QED
      BY <1>3, <3>2
  <2>5. QED
    BY <1>6, <2>3, <2>4 DEF EndAlert
<1>7. CASE Crash
  <2>1. UNCHANGED <<rows, streak>>
    BY <1>7 DEF Crash
  <2>2. CASE check.pc = "deliver"
    <3>1. Counting(key)
      BY <2>1 DEF Counting
    <3>2. MissedByRow
      BY <1>7, <2>2, Zenon DEF Crash
    <3>3. Same /\ ~Passing(key)
      BY <2>1, <3>1, <3>2, NotPassed DEF HistoryType
    <3>4. QED
      BY <1>3, <3>3
  <2>3. CASE check.pc # "deliver"
    BY <1>3, <1>7, <2>1, <2>3 DEF Crash, Passing
  <2>4. QED
    BY <2>2, <2>3
<1>8. CASE EvaluateFails
  <2>1. /\ check.pc = "evaluate" /\ lost' = [lost EXCEPT ![Key] = TRUE]
        /\ UNCHANGED <<rows, streak>>
    BY <1>8 DEF EvaluateFails
  <2>2. Key \in Keys /\ ~Passing(key)
    BY <2>1, RowOfCheck DEF Passing
  <2>3. key # Key
    BY <2>1, <2>2 DEF HistoryType
  <2>4. QED
    BY <1>3, <2>1, <2>2, <2>3 DEF HistoryType
<1>9. CASE CooldownEnds
  <2>1. Key \in Keys /\ rows' = [rows EXCEPT ![Key].cooling = FALSE]
        /\ UNCHANGED <<streak, lost, about, check>>
    BY <1>9, RowOfCheck DEF CooldownEnds, history
  <2>2. /\ rows'[key].candidate = rows[key].candidate
        /\ rows'[key].count = rows[key].count
        /\ rows'[key].scope = rows[key].scope
    BY <2>1 DEF StateRows
  <2>3. QED
    BY <1>4, <2>1, <2>2
<1>10. CASE UNCHANGED <<rows, streak, lost>> /\ check.pc # "deliver"
  BY <1>3, <1>10 DEF Passing
<1>11. CASE UNCHANGED <<rows, streak, lost, about, check>>
  BY <1>4, <1>11
<1>12. QED
  BY <1>5, <1>6, <1>7, <1>8, <1>9, <1>10, <1>11
  DEF Next, vars, history, environment, BeginCheck, FinishCheck, CheckFails, LockRules,
    ReadSettings, ReadConfig, CreateDelivery, send, FinishDelivery, ResultNotSaved,
    StartRound, CheckVersion, ReserveNotice, ReserveFails, FinishNotice, Rest,
    SendNotification, NotificationSent, WorldChanges, EditScope, EditChannel, SaveSettings,
    Maintain, EventEnds

LEMMA AlertStep ==
  ASSUME Sound, RowInv, EvidenceInv, AlertsHaveEvidence, [Next]_vars
  PROVE  AlertsHaveEvidence'
<1> USE DEF AlertsHaveEvidence, Sound, TypeOK
<1>1. CASE StartAlert
  <2>1. /\ check.pc = "evaluate" /\ Observe /\ ~Ignored /\ Enough
        /\ UNCHANGED <<lost, about>>
        /\ check' = [check EXCEPT !.pc = "deliver"]
    BY <1>1 DEF StartAlert
  <2>2. check.seen = Evidence /\ check.checked = check.cfg
    BY <2>1 DEF Ignored, Evidence
  <2>3. /\ check'.seen = Evidence /\ check'.checked = check.cfg
        /\ check'.generation = check.generation /\ check'.cfg = check.cfg
    BY <2>1, <2>2 DEF Checks
  <2>4. ~lost[Key] => /\ streak'[Key].seen = Evidence /\ streak'[Key].scope = check.cfg
                      /\ streak'[Key].count >= Threshold(Evidence)
    BY <2>1, Observed
  <2>5. Threshold(check.seen)' = Threshold(Evidence)
    BY <2>3 DEF Threshold
  <2>6. Key' = Key
    BY <2>1, <2>3, SameKey
  <2>7. QED
    BY <2>1, <2>3, <2>4, <2>5, <2>6
<1>2. CASE check'.pc # "deliver"
  BY <1>2
<1>3. CASE UNCHANGED <<about, check, streak, lost>>
  <2>1. Key' = Key
    BY <1>3, SameKey
  <2>2. QED
    BY <1>3, <2>1 DEF Threshold
<1>4. CASE FinishCheck
  <2>1. check'.pc \in {"lock", "config"}
    BY <1>4 DEF FinishCheck, Checks
  <2>2. QED
    BY <2>1
<1>5. CASE BeginCheck \/ LockRules \/ (ReadSettings /\ check' # NoCheck) \/ ReadConfig
  <2>1. check'.pc \in {"probe", "settings", "config", "evaluate"}
    BY <1>5 DEF BeginCheck, LockRules, ReadSettings, ReadConfig, Checks, NoCheck
  <2>2. QED
    BY <2>1
<1>6. CASE check' = NoCheck
  BY <1>6, Constants
<1>7. QED
  BY <1>1, <1>2, <1>3, <1>4, <1>5, <1>6
  DEF Next, vars, history, environment, CheckFails, ReadSettings, Evaluate, EvaluateFails,
    EndAlert, CooldownEnds, CreateDelivery, send, FinishDelivery, ResultNotSaved,
    StartRound, CheckVersion, ReserveNotice, ReserveFails, FinishNotice, Rest,
    SendNotification, NotificationSent, WorldChanges, EditScope, EditChannel, SaveSettings,
    Maintain, EventEnds, Crash

\* An alert goes out only on as many observations of its scope, one after the other, as
\* the thresholds ask for, over any restarts and edits between them, unless the count of
\* its row has missed an observation.  For a rule they follow one another among those
\* made under the list of connections that the row is of: a list comes back with its row.
THEOREM AlertsAlwaysHaveEvidence == Spec => []AlertsHaveEvidence
<1>1. Init => RowInv /\ EvidenceInv /\ AlertsHaveEvidence
  <2> SUFFICES ASSUME Init PROVE RowInv /\ EvidenceInv /\ AlertsHaveEvidence
    OBVIOUS
  <2>1. \A key \in Keys : ~Counting(key)
    BY DEF Init, Counting, NoRow
  <2>2. check.pc = "idle"
    BY Constants DEF Init
  <2>3. QED
    BY <2>1, <2>2 DEF RowInv, EvidenceInv, AlertsHaveEvidence
<1>2. Sound /\ RowInv /\ EvidenceInv /\ AlertsHaveEvidence /\ [Next]_vars =>
        RowInv' /\ EvidenceInv' /\ AlertsHaveEvidence'
  BY RowInvStep, EvidenceStep, AlertStep DEF Sound, TypeOK
<1>3. QED
  BY <1>1, <1>2, SoundAlways, PTL DEF Spec
=============================================================================
