---------------------------- MODULE SystemUpdate ----------------------------
(***************************************************************************)
(* The system update between three processes: the application (Manager of  *)
(* internal/update), the update worker, which systemd starts when there is *)
(* a request file, and the page UpdatesTab of an administrator.            *)
(*                                                                         *)
(* The application and the worker share two files.  The application hands  *)
(* out a request id, which one submission may use: it is consumed by the   *)
(* submission, by Resolve and by a restart.  The page gives up a           *)
(* submission whose answer does not come, does not know whether it was     *)
(* queued, and resolves it; the submission itself may still arrive later.  *)
(*                                                                         *)
(* A target is the channel: Release gives its newest version.  Stages and  *)
(* messages of a job are left out, and "ended" stands for "succeeded",     *)
(* "failed" and "rolled_back": the version tells the outcome.              *)
(* The confirmation dialog is part of install, which asks for canUpdate.   *)
(***************************************************************************)
EXTENDS Integers, FiniteSets

CONSTANTS
  Channels,     \* update channels
  First,        \* the one the page starts with
  Release,      \* the newest version of each
  MaxAttempts,  \* bound on the installations the page asks for
  MaxTroubles,  \* bound on crashes, files that cannot be read or written, status
                \* requests given up, and submissions of another administrator
  MaxMounts     \* bound on the times the page is opened

ASSUME UpdateAssumption ==
  /\ First \in Channels
  /\ Release \in [Channels -> Nat \ {0}]
  /\ {MaxAttempts, MaxTroubles, MaxMounts} \subseteq Nat

VARIABLES
  requestID,   \* Manager.requestID, 0 for none
  lastId,      \* history: the last one given out
  version,     \* Manager.version
  installed,   \* the version the installer left
  inbox,       \* requests/request.json
  statusFile,  \* status.json
  worker,      \* the worker and its job
  ran,         \* history: the requests the installer was run for
  handler,     \* the handler that holds submitMu
  late,        \* requests on their way that the page no longer waits for
  mounted,     \* mounted
  status,      \* status, observedVersion
  channel,     \* channel
  found,       \* check offers a release that can be installed, and no check is
               \* under way: one that is under way offers nothing
  unreachable, \* connectionError
  unresolved,  \* unresolved and uncertain
  load,        \* the latest request for the status (statusPending)
  submission,  \* submission and locked
  settled,     \* history: attempts the page was told were not queued
  spent        \* history: attempts, troubles and mounts so far

application == <<requestID, lastId, version, handler>>
files == <<inbox, statusFile>>
installer == <<worker, installed, ran>>
choice == <<mounted, channel, found>>
known == <<status, unreachable, unresolved, settled>>
vars == <<application, files, installer, late, choice, known, load, submission,
          spent>>

Versions == {0} \union {Release[c] : c \in Channels}
NoJob == [id |-> 0, channel |-> First, state |-> "none"]
Job(id, c, state) == [id |-> id, channel |-> c, state |-> state]
Active(job) == job.state \in {"pending", "running", "recovery_required"}

NoStatus == [known |-> FALSE, id |-> 0, version |-> 0, job |-> NoJob]
Nobody == [kind |-> "none", from |-> "none", id |-> 0, channel |-> First,
           pc |-> "idle"]
NoLoad == [pc |-> "none", id |-> 0, value |-> NoStatus]
NoSubmission == [pc |-> "none", id |-> 0, channel |-> First, accepted |-> FALSE]
NoAttempt == [id |-> 0, channel |-> First]

Message(kind, id, c) == [kind |-> kind, id |-> id, channel |-> c]

Spend(what) == spent' = [spent EXCEPT ![what] = @ + 1]
Trouble == spent["troubles"] < MaxTroubles /\ Spend("troubles")
Smooth == UNCHANGED spent

-----------------------------------------------------------------------------
(***************************************************************************)
(* The worker.                                                             *)
(***************************************************************************)
AtWork(pc) == worker.pc = pc
Work(pc) == worker' = [worker EXCEPT !.pc = pc]
Quit == worker' = [pc |-> "idle", job |-> NoJob]

\* runWorker begins: a job that is still active ends it.
WorkerStarts ==
  /\ AtWork("idle")
  /\ inbox # NoJob /\ ~Active(statusFile)
  /\ worker' = [pc |-> "save", job |-> inbox]
  /\ UNCHANGED <<application, files, installed, ran, late, choice, known, load,
                 submission, spent>>

SaveRunning ==
  /\ AtWork("save")
  /\ \/ /\ statusFile' = [worker.job EXCEPT !.state = "running"]
        /\ Work("remove") /\ Smooth
     \/ Quit /\ UNCHANGED statusFile /\ Trouble
  /\ UNCHANGED <<application, inbox, installed, ran, late, choice, known, load,
                 submission>>

\* Fault: the request is removed when the installation is over.
KeepRequest ==
  /\ AtWork("remove")
  /\ Work("check")
  /\ UNCHANGED <<application, files, installed, ran, late, choice, known, load,
                 submission, spent>>

\* The request is consumed before the installer runs.
RemoveRequest ==
  /\ AtWork("remove")
  /\ \/ inbox' = NoJob /\ Work("check") /\ Smooth
     \/ Quit /\ UNCHANGED inbox /\ Trouble
  /\ UNCHANGED <<application, statusFile, installed, ran, late, choice, known,
                 load, submission>>

CheckTarget ==
  /\ AtWork("check")
  /\ \/ /\ Release[worker.job.channel] > installed
        /\ Work("run")
        /\ ran' = ran \union {worker.job.id}
     \/ Work("ended") /\ UNCHANGED ran
  /\ UNCHANGED <<application, files, installed, late, choice, known, load,
                 submission, spent>>

\* The answer that a request gets when the application goes down.
Down ==
  /\ handler' = Nobody
  /\ requestID' = 0
  /\ load' = IF handler.from = "load" THEN [load EXCEPT !.pc = "lost"] ELSE load
  /\ submission' = IF handler.from = "submission"
                     THEN [submission EXCEPT !.pc = "lost"] ELSE submission

\* The installer stops the application, replaces it and starts it, or restores it.
RunInstaller ==
  /\ AtWork("run")
  /\ \/ /\ installed' = Release[worker.job.channel]
        /\ Work("ended")
     \/ /\ \E state \in {"ended", "recovery_required"} : Work(state)
        /\ UNCHANGED installed
  /\ version' = installed'
  /\ Down
  /\ UNCHANGED <<lastId, files, ran, late, choice, known, spent>>

SaveResult ==
  /\ worker.pc \in {"ended", "recovery_required"}
  /\ \/ statusFile' = [worker.job EXCEPT !.state = worker.pc] /\ Smooth
     \/ UNCHANGED statusFile /\ Trouble
  /\ Quit
  /\ UNCHANGED <<application, inbox, installed, ran, late, choice, known, load,
                 submission>>

\* A power loss: the worker and the application end where they are.
Crash ==
  /\ Trouble
  /\ Quit
  /\ Down
  /\ version' = installed
  /\ UNCHANGED <<lastId, files, installed, ran, late, choice, known>>

-----------------------------------------------------------------------------
(***************************************************************************)
(* The application: Status, Resolve and Start hold submitMu throughout.    *)
(* Each reads the two files one after the other, while the worker writes   *)
(* them.                                                                   *)
(***************************************************************************)
renewRequestID == requestID' = lastId + 1 /\ lastId' = lastId + 1

Hold(kind, from, id, c, pc) ==
  handler' = [kind |-> kind, from |-> from, id |-> id, channel |-> c, pc |-> pc]

\* Fault: Resolve reports and leaves the request id as it is.
ResolveOnly(id) ==
  IF requestID = 0 THEN renewRequestID ELSE UNCHANGED <<requestID, lastId>>

\* Resolve invalidates the request id it is given; status() makes the first one.
Resolve(id) ==
  IF requestID \in {0, id} THEN renewRequestID ELSE UNCHANGED <<requestID, lastId>>

\* load.id is the attempt to resolve, or 0 for a plain status.
StatusBegins ==
  /\ handler = Nobody /\ load.pc = "asked"
  /\ Resolve(load.id)
  /\ Hold("status", "load", load.id, First, "status")
  /\ UNCHANGED <<version, files, installer, late, choice, known, load,
                 submission, spent>>

\* Start: the release must be there, and the request id the present one.
Acceptable(id, c) == Release[c] > version /\ id = requestID

StartBegins ==
  /\ handler = Nobody /\ submission.pc = "asked"
  /\ IF Acceptable(submission.id, submission.channel)
       THEN /\ Hold("start", "submission", submission.id, submission.channel, "status")
            /\ UNCHANGED submission
       ELSE submission' = [submission EXCEPT !.pc = "rejected"] /\ UNCHANGED handler
  /\ UNCHANGED <<requestID, lastId, version, files, installer, late, choice, known,
                 load, spent>>

\* A request that nobody waits for arrives; a refused one changes nothing.
LateBegins ==
  /\ handler = Nobody
  /\ \E m \in late :
       /\ late' = late \ {m}
       /\ \/ /\ m.kind = "resolve"
             /\ Resolve(m.id)
             /\ UNCHANGED handler
          \/ /\ m.kind = "start" /\ Acceptable(m.id, m.channel)
             /\ Hold("start", "late", m.id, m.channel, "status")
             /\ UNCHANGED <<requestID, lastId>>
  /\ UNCHANGED <<version, files, installer, choice, known, load, submission, spent>>

\* The end of a handler: the answer for the page, if it still waits.
Reply(loadReply, value, submissionReply) ==
  /\ handler' = Nobody
  /\ load' = IF handler.from = "load"
               THEN [load EXCEPT !.pc = loadReply, !.value = value] ELSE load
  /\ submission' = IF handler.from = "submission"
                     THEN [submission EXCEPT !.pc = submissionReply] ELSE submission

\* Start and status() with the job that readJob found.
Conclude(job) ==
  IF handler.kind = "status"
    THEN /\ Reply("answered", [known |-> TRUE, id |-> requestID,
                                  version |-> version, job |-> job], "lost")
         /\ UNCHANGED <<requestID, lastId, inbox>>
  ELSE IF Active(job)
    THEN /\ Reply("lost", NoStatus, "rejected")
         /\ UNCHANGED <<requestID, lastId, inbox>>
  ELSE /\ renewRequestID
       /\ inbox' = Job(handler.id, handler.channel, "pending")
       /\ \E reply \in {"queued", "lost"} : Reply("lost", NoStatus, reply)

Reading(pc) == handler.kind # "none" /\ handler.pc = pc

\* readJobFiles: status.json, the request, and status.json again.
ReadStatus ==
  /\ Reading("status")
  /\ IF Active(statusFile)
       THEN Conclude(statusFile)
       ELSE /\ handler' = [handler EXCEPT !.pc = "inbox"]
            /\ UNCHANGED <<requestID, lastId, inbox, load, submission>>
  /\ UNCHANGED <<version, statusFile, installer, late, choice, known, spent>>

\* Fault: where there is no request there is no job.
ReadInboxOnly ==
  /\ Reading("inbox")
  /\ Conclude(inbox)
  /\ UNCHANGED <<version, statusFile, installer, late, choice, known, spent>>

ReadInbox ==
  /\ Reading("inbox")
  /\ IF inbox # NoJob
       THEN Conclude(inbox)
       ELSE /\ handler' = [handler EXCEPT !.pc = "again"]
            /\ UNCHANGED <<requestID, lastId, inbox, load, submission>>
  /\ UNCHANGED <<version, statusFile, installer, late, choice, known, spent>>

ReadAgain ==
  /\ Reading("again")
  /\ Conclude(statusFile)
  /\ UNCHANGED <<version, statusFile, installer, late, choice, known, spent>>

\* A file cannot be read: Busy for Start, an error for status().
ReadFails ==
  /\ handler.kind # "none"
  /\ Trouble
  /\ Reply("lost", NoStatus, "rejected")
  /\ UNCHANGED <<requestID, lastId, version, files, installer, late, choice, known>>

\* The request cannot be written after its id was consumed.
WriteFails ==
  /\ Reading("again") /\ handler.kind = "start" /\ ~Active(statusFile)
  /\ Trouble
  /\ renewRequestID
  /\ Reply("lost", NoStatus, "lost")
  /\ UNCHANGED <<version, files, installer, late, choice, known>>

\* The page of another administrator was given the same request id, and submits.
OtherBegins ==
  /\ handler = Nobody
  /\ Trouble
  /\ \E c \in Channels :
       /\ requestID # 0 /\ Acceptable(requestID, c)
       /\ Hold("start", "late", requestID, c, "status")
  /\ UNCHANGED <<requestID, lastId, version, files, installer, late, choice, known,
                 load, submission>>

-----------------------------------------------------------------------------
(***************************************************************************)
(* The page.  A request that the page no longer waits for is on its way    *)
(* still, or its handler goes on without it.                               *)
(***************************************************************************)
GiveUp(slots) ==
  /\ late' = late
       \union (IF "load" \in slots /\ load.pc = "asked" /\ load.id # 0
                 /\ handler.from # "load"
                 THEN {Message("resolve", load.id, First)} ELSE {})
       \union (IF "submission" \in slots /\ submission.pc = "asked"
                 /\ handler.from # "submission"
                 THEN {Message("start", submission.id, submission.channel)} ELSE {})
  /\ handler' = IF handler.from \in slots THEN [handler EXCEPT !.from = "late"]
                ELSE handler

Asking(attempt) == [NoLoad EXCEPT !.pc = "asked", !.id = attempt.id]

\* load() by the timer: not while a request is in progress.
Poll ==
  /\ mounted /\ load.pc = "none"
  /\ load' = Asking(unresolved)
  /\ UNCHANGED <<application, files, installer, late, choice, known, submission,
                 spent>>

\* load(true) by the button gives up the request in progress.
Refresh ==
  /\ mounted /\ load.pc # "none"
  /\ Trouble
  /\ load' = Asking(unresolved)
  /\ GiveUp({"load"})
  /\ UNCHANGED <<requestID, lastId, version, files, installer, choice, known,
                 submission>>

Matches(job, id, c) == job.id = id /\ job.channel = c

\* load() with a status: the check is void when the version has changed, the
\* uncertain attempt is settled, and the one in progress is found accepted.
LoadAnswer ==
  /\ load.pc = "answered"
  /\ load' = NoLoad
  /\ status' = load.value /\ unreachable' = FALSE
  /\ LET changed == status.known /\ status.version # load.value.version
         job == load.value.job
         accepted == /\ submission.pc # "none"
                     /\ Matches(job, submission.id, submission.channel)
     IN /\ found' = (found /\ ~changed)
        /\ IF load.id # 0 /\ unresolved.id = load.id
             THEN /\ unresolved' = NoAttempt
                  /\ settled' = IF job.id = load.id THEN settled
                                ELSE settled \union {load.id}
             ELSE UNCHANGED <<unresolved, settled>>
        /\ IF accepted
             THEN /\ submission' = [submission EXCEPT !.pc = "lost", !.accepted = TRUE]
                  /\ GiveUp({"submission"})
             ELSE UNCHANGED <<submission, late, handler>>
  /\ UNCHANGED <<requestID, lastId, version, files, installer, mounted, channel,
                 spent>>

\* Fault: a status that could not be had leaves statusPending set.
LoadFailsPending ==
  /\ load.pc = "lost"
  /\ unreachable' = TRUE
  /\ UNCHANGED <<application, files, installer, late, choice, status, unresolved,
                 settled, load, submission, spent>>

\* load() fails: an error, or 15 seconds without an answer.
LoadFails ==
  /\ \/ load.pc = "lost" /\ Smooth
     \/ load.pc = "asked" /\ Trouble
  /\ unreachable' = TRUE
  /\ load' = NoLoad
  /\ GiveUp({"load"})
  /\ UNCHANGED <<requestID, lastId, version, files, installer, choice, status,
                 unresolved, settled, submission>>

submitting == submission.pc # "none"

\* What was found before is dropped.
findUpdate ==
  /\ mounted /\ ~submitting
  /\ found' = FALSE
  /\ UNCHANGED <<application, files, installer, late, mounted, channel, known,
                 load, submission, spent>>

\* Manager.Check, for the channel.  Whatever happens meanwhile the page may check
\* again, so an answer that comes too late to count needs no step of its own.
CheckAnswer ==
  /\ mounted /\ ~submitting /\ ~found
  /\ Release[channel] > version
  /\ found' = TRUE
  /\ UNCHANGED <<application, files, installer, late, mounted, channel, known,
                 load, submission, spent>>

\* selectChannel, and findUpdate that follows it.
selectChannel ==
  /\ mounted /\ ~submitting /\ ~Active(status.job)
  /\ \E c \in Channels \ {channel} : channel' = c
  /\ found' = FALSE
  /\ UNCHANGED <<application, files, installer, late, mounted, known, load,
                 submission, spent>>

canUpdate ==
  /\ status.known /\ status.id # 0 /\ ~Active(status.job)
  /\ unresolved = NoAttempt /\ ~unreachable
  /\ found /\ status.version # Release[channel]

\* install up to the answer.
install ==
  /\ canUpdate /\ ~submitting
  /\ spent["attempts"] < MaxAttempts
  /\ submission' = [pc |-> "asked", id |-> status.id, channel |-> channel,
                    accepted |-> FALSE]
  /\ load' = NoLoad
  /\ GiveUp({"load"})
  /\ Spend("attempts")
  /\ UNCHANGED <<requestID, lastId, version, files, installer, choice, known>>

\* The rest of install: an answer, a refusal, or neither within 25 seconds.  The
\* page asks for the status again, and so resolves an attempt it is unsure of.
InstallEnds ==
  /\ submitting
  /\ LET unsure == submission.pc \in {"asked", "lost"} /\ ~submission.accepted
     IN /\ unresolved' = IF unsure
                           THEN [id |-> submission.id, channel |-> submission.channel]
                           ELSE unresolved
        /\ status' = IF submission.pc = "queued" /\ ~submission.accepted
                       THEN [status EXCEPT !.job = Job(submission.id,
                                                submission.channel, "pending")]
                       ELSE status
  /\ submission' = NoSubmission
  /\ load' = Asking(unresolved')
  /\ GiveUp({"load", "submission"})
  /\ UNCHANGED <<requestID, lastId, version, files, installer, mounted, channel,
                 found, unreachable, settled, spent>>

\* The page is closed; nothing of it is kept.
Unmount ==
  /\ mounted
  /\ mounted' = FALSE
  /\ GiveUp({"load", "submission"})
  /\ load' = NoLoad /\ submission' = NoSubmission
  /\ status' = NoStatus /\ unreachable' = FALSE /\ unresolved' = NoAttempt
  /\ channel' = First /\ found' = FALSE
  /\ UNCHANGED <<requestID, lastId, version, files, installer, settled, spent>>

Mount ==
  /\ ~mounted /\ spent["mounts"] < MaxMounts
  /\ mounted' = TRUE
  /\ load' = Asking(NoAttempt)
  /\ Spend("mounts")
  /\ UNCHANGED <<application, files, installer, late, channel, found, known,
                 submission>>

Init ==
  /\ requestID = 0 /\ lastId = 0 /\ version = 0 /\ installed = 0
  /\ inbox = NoJob /\ statusFile = NoJob
  /\ worker = [pc |-> "idle", job |-> NoJob]
  /\ ran = {} /\ late = {} /\ settled = {}
  /\ handler = Nobody
  /\ mounted = FALSE
  /\ status = NoStatus /\ unreachable = FALSE /\ unresolved = NoAttempt
  /\ channel = First /\ found = FALSE
  /\ load = NoLoad /\ submission = NoSubmission
  /\ spent = [what \in {"attempts", "troubles", "mounts"} |-> 0]

Worker ==
  WorkerStarts \/ SaveRunning \/ RemoveRequest \/ CheckTarget \/ RunInstaller
    \/ SaveResult

Next ==
  \/ Worker \/ Crash
  \/ StatusBegins \/ StartBegins \/ LateBegins \/ ReadStatus \/ ReadInbox
  \/ ReadAgain \/ ReadFails \/ WriteFails \/ OtherBegins
  \/ Poll \/ Refresh \/ LoadAnswer \/ LoadFails
  \/ findUpdate \/ CheckAnswer \/ selectChannel
  \/ install \/ InstallEnds \/ Unmount \/ Mount

(***************************************************************************)
(* systemd runs the worker while there is a request, a handler that has    *)
(* begun ends, a server that is up answers, and the timers of the page     *)
(* fire.  A person does nothing in particular, and a late request may      *)
(* never arrive.                                                           *)
(***************************************************************************)
Fairness ==
  /\ WF_vars(Worker)
  /\ WF_vars(StatusBegins)
  /\ WF_vars(ReadStatus \/ ReadInbox \/ ReadAgain)
  /\ WF_vars(Poll)
  /\ WF_vars(LoadAnswer)
  /\ WF_vars(LoadFails)
  /\ WF_vars(InstallEnds)

Spec == Init /\ [][Next]_vars /\ Fairness
-----------------------------------------------------------------------------
(***************************************************************************)
(* Properties.                                                             *)
(***************************************************************************)
Jobs == [id : Nat, channel : Channels,
         state : {"none", "pending", "running", "ended", "recovery_required"}]
Statuses == [known : BOOLEAN, id : Nat, version : Nat, job : Jobs]
Workers ==
  [pc : {"idle", "save", "remove", "check", "run", "ended", "recovery_required"},
   job : Jobs]
Handlers ==
  [kind : {"none", "status", "start"}, from : {"none", "load", "submission", "late"},
   id : Nat, channel : Channels, pc : {"idle", "status", "inbox", "again"}]
Messages == [kind : {"resolve", "start"}, id : Nat, channel : Channels]
Loads == [pc : {"none", "asked", "answered", "lost"}, id : Nat, value : Statuses]
Submissions ==
  [pc : {"none", "asked", "queued", "rejected", "lost"}, id : Nat,
   channel : Channels, accepted : BOOLEAN]

\* The type of every variable.
TypeOK ==
  /\ {requestID, lastId, version, installed} \subseteq Nat
  /\ inbox \in Jobs /\ statusFile \in Jobs /\ worker \in Workers
  /\ ran \subseteq Nat /\ settled \subseteq Nat
  /\ handler \in Handlers /\ late \subseteq Messages
  /\ mounted \in BOOLEAN /\ channel \in Channels /\ found \in BOOLEAN
  /\ status \in Statuses /\ unreachable \in BOOLEAN
  /\ unresolved \in [id : Nat, channel : Channels]
  /\ load \in Loads /\ submission \in Submissions
  /\ spent \in [{"attempts", "troubles", "mounts"} -> Nat]

\* There is one job at a time: a request is queued only while none is active and
\* the worker has none, although the application reads the worker's files while
\* the worker changes them.
OneJob ==
  inbox # NoJob =>
    /\ Active(statusFile) => inbox.id = statusFile.id
    /\ worker.job # NoJob => inbox.id = worker.job.id

\* No request is installed twice, whatever crashes and restarts lie between.
InstalledOnce ==
  [][worker'.pc = "run" /\ worker.pc # "run" => worker.job.id \notin ran]_vars

\* An attempt of which the page was told that it was not queued is not queued
\* later, when its request arrives at last.
NothingQueuedAfterResolve ==
  [][inbox' # inbox /\ inbox' # NoJob => inbox'.id \notin settled]_vars

\* Whatever becomes of a submission, the page in the end knows: no attempt stays
\* unresolved, and it shows the job that the files hold.
DiskJob == IF Active(statusFile) \/ inbox = NoJob THEN statusFile ELSE inbox
PageSettles ==
  <>[](mounted => /\ unresolved = NoAttempt /\ ~submitting /\ ~unreachable
                  /\ status.known /\ status.job = DiskJob)

=============================================================================
