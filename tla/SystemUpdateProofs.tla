-------------------------- MODULE SystemUpdateProofs --------------------------
(***************************************************************************)
(* Proofs about SystemUpdate, for every set of channels and releases and   *)
(* every number of attempts, crashes, failures and visits of the page.     *)
(***************************************************************************)
EXTENDS SystemUpdate, TLAPS

(***************************************************************************)
(* The inductive invariant.                                                *)
(***************************************************************************)
\* Every request id anywhere was given out.
IdsInv ==
  /\ requestID <= lastId /\ inbox.id <= lastId /\ statusFile.id <= lastId
  /\ worker.job.id <= lastId /\ handler.id <= lastId
  /\ load.id <= lastId /\ load.value.id <= lastId /\ submission.id <= lastId
  /\ status.id <= lastId /\ unresolved.id <= lastId
  /\ \A m \in late : m.id <= lastId
  /\ \A id \in ran \union settled : id <= lastId

\* A page that is closed waits for nothing; one that waits for a status is served
\* by the handler that answers it, and what it submits has an id.
PageInv ==
  /\ ~mounted => load.pc = "none" /\ submission.pc = "none" /\ ~status.known
  /\ handler.from = "load" =>
       /\ handler.kind = "status" /\ handler.id = load.id /\ load.pc = "asked"
  /\ handler.from = "submission" => submission.pc # "none"
  /\ submission.pc # "none" => submission.id # 0
  /\ \A m \in late : m.kind = "start" => m.id # 0

\* The present request id is new: it was neither queued nor reported void, and
\* Start holds it while it looks at the files.
RequestInv ==
  /\ handler.kind = "start" => handler.id = requestID /\ requestID # 0
  /\ requestID # 0 =>
       requestID \notin ran \union settled \union {inbox.id, worker.job.id}
  /\ load.id # 0 /\ (handler.from = "load" \/ load.pc = "answered") =>
       requestID # load.id

Running(job) == [job EXCEPT !.state = "running"]

\* What the worker has done with the two files at each of its points, and what a
\* handler that has found no request still relies on.
FilesInv ==
  /\ inbox # NoJob => inbox.state = "pending"
  /\ handler.pc = "again" => inbox = NoJob
  /\ worker.pc = "idle" => worker.job = NoJob
  /\ worker.pc \in {"save", "remove"} => inbox = worker.job /\ inbox # NoJob
  /\ worker.pc \in {"check", "run", "ended", "recovery_required"} => inbox = NoJob
  /\ worker.pc \in {"remove", "check", "run", "ended", "recovery_required"} =>
       statusFile = Running(worker.job)
  /\ inbox # NoJob /\ Active(statusFile) => inbox.id = statusFile.id

\* The installer was not yet run for a request that is queued or being looked at.
RanInv ==
  /\ inbox # NoJob => inbox.id \notin ran
  /\ worker.pc = "check" => worker.job.id \notin ran

UpdateInv ==
  TypeOK /\ IdsInv /\ PageInv /\ RequestInv /\ FilesInv /\ RanInv

-----------------------------------------------------------------------------
(***************************************************************************)
(* What the operations return.                                             *)
(***************************************************************************)
\* The values that stand for nothing have their types.
LEMMA EmptyType ==
  /\ NoJob \in Jobs /\ NoJob.id = 0 /\ NoJob.state = "none"
  /\ NoStatus \in Statuses /\ NoStatus.id = 0 /\ ~NoStatus.known
  /\ Nobody \in Handlers /\ Nobody.id = 0 /\ Nobody.kind = "none"
  /\ Nobody.from = "none" /\ Nobody.pc = "idle"
  /\ NoLoad \in Loads /\ NoLoad.id = 0 /\ NoLoad.pc = "none" /\ NoLoad.value.id = 0
  /\ NoSubmission \in Submissions /\ NoSubmission.id = 0 /\ NoSubmission.pc = "none"
  /\ NoAttempt \in [id : Nat, channel : Channels] /\ NoAttempt.id = 0
<1>1. NoJob \in Jobs /\ NoJob.id = 0 /\ NoJob.state = "none"
  BY UpdateAssumption DEF NoJob, Jobs
<1>2. NoStatus \in Statuses /\ NoStatus.id = 0 /\ ~NoStatus.known
  BY <1>1 DEF NoStatus, Statuses
<1>3. /\ Nobody \in Handlers /\ Nobody.id = 0 /\ Nobody.kind = "none"
      /\ Nobody.from = "none" /\ Nobody.pc = "idle"
  BY UpdateAssumption DEF Nobody, Handlers
<1>4. NoLoad \in Loads /\ NoLoad.id = 0 /\ NoLoad.pc = "none" /\ NoLoad.value.id = 0
  BY <1>2 DEF NoLoad, Loads
<1>5. NoSubmission \in Submissions /\ NoSubmission.id = 0 /\ NoSubmission.pc = "none"
  BY UpdateAssumption DEF NoSubmission, Submissions
<1>6. NoAttempt \in [id : Nat, channel : Channels] /\ NoAttempt.id = 0
  BY UpdateAssumption DEF NoAttempt
<1>7. QED
  BY <1>1, <1>2, <1>3, <1>4, <1>5, <1>6

\* A job that is queued is one with the id it was submitted with.
LEMMA JobType ==
  ASSUME NEW id \in Nat, NEW c \in Channels
  PROVE  /\ Job(id, c, "pending") \in Jobs /\ Job(id, c, "pending").id = id
         /\ Job(id, c, "pending") # NoJob /\ Job(id, c, "pending").state = "pending"
  BY DEF Job, Jobs, NoJob

\* The status request of an attempt carries its id.
LEMMA AskingType ==
  ASSUME NEW attempt \in [id : Nat, channel : Channels]
  PROVE  /\ Asking(attempt) \in Loads /\ Asking(attempt).pc = "asked"
         /\ Asking(attempt).id = attempt.id /\ Asking(attempt).value.id = 0
  BY EmptyType DEF Asking, Loads, NoLoad

\* A job keeps its id and its channel when it runs.
LEMMA RunningType ==
  ASSUME NEW job \in Jobs, NEW state \in {"running", "ended", "recovery_required"}
  PROVE  /\ [job EXCEPT !.state = state] \in Jobs
         /\ [job EXCEPT !.state = state].id = job.id
         /\ [job EXCEPT !.state = state].state = state
  BY DEF Jobs

\* Troubles, attempts and visits are counted.
LEMMA SpendType ==
  ASSUME TypeOK, NEW what \in {"attempts", "troubles", "mounts"},
         Spend(what) \/ Smooth
  PROVE  spent' \in [{"attempts", "troubles", "mounts"} -> Nat]
  BY DEF TypeOK, Spend, Smooth

\* A request that is given up goes on by itself: it becomes a message, or its
\* handler answers nobody.
LEMMA GiveUpIs ==
  ASSUME TypeOK, NEW slots, GiveUp(slots)
  PROVE  /\ handler' \in Handlers /\ handler'.kind = handler.kind
         /\ handler'.id = handler.id /\ handler'.pc = handler.pc
         /\ handler'.from = IF handler.from \in slots THEN "late" ELSE handler.from
         /\ late' \in SUBSET Messages
         /\ \A m \in late' :
              \/ m \in late
              \/ m.kind = "resolve" /\ m.id = load.id
              \/ m.kind = "start" /\ m.id = submission.id /\ submission.pc = "asked"
<1>1. /\ handler \in Handlers /\ late \subseteq Messages
      /\ load \in Loads /\ submission \in Submissions
  BY DEF TypeOK
<1>2. /\ handler' \in Handlers /\ handler'.kind = handler.kind
      /\ handler'.id = handler.id /\ handler'.pc = handler.pc
      /\ handler'.from = IF handler.from \in slots THEN "late" ELSE handler.from
  BY <1>1 DEF GiveUp, Handlers
<1>3. LET resolve == Message("resolve", load.id, First)
          start == Message("start", submission.id, submission.channel)
      IN /\ resolve \in Messages /\ resolve.kind = "resolve" /\ resolve.id = load.id
         /\ start \in Messages /\ start.kind = "start" /\ start.id = submission.id
         /\ \A m \in late' : \/ m \in late
                             \/ m = resolve
                             \/ m = start /\ submission.pc = "asked"
  BY <1>1, UpdateAssumption DEF GiveUp, Message, Messages, Loads, Submissions
<1>4. QED
  BY <1>1, <1>2, <1>3

\* When the application goes down, nobody handles anything, and what the page
\* waited for is lost.
LEMMA DownIs ==
  ASSUME TypeOK, Down
  PROVE  /\ handler' = Nobody /\ requestID' = 0
         /\ load' \in Loads /\ load'.id = load.id /\ load'.value = load.value
         /\ load'.pc = IF handler.from = "load" THEN "lost" ELSE load.pc
         /\ submission' \in Submissions /\ submission'.id = submission.id
         /\ submission'.pc \in {submission.pc, "lost"}
         /\ handler.from # "submission" => submission' = submission
  BY DEF TypeOK, Down, Loads, Submissions

\* A handler that ends answers the one it works for.
LEMMA ReplyIs ==
  ASSUME TypeOK, NEW loadReply \in {"answered", "lost"}, NEW value \in Statuses,
         NEW submissionReply \in {"queued", "rejected", "lost"},
         Reply(loadReply, value, submissionReply)
  PROVE  /\ handler' = Nobody
         /\ load' \in Loads /\ load'.id = load.id
         /\ load'.value = IF handler.from = "load" THEN value ELSE load.value
         /\ load'.pc = IF handler.from = "load" THEN loadReply ELSE load.pc
         /\ submission' \in Submissions /\ submission'.id = submission.id
         /\ submission'.pc \in {submission.pc, submissionReply}
         /\ handler.from # "submission" => submission' = submission
  BY DEF TypeOK, Reply, Loads, Submissions

\* A handler that has found a job, or none: a status is answered, a submission is
\* refused, or the request is queued and its id consumed.
LEMMA ConcludeIs ==
  ASSUME TypeOK, NEW job \in Jobs, Conclude(job)
  PROVE  /\ handler' = Nobody
         /\ load' \in Loads /\ load'.id = load.id
         /\ load'.value.id \in {load.value.id, requestID, 0}
         /\ load'.pc = "answered" =>
              \/ load.pc = "answered"
              \/ handler.from = "load" /\ handler.kind = "status"
         /\ handler.from # "load" => load' = load
         /\ submission' \in Submissions /\ submission'.id = submission.id
         /\ submission'.pc \in {submission.pc, "queued", "rejected", "lost"}
         /\ handler.from # "submission" => submission' = submission
         /\ \/ UNCHANGED <<requestID, lastId, inbox>>
            \/ /\ handler.kind # "status" /\ ~Active(job)
               /\ requestID' = lastId + 1 /\ lastId' = lastId + 1
               /\ inbox' = Job(handler.id, handler.channel, "pending")
<1>1. CASE handler.kind = "status"
  <2> DEFINE value == [known |-> TRUE, id |-> requestID, version |-> version, job |-> job]
  <2>1. value \in Statuses /\ value.id = requestID
    BY DEF TypeOK, Statuses
  <2>2. Reply("answered", value, "lost") /\ UNCHANGED <<requestID, lastId, inbox>>
    BY <1>1 DEF Conclude
  <2> HIDE DEF value
  <2>3. QED
    BY <1>1, <2>1, <2>2, ReplyIs DEF Reply
<1>2. CASE handler.kind # "status"
  <2>1. /\ \E reply \in {"queued", "rejected", "lost"} : Reply("lost", NoStatus, reply)
        /\ \/ UNCHANGED <<requestID, lastId, inbox>>
           \/ /\ ~Active(job) /\ renewRequestID
              /\ inbox' = Job(handler.id, handler.channel, "pending")
    BY <1>2 DEF Conclude
  <2>2. PICK reply \in {"queued", "rejected", "lost"} : Reply("lost", NoStatus, reply)
    BY <2>1
  <2>3. NoStatus \in Statuses /\ NoStatus.id = 0
    BY EmptyType
  <2>4. /\ handler' = Nobody
        /\ load' \in Loads /\ load'.id = load.id
        /\ load'.value = IF handler.from = "load" THEN NoStatus ELSE load.value
        /\ load'.pc = IF handler.from = "load" THEN "lost" ELSE load.pc
        /\ submission' \in Submissions /\ submission'.id = submission.id
        /\ submission'.pc \in {submission.pc, reply}
        /\ handler.from # "submission" => submission' = submission
    BY <2>2, <2>3, ReplyIs
  <2>5. handler.from # "load" => load' = load
    BY <2>2 DEF Reply
  <2>6. QED
    BY <1>2, <2>1, <2>3, <2>4, <2>5 DEF renewRequestID
<1>3. QED
  BY <1>1, <1>2

\* What the three readings of the files come to.
LEMMA ReadingIs ==
  ASSUME TypeOK, ReadStatus \/ ReadInbox \/ ReadAgain
  PROVE  /\ handler.kind # "none"
         /\ UNCHANGED <<version, statusFile, installer, late, choice, known, spent>>
         /\ \/ /\ handler' \in Handlers /\ handler'.kind = handler.kind
               /\ handler'.from = handler.from /\ handler'.id = handler.id
               /\ handler'.pc = "inbox" \/ (handler'.pc = "again" /\ inbox = NoJob)
               /\ UNCHANGED <<requestID, lastId, inbox, load, submission>>
            \/ Conclude(statusFile) /\ (Active(statusFile) \/ handler.pc = "again")
            \/ Conclude(inbox) /\ inbox # NoJob
<1>1. CASE ReadStatus
  BY <1>1 DEF ReadStatus, Reading, TypeOK, Handlers
<1>2. CASE ReadInbox
  BY <1>2 DEF ReadInbox, Reading, TypeOK, Handlers
<1>3. CASE ReadAgain
  BY <1>3 DEF ReadAgain, Reading
<1>4. QED
  BY <1>1, <1>2, <1>3

\* The page that settles an attempt, or finds its submission accepted.
LEMMA LoadAnswerIs ==
  ASSUME TypeOK, LoadAnswer
  PROVE  /\ load.pc = "answered" /\ load' = NoLoad /\ status' = load.value
         /\ unresolved' \in {unresolved, NoAttempt}
         /\ settled' \in {settled, settled \union {load.id}}
         /\ settled' # settled => load.id # 0
         /\ \/ UNCHANGED <<submission, late, handler>>
            \/ /\ submission.pc # "none" /\ submission'.pc = "lost"
               /\ submission' \in Submissions /\ submission'.id = submission.id
               /\ GiveUp({"submission"})
         /\ found' \in BOOLEAN /\ unreachable' = FALSE
         /\ UNCHANGED <<requestID, lastId, version, files, installer, mounted,
                        channel, spent>>
<1>1. /\ load.pc = "answered" /\ load' = NoLoad /\ status' = load.value
      /\ unresolved' \in {unresolved, NoAttempt}
      /\ settled' \in {settled, settled \union {load.id}}
      /\ settled' # settled => load.id # 0
      /\ unreachable' = FALSE
      /\ UNCHANGED <<requestID, lastId, version, files, installer, mounted,
                     channel, spent>>
  BY DEF LoadAnswer
<1>2. found' \in BOOLEAN
  BY Zenon DEF LoadAnswer, TypeOK
<1>3. \/ UNCHANGED <<submission, late, handler>>
      \/ /\ submission.pc # "none"
         /\ submission' = [submission EXCEPT !.pc = "lost", !.accepted = TRUE]
         /\ GiveUp({"submission"})
  BY DEF LoadAnswer
<1>4. \/ UNCHANGED <<submission, late, handler>>
      \/ /\ submission.pc # "none" /\ submission'.pc = "lost"
         /\ submission' \in Submissions /\ submission'.id = submission.id
         /\ GiveUp({"submission"})
  BY <1>3 DEF TypeOK, Submissions
<1>5. QED
  BY <1>1, <1>2, <1>4

\* What the end of an attempt leaves with the page.
LEMMA InstallEndsIs ==
  ASSUME TypeOK, InstallEnds
  PROVE  /\ submission.pc # "none" /\ submission' = NoSubmission
         /\ unresolved' \in [id : Nat, channel : Channels]
         /\ unresolved'.id \in {unresolved.id, submission.id}
         /\ status' \in Statuses /\ status'.id = status.id
         /\ status'.known = status.known
         /\ load' \in Loads /\ load'.pc = "asked" /\ load'.value.id = 0
         /\ load'.id = unresolved'.id
         /\ GiveUp({"load", "submission"})
         /\ UNCHANGED <<requestID, lastId, version, files, installer, mounted,
                        channel, found, unreachable, settled, spent>>
<1>1. /\ submission \in Submissions /\ status \in Statuses
      /\ unresolved \in [id : Nat, channel : Channels]
  BY DEF TypeOK
<1>2. /\ unresolved' \in [id : Nat, channel : Channels]
      /\ unresolved'.id \in {unresolved.id, submission.id}
  BY <1>1 DEF InstallEnds, Submissions
<1>3. /\ status' \in Statuses /\ status'.id = status.id
      /\ status'.known = status.known
  <2> DEFINE job == Job(submission.id, submission.channel, "pending")
  <2>1. job \in Jobs
    BY <1>1, JobType DEF Submissions
  <2>2. status' \in {status, [status EXCEPT !.job = job]}
    BY DEF InstallEnds
  <2> HIDE DEF job
  <2>3. QED
    BY <1>1, <2>1, <2>2 DEF Statuses
<1>4. /\ load' \in Loads /\ load'.pc = "asked" /\ load'.value.id = 0
      /\ load'.id = unresolved'.id
  BY <1>2, AskingType DEF InstallEnds
<1>5. /\ submission.pc # "none" /\ submission' = NoSubmission
      /\ GiveUp({"load", "submission"})
      /\ UNCHANGED <<requestID, lastId, version, files, installer, mounted,
                     channel, found, unreachable, settled, spent>>
  BY DEF InstallEnds, submitting
<1>6. QED
  BY <1>2, <1>3, <1>4, <1>5

-----------------------------------------------------------------------------
(***************************************************************************)
(* Type correctness.                                                       *)
(***************************************************************************)
\* The first state has the right types, and nothing is under way in it.
LEMMA InitInv == Init => UpdateInv
<1> SUFFICES ASSUME Init PROVE UpdateInv
  OBVIOUS
<1> USE EmptyType
<1>1. TypeOK
  BY UpdateAssumption DEF Init, TypeOK, Workers
<1>2. IdsInv /\ PageInv /\ RequestInv
  BY DEF Init, IdsInv, PageInv, RequestInv
<1>3. FilesInv /\ RanInv
  BY DEF Init, FilesInv, RanInv
<1>4. QED
  BY <1>1, <1>2, <1>3 DEF UpdateInv

\* A step of the worker keeps the files and the worker typed.
LEMMA WorkerType ==
  ASSUME TypeOK,
         WorkerStarts \/ SaveRunning \/ RemoveRequest \/ CheckTarget \/ SaveResult
  PROVE  /\ inbox' \in Jobs /\ statusFile' \in Jobs /\ worker' \in Workers
         /\ ran' \subseteq Nat
         /\ spent' \in [{"attempts", "troubles", "mounts"} -> Nat]
         /\ UNCHANGED <<application, installed, late, choice, known, load,
                        submission>>
<1> USE EmptyType DEF Workers, Work, Quit
<1>a. /\ inbox \in Jobs /\ statusFile \in Jobs /\ worker \in Workers /\ ran \subseteq Nat
      /\ worker.job.id \in Nat
  BY DEF TypeOK, Jobs
<1>b. /\ Spend("troubles") \/ Smooth \/ UNCHANGED spent
        => spent' \in [{"attempts", "troubles", "mounts"} -> Nat]
  BY SpendType DEF TypeOK
<1>1. CASE WorkerStarts
  BY <1>1, <1>a, <1>b DEF WorkerStarts, files
<1>2. CASE SaveRunning
  <2>1. [worker.job EXCEPT !.state = "running"] \in Jobs
    BY <1>a, RunningType
  <2>2. statusFile' \in Jobs /\ worker' \in Workers
    BY <1>2, <1>a, <2>1 DEF SaveRunning
  <2>3. QED
    BY <1>2, <1>a, <1>b, <2>2 DEF SaveRunning, Trouble
<1>3. CASE RemoveRequest
  BY <1>3, <1>a, <1>b DEF RemoveRequest, Trouble
<1>4. CASE CheckTarget
  BY <1>4, <1>a, <1>b DEF CheckTarget, files
<1>5. CASE SaveResult
  <2>1. [worker.job EXCEPT !.state = worker.pc] \in Jobs
    BY <1>5, <1>a, RunningType DEF SaveResult
  <2>2. statusFile' \in Jobs /\ worker' \in Workers
    BY <1>5, <1>a, <2>1 DEF SaveResult
  <2>3. QED
    BY <1>5, <1>a, <1>b, <2>2 DEF SaveResult, Trouble
<1>6. QED
  BY <1>1, <1>2, <1>3, <1>4, <1>5

\* A handler that begins holds what it was asked for.
LEMMA BeginsType ==
  ASSUME TypeOK, StatusBegins \/ StartBegins \/ LateBegins \/ OtherBegins
  PROVE  /\ handler = Nobody
         /\ handler' \in Handlers /\ handler'.pc \in {handler.pc, "status"}
         /\ requestID' \in Nat /\ lastId' \in Nat
         /\ late' \subseteq late
         /\ submission' \in Submissions /\ submission'.id = submission.id
         /\ submission'.pc # "none" => submission.pc # "none"
         /\ spent' \in [{"attempts", "troubles", "mounts"} -> Nat]
         /\ UNCHANGED <<version, files, installer, choice, known, load>>
<1>a. /\ requestID \in Nat /\ lastId \in Nat /\ handler \in Handlers
      /\ submission \in Submissions /\ late \subseteq Messages /\ load \in Loads
      /\ spent \in [{"attempts", "troubles", "mounts"} -> Nat]
  BY DEF TypeOK
<1>b. ASSUME NEW kind \in {"status", "start"},
             NEW from \in {"load", "submission", "late"},
             NEW id \in Nat, NEW c \in Channels, Hold(kind, from, id, c, "status")
      PROVE  handler' \in Handlers /\ handler'.pc = "status"
  BY <1>b DEF Hold, Handlers
<1>c. ASSUME NEW id, Resolve(id) PROVE requestID' \in Nat /\ lastId' \in Nat
  BY <1>a, <1>c DEF Resolve, renewRequestID
<1>1. CASE StatusBegins
  <2>1. load.id \in Nat
    BY <1>a DEF Loads
  <2>2. handler' \in Handlers /\ handler'.pc = "status"
    BY <1>1, <1>b, <2>1, UpdateAssumption DEF StatusBegins
  <2>3. QED
    BY <1>1, <1>a, <1>c, <2>2 DEF StatusBegins
<1>2. CASE StartBegins
  <2>1. submission.id \in Nat /\ submission.channel \in Channels
    BY <1>a DEF Submissions
  <2>2. handler' \in Handlers /\ handler'.pc \in {handler.pc, "status"}
    BY <1>2, <1>a, <1>b, <2>1 DEF StartBegins
  <2>3. /\ submission' \in Submissions /\ submission'.id = submission.id
        /\ submission'.pc # "none" => submission.pc # "none"
    BY <1>2, <1>a DEF StartBegins, Submissions
  <2>4. QED
    BY <1>2, <1>a, <2>2, <2>3 DEF StartBegins
<1>3. CASE LateBegins
  <2>1. PICK m \in late :
          /\ late' = late \ {m}
          /\ \/ Resolve(m.id) /\ UNCHANGED handler
             \/ /\ Hold("start", "late", m.id, m.channel, "status")
                /\ UNCHANGED <<requestID, lastId>>
    BY <1>3 DEF LateBegins
  <2>2. m.id \in Nat /\ m.channel \in Channels
    BY <1>a DEF Messages
  <2>3. handler' \in Handlers /\ handler'.pc \in {handler.pc, "status"}
    BY <1>a, <1>b, <2>1, <2>2
  <2>4. requestID' \in Nat /\ lastId' \in Nat
    BY <1>a, <1>c, <2>1
  <2>5. QED
    BY <1>3, <1>a, <2>1, <2>3, <2>4 DEF LateBegins
<1>4. CASE OtherBegins
  <2>1. PICK c \in Channels : Hold("start", "late", requestID, c, "status")
    BY <1>4 DEF OtherBegins
  <2>2. handler' \in Handlers /\ handler'.pc = "status"
    BY <1>a, <1>b, <2>1
  <2>3. spent' \in [{"attempts", "troubles", "mounts"} -> Nat]
    BY <1>4, SpendType DEF OtherBegins, Trouble
  <2>4. QED
    BY <1>4, <1>a, <2>2, <2>3 DEF OtherBegins
<1>5. QED
  BY <1>1, <1>2, <1>3, <1>4

\* Every step keeps the types.
LEMMA TypeStep == TypeOK /\ [Next]_vars => TypeOK'
<1> SUFFICES ASSUME TypeOK, [Next]_vars PROVE TypeOK'
  OBVIOUS
<1> USE EmptyType
<1>s. ASSUME NEW what \in {"attempts", "troubles", "mounts"}, Spend(what) \/ Smooth
      PROVE  spent' \in [{"attempts", "troubles", "mounts"} -> Nat]
  BY <1>s, SpendType
<1>1. CASE WorkerStarts \/ SaveRunning \/ RemoveRequest \/ CheckTarget \/ SaveResult
  BY <1>1, WorkerType DEF TypeOK, application, choice, known
<1>2. CASE RunInstaller \/ Crash
  <2>1. /\ worker' \in Workers /\ installed' \in Nat /\ version' \in Nat
        /\ spent' \in [{"attempts", "troubles", "mounts"} -> Nat]
        /\ UNCHANGED <<lastId, files, ran, late, choice, known>>
    <3>1. CASE RunInstaller
      <4>1. Release[worker.job.channel] \in Nat
        BY UpdateAssumption DEF TypeOK, Workers, Jobs
      <4>2. QED
        BY <3>1, <4>1 DEF RunInstaller, TypeOK, Workers, Work
    <3>2. CASE Crash
      BY <3>2, <1>s DEF Crash, TypeOK, Workers, Quit, Trouble
    <3>3. QED
      BY <1>2, <3>1, <3>2
  <2>2. Down
    BY <1>2 DEF RunInstaller, Crash
  <2>3. QED
    BY <2>1, <2>2, DownIs DEF TypeOK, files, choice, known
<1>3. CASE StatusBegins \/ StartBegins \/ LateBegins \/ OtherBegins
  BY <1>3, BeginsType DEF TypeOK, files, installer, choice, known
<1>4. CASE ReadStatus \/ ReadInbox \/ ReadAgain
  <2>1. \/ /\ handler' \in Handlers /\ load' \in Loads /\ submission' \in Submissions
           /\ UNCHANGED <<requestID, lastId, inbox>>
        \/ Conclude(statusFile)
        \/ Conclude(inbox)
    BY <1>4, ReadingIs DEF TypeOK
  <2>2. ASSUME NEW job \in Jobs, Conclude(job)
        PROVE  /\ handler' \in Handlers /\ load' \in Loads /\ submission' \in Submissions
               /\ requestID' \in Nat /\ lastId' \in Nat /\ inbox' \in Jobs
    <3>1. Job(handler.id, handler.channel, "pending") \in Jobs
      BY JobType DEF TypeOK, Handlers
    <3>2. /\ handler' = Nobody /\ load' \in Loads /\ submission' \in Submissions
          /\ \/ UNCHANGED <<requestID, lastId, inbox>>
             \/ /\ requestID' = lastId + 1 /\ lastId' = lastId + 1
                /\ inbox' = Job(handler.id, handler.channel, "pending")
      BY <2>2, ConcludeIs
    <3>3. QED
      BY <3>1, <3>2 DEF TypeOK
  <2>3. /\ handler' \in Handlers /\ load' \in Loads /\ submission' \in Submissions
        /\ requestID' \in Nat /\ lastId' \in Nat /\ inbox' \in Jobs
    BY <2>1, <2>2 DEF TypeOK
  <2>4. UNCHANGED <<version, statusFile, installer, late, choice, known, spent>>
    BY <1>4, ReadingIs
  <2>5. QED
    BY <2>3, <2>4 DEF TypeOK, installer, choice, known
<1>5. CASE ReadFails \/ WriteFails
  <2>1. \E reply \in {"rejected", "lost"} : Reply("lost", NoStatus, reply)
    BY <1>5 DEF ReadFails, WriteFails
  <2>2. handler' = Nobody /\ load' \in Loads /\ submission' \in Submissions
    BY <2>1, ReplyIs
  <2>3. /\ requestID' \in Nat /\ lastId' \in Nat
        /\ UNCHANGED <<version, files, installer, late, choice, known>>
    BY <1>5 DEF ReadFails, WriteFails, renewRequestID, TypeOK
  <2>4. spent' \in [{"attempts", "troubles", "mounts"} -> Nat]
    BY <1>5, <1>s DEF ReadFails, WriteFails, Trouble
  <2>5. QED
    BY <2>2, <2>3, <2>4 DEF TypeOK, files, installer, choice, known
<1>6. CASE Poll \/ Refresh \/ LoadFails
  <2>1. Asking(unresolved) \in Loads
    BY AskingType DEF TypeOK
  <2>2. load' \in Loads /\ unreachable' \in BOOLEAN
    BY <1>6, <2>1 DEF Poll, Refresh, LoadFails, TypeOK, known
  <2>3. handler' \in Handlers /\ late' \subseteq Messages
    <3>1. CASE Poll
      BY <3>1 DEF Poll, TypeOK, application
    <3>2. CASE Refresh \/ LoadFails
      BY <3>2, GiveUpIs DEF Refresh, LoadFails
    <3>3. QED
      BY <1>6, <3>1, <3>2
  <2>4. spent' \in [{"attempts", "troubles", "mounts"} -> Nat]
    BY <1>6, <1>s DEF Poll, Refresh, LoadFails, Trouble, TypeOK
  <2>5. /\ UNCHANGED <<requestID, lastId, version, files, installer, choice, status,
                       unresolved, settled, submission>>
    BY <1>6 DEF Poll, Refresh, LoadFails, application, known
  <2>6. QED
    BY <2>2, <2>3, <2>4, <2>5 DEF TypeOK, files, installer, choice
<1>7. CASE LoadAnswer
  <2>1. load.value \in Statuses /\ load.id \in Nat
    BY DEF TypeOK, Loads
  <2>2. handler' \in Handlers /\ late' \subseteq Messages /\ submission' \in Submissions
    BY <1>7, LoadAnswerIs, GiveUpIs DEF TypeOK
  <2>3. QED
    BY <1>7, <2>1, <2>2, LoadAnswerIs DEF TypeOK, files, installer
<1>8. CASE findUpdate \/ CheckAnswer \/ selectChannel
  <2>1. channel' \in Channels /\ found' \in BOOLEAN
    BY <1>8 DEF findUpdate, CheckAnswer, selectChannel, TypeOK
  <2>2. UNCHANGED <<application, files, installer, late, mounted, known, load,
                    submission, spent>>
    BY <1>8 DEF findUpdate, CheckAnswer, selectChannel
  <2>3. QED
    BY <2>1, <2>2 DEF TypeOK, application, files, installer, known
<1>9. CASE install
  <2>1. submission' \in Submissions /\ load' \in Loads
    BY <1>9 DEF install, TypeOK, Statuses, Submissions
  <2>2. handler' \in Handlers /\ late' \subseteq Messages
    BY <1>9, GiveUpIs DEF install
  <2>3. spent' \in [{"attempts", "troubles", "mounts"} -> Nat]
    BY <1>9, <1>s DEF install
  <2>4. UNCHANGED <<requestID, lastId, version, files, installer, choice, known>>
    BY <1>9 DEF install
  <2>5. QED
    BY <2>1, <2>2, <2>3, <2>4 DEF TypeOK, files, installer, choice, known
<1>10. CASE InstallEnds
  BY <1>10, InstallEndsIs, GiveUpIs DEF TypeOK, files, installer
<1>11. CASE Unmount
  <2>1. handler' \in Handlers /\ late' \subseteq Messages
    BY <1>11, GiveUpIs DEF Unmount
  <2>2. /\ load' = NoLoad /\ submission' = NoSubmission /\ mounted' = FALSE
        /\ status' = NoStatus /\ unreachable' = FALSE /\ unresolved' = NoAttempt
        /\ channel' = First /\ found' = FALSE
        /\ UNCHANGED <<requestID, lastId, version, files, installer, settled, spent>>
    BY <1>11 DEF Unmount
  <2>3. QED
    BY <2>1, <2>2, UpdateAssumption DEF TypeOK, files, installer
<1>12. CASE Mount
  <2>1. load' \in Loads
    BY <1>12, AskingType DEF Mount
  <2>2. spent' \in [{"attempts", "troubles", "mounts"} -> Nat]
    BY <1>12, <1>s DEF Mount
  <2>3. /\ mounted' = TRUE
        /\ UNCHANGED <<application, files, installer, late, channel, found, known,
                       submission>>
    BY <1>12 DEF Mount
  <2>4. QED
    BY <2>1, <2>2, <2>3 DEF TypeOK, application, files, installer, known
<1>13. CASE UNCHANGED vars
  BY <1>13 DEF TypeOK, vars, application, files, installer, choice, known
<1>14. QED
  BY <1>1, <1>2, <1>3, <1>4, <1>5, <1>6, <1>7, <1>8, <1>9, <1>10, <1>11, <1>12,
     <1>13 DEF Next, Worker

-----------------------------------------------------------------------------
(***************************************************************************)
(* Request ids.                                                            *)
(***************************************************************************)
\* The ids of everything but the application's own request id.
Ids == {inbox.id, statusFile.id, worker.job.id, handler.id, load.id, load.value.id,
        submission.id, status.id, unresolved.id}
       \union {m.id : m \in late} \union ran \union settled

\* A step brings up no id that was not there before, but for the present one.
LEMMA IdsAreKnown ==
  ASSUME TypeOK, [Next]_vars
  PROVE  Ids' \subseteq Ids \union {0, requestID}
<1> USE EmptyType
<1>1. CASE WorkerStarts \/ SaveRunning \/ RemoveRequest \/ CheckTarget \/ SaveResult
  <2>1. /\ UNCHANGED <<handler, late, status, unresolved, settled, load, submission>>
    BY <1>1, WorkerType DEF application, known
  <2>2. {inbox.id, statusFile.id, worker.job.id}' \union ran'
          \subseteq {0, inbox.id, statusFile.id, worker.job.id} \union ran
    <3>1. worker.job \in Jobs /\ worker \in Workers
      BY DEF TypeOK, Workers
    <3>2. CASE WorkerStarts
      BY <3>1, <3>2 DEF WorkerStarts, files
    <3>3. CASE SaveRunning
      <4>1. /\ statusFile' \in {statusFile, [worker.job EXCEPT !.state = "running"]}
            /\ worker'.job \in {worker.job, NoJob} /\ UNCHANGED <<inbox, ran>>
        BY <3>1, <3>3 DEF SaveRunning, Work, Quit, Workers
      <4>2. [worker.job EXCEPT !.state = "running"].id = worker.job.id
        BY <3>1, RunningType
      <4>3. statusFile'.id \in {statusFile.id, worker.job.id}
        BY <4>1, <4>2
      <4>4. QED
        BY <4>1, <4>3
    <3>4. CASE RemoveRequest
      BY <3>1, <3>4 DEF RemoveRequest, Work, Quit, Workers
    <3>5. CASE CheckTarget
      BY <3>1, <3>5 DEF CheckTarget, Work, Workers, files
    <3>6. CASE SaveResult
      <4>1. /\ statusFile' \in {statusFile, [worker.job EXCEPT !.state = worker.pc]}
            /\ worker'.job = NoJob /\ UNCHANGED <<inbox, ran>>
            /\ worker.pc \in {"running", "ended", "recovery_required"}
        BY <3>1, <3>6 DEF SaveResult, Quit
      <4>2. [worker.job EXCEPT !.state = worker.pc].id = worker.job.id
        BY <3>1, <4>1, RunningType
      <4>3. statusFile'.id \in {statusFile.id, worker.job.id}
        BY <4>1, <4>2
      <4>4. QED
        BY <4>1, <4>3
    <3>7. QED
      BY <1>1, <3>2, <3>3, <3>4, <3>5, <3>6
  <2>3. QED
    BY <2>1, <2>2 DEF Ids
<1>2. CASE RunInstaller \/ Crash
  <2>1. /\ worker'.job \in {worker.job, NoJob} /\ Down
        /\ UNCHANGED <<files, ran, late, known>>
    BY <1>2 DEF RunInstaller, Crash, Work, Quit, TypeOK, Workers
  <2>2. QED
    BY <2>1, DownIs DEF Ids, files, known
<1>3. CASE StatusBegins \/ StartBegins \/ LateBegins \/ OtherBegins
  <2>1. handler'.id \in {handler.id, load.id, submission.id, requestID}
                          \union {m.id : m \in late}
    BY <1>3
       DEF StatusBegins, StartBegins, LateBegins, OtherBegins, Hold, Acceptable
  <2>2. /\ late' \subseteq late /\ submission'.id = submission.id
        /\ UNCHANGED <<files, worker, ran, load, status, unresolved, settled>>
    BY <1>3, BeginsType DEF installer, known
  <2>3. QED
    BY <2>1, <2>2 DEF Ids, files
<1>4. CASE ReadStatus \/ ReadInbox \/ ReadAgain
  <2>1. UNCHANGED <<statusFile, worker, ran, late, status, unresolved, settled>>
    BY <1>4, ReadingIs DEF installer, known
  <2>2. ASSUME NEW job \in Jobs, Conclude(job)
        PROVE  /\ handler'.id = 0 /\ load'.id = load.id
               /\ load'.value.id \in {load.value.id, requestID, 0}
               /\ submission'.id = submission.id
               /\ inbox'.id \in {inbox.id, handler.id}
    <3>1. Job(handler.id, handler.channel, "pending").id = handler.id
      BY JobType DEF TypeOK, Handlers
    <3>2. QED
      BY <2>2, <3>1, ConcludeIs
  <2>3. /\ handler'.id \in {handler.id, 0} /\ load'.id = load.id
        /\ load'.value.id \in {load.value.id, requestID, 0}
        /\ submission'.id = submission.id
        /\ inbox'.id \in {inbox.id, handler.id}
    <3>1. CASE Conclude(statusFile) \/ Conclude(inbox)
      BY <2>2, <3>1 DEF TypeOK
    <3>2. CASE handler'.id = handler.id /\ UNCHANGED <<inbox, load, submission>>
      BY <3>2
    <3>3. QED
      BY <1>4, <3>1, <3>2, ReadingIs
  <2>4. QED
    BY <2>1, <2>3 DEF Ids
<1>5. CASE ReadFails \/ WriteFails
  <2>1. \E reply \in {"rejected", "lost"} : Reply("lost", NoStatus, reply)
    BY <1>5 DEF ReadFails, WriteFails
  <2>2. /\ handler'.id = 0 /\ load'.id = load.id /\ load'.value.id \in {load.value.id, 0}
        /\ submission'.id = submission.id
    BY <2>1, ReplyIs
  <2>3. UNCHANGED <<files, installer, late, known>>
    BY <1>5 DEF ReadFails, WriteFails
  <2>4. QED
    BY <2>2, <2>3 DEF Ids, files, installer, known
<1>g. ASSUME NEW slots, GiveUp(slots)
      PROVE  /\ handler'.id = handler.id
             /\ \A m \in late' : m \in late \/ m.id \in {load.id, submission.id}
  BY <1>g, GiveUpIs
<1>6. CASE Poll \/ Refresh \/ LoadFails
  <2>1. load'.id \in {0, unresolved.id} /\ load'.value.id = 0
    BY <1>6, AskingType DEF Poll, Refresh, LoadFails, TypeOK
  <2>2. /\ handler'.id = handler.id
        /\ \A m \in late' : m \in late \/ m.id \in {load.id, submission.id}
    BY <1>6, <1>g DEF Poll, Refresh, LoadFails, application
  <2>3. UNCHANGED <<files, worker, ran, status, unresolved, settled, submission>>
    BY <1>6 DEF Poll, Refresh, LoadFails, installer, known
  <2>4. QED
    BY <2>1, <2>2, <2>3 DEF Ids, files
<1>7. CASE LoadAnswer
  <2>1. /\ load' = NoLoad /\ status' = load.value
        /\ unresolved' \in {unresolved, NoAttempt}
        /\ settled' \subseteq settled \union {load.id}
        /\ submission'.id = submission.id
        /\ UNCHANGED <<files, worker, ran>>
    BY <1>7, LoadAnswerIs DEF installer
  <2>2. /\ handler'.id = handler.id
        /\ \A m \in late' : m \in late \/ m.id \in {load.id, submission.id}
    BY <1>7, <1>g, LoadAnswerIs
  <2>3. QED
    BY <2>1, <2>2 DEF Ids, files
<1>8. CASE findUpdate \/ CheckAnswer \/ selectChannel
  BY <1>8
     DEF findUpdate, CheckAnswer, selectChannel, Ids, application, files, installer,
         known
<1>9. CASE install
  <2>1. /\ submission'.id = status.id /\ load' = NoLoad
        /\ UNCHANGED <<files, installer, known>>
    BY <1>9 DEF install
  <2>2. /\ handler'.id = handler.id
        /\ \A m \in late' : m \in late \/ m.id \in {load.id, submission.id}
    BY <1>9, <1>g DEF install
  <2>3. QED
    BY <2>1, <2>2 DEF Ids, files, installer, known
<1>10. CASE InstallEnds
  <2>1. /\ handler'.id = handler.id
        /\ \A m \in late' : m \in late \/ m.id \in {load.id, submission.id}
    BY <1>10, <1>g, InstallEndsIs
  <2>2. QED
    BY <1>10, <2>1, InstallEndsIs DEF Ids, files, installer
<1>11. CASE Unmount
  <2>1. /\ handler'.id = handler.id
        /\ \A m \in late' : m \in late \/ m.id \in {load.id, submission.id}
    BY <1>11, <1>g DEF Unmount
  <2>2. /\ load' = NoLoad /\ submission' = NoSubmission /\ status' = NoStatus
        /\ unresolved' = NoAttempt /\ UNCHANGED <<files, installer, settled>>
    BY <1>11 DEF Unmount
  <2>3. QED
    BY <2>1, <2>2 DEF Ids, files, installer
<1>12. CASE Mount
  <2>1. load'.id = 0 /\ load'.value.id = 0
    BY <1>12, AskingType DEF Mount
  <2>2. UNCHANGED <<application, files, installer, late, known, submission>>
    BY <1>12 DEF Mount
  <2>3. QED
    BY <2>1, <2>2 DEF Ids, application, files, installer, known
<1>13. CASE UNCHANGED vars
  BY <1>13 DEF Ids, vars, application, files, installer, known
<1>14. QED
  BY <1>1, <1>2, <1>3, <1>4, <1>5, <1>6, <1>7, <1>8, <1>9, <1>10, <1>11, <1>12,
     <1>13 DEF Next, Worker

\* A new request id is one that was never given out.
LEMMA RequestIDStep ==
  ASSUME TypeOK, [Next]_vars
  PROVE  \/ requestID' \in {requestID, 0} /\ lastId' = lastId
         \/ requestID' = lastId + 1 /\ lastId' = lastId + 1
<1>1. CASE WorkerStarts \/ SaveRunning \/ RemoveRequest \/ CheckTarget \/ SaveResult
  BY <1>1, WorkerType DEF application
<1>2. CASE RunInstaller \/ Crash
  BY <1>2, DownIs DEF RunInstaller, Crash
<1>3. CASE StatusBegins \/ StartBegins \/ LateBegins \/ OtherBegins
  BY <1>3
     DEF StatusBegins, StartBegins, LateBegins, OtherBegins, Resolve, renewRequestID
<1>4. CASE ReadStatus \/ ReadInbox \/ ReadAgain
  <2>1. statusFile \in Jobs /\ inbox \in Jobs
    BY DEF TypeOK
  <2>2. QED
    BY <1>4, <2>1, ReadingIs, ConcludeIs
<1>5. CASE ReadFails \/ WriteFails
  BY <1>5 DEF ReadFails, WriteFails, renewRequestID
<1>6. CASE Poll \/ Refresh \/ LoadFails \/ findUpdate \/ CheckAnswer
           \/ selectChannel \/ install \/ Unmount \/ Mount
  BY <1>6
     DEF Poll, Refresh, LoadFails, findUpdate, CheckAnswer, selectChannel, install,
         Unmount, Mount, application
<1>7. CASE LoadAnswer \/ InstallEnds
  BY <1>7, LoadAnswerIs, InstallEndsIs
<1>8. CASE UNCHANGED vars
  BY <1>8 DEF vars, application
<1>9. QED
  BY <1>1, <1>2, <1>3, <1>4, <1>5, <1>6, <1>7, <1>8 DEF Next, Worker

\* The ids of a typed state, and those of the invariant.
LEMMA IdsInvIs ==
  /\ TypeOK => Ids \subseteq Nat
  /\ IdsInv <=> requestID <= lastId /\ \A id \in Ids : id <= lastId
<1>1. TypeOK => Ids \subseteq Nat
  <2> SUFFICES ASSUME TypeOK PROVE Ids \subseteq Nat
    OBVIOUS
  <2>1. /\ inbox.id \in Nat /\ statusFile.id \in Nat /\ worker.job.id \in Nat
        /\ handler.id \in Nat
    BY DEF TypeOK, Jobs, Workers, Handlers
  <2>2. /\ load.id \in Nat /\ load.value.id \in Nat /\ submission.id \in Nat
        /\ status.id \in Nat /\ unresolved.id \in Nat
    BY DEF TypeOK, Loads, Statuses, Submissions
  <2>3. \A m \in late : m.id \in Nat
    BY DEF TypeOK, Messages
  <2>4. ran \subseteq Nat /\ settled \subseteq Nat
    BY DEF TypeOK
  <2>5. QED
    BY <2>1, <2>2, <2>3, <2>4 DEF Ids
<1>2. IdsInv <=> requestID <= lastId /\ \A id \in Ids : id <= lastId
  BY DEF IdsInv, Ids
<1>3. QED
  BY <1>1, <1>2

\* Every id is one that was given out.
LEMMA IdsStep ==
  ASSUME TypeOK, TypeOK', IdsInv, [Next]_vars
  PROVE  IdsInv'
<1>1. requestID \in Nat /\ lastId \in Nat /\ Ids \subseteq Nat
  BY IdsInvIs DEF TypeOK
<1>2. requestID <= lastId /\ \A id \in Ids : id <= lastId
  BY IdsInvIs
<1>3. Ids' \subseteq Ids \union {0, requestID}
  BY IdsAreKnown
<1>4. lastId' >= lastId /\ requestID' <= lastId' /\ lastId' \in Nat
  BY <1>1, <1>2, RequestIDStep
<1>5. \A id \in Ids' : id <= lastId'
  BY <1>1, <1>2, <1>3, <1>4
<1>6. (IdsInv <=> requestID <= lastId /\ \A id \in Ids : id <= lastId)'
  BY IdsInvIs, PTL
<1>7. QED
  BY <1>4, <1>5, <1>6

\* The page waits for a status, and has an id for what it submits, as before.
LEMMA PageStep ==
  ASSUME TypeOK, PageInv, [Next]_vars
  PROVE  PageInv'
<1> USE EmptyType
<1>1. CASE WorkerStarts \/ SaveRunning \/ RemoveRequest \/ CheckTarget \/ SaveResult
  BY <1>1, WorkerType DEF PageInv, application, choice, known
<1>2. CASE RunInstaller \/ Crash
  <2>1. Down /\ UNCHANGED <<late, choice, known>>
    BY <1>2 DEF RunInstaller, Crash
  <2>2. /\ handler'.from = "none"
        /\ load'.pc = IF handler.from = "load" THEN "lost" ELSE load.pc
        /\ submission'.id = submission.id
        /\ submission'.pc \in {submission.pc, "lost"}
        /\ handler.from # "submission" => submission' = submission
    BY <2>1, DownIs
  <2>3. QED
    BY <2>1, <2>2 DEF PageInv, choice, known
<1>3. CASE StatusBegins
  <2>1. /\ handler' = [kind |-> "status", from |-> "load", id |-> load.id,
                       channel |-> First, pc |-> "status"]
        /\ load.pc = "asked" /\ UNCHANGED <<late, choice, known, load, submission>>
    BY <1>3 DEF StatusBegins, Hold
  <2>2. QED
    BY <2>1 DEF PageInv, choice, known
<1>4. CASE StartBegins
  <2>1. /\ handler'.from \in {"submission", handler.from} /\ handler.from = "none"
        /\ submission'.id = submission.id /\ submission.pc = "asked"
        /\ submission'.pc \in {submission.pc, "rejected"}
        /\ UNCHANGED <<late, choice, known, load>>
    BY <1>4 DEF StartBegins, Hold, TypeOK, Submissions
  <2>2. QED
    BY <2>1 DEF PageInv, choice, known
<1>5. CASE LateBegins \/ OtherBegins
  <2>1. /\ handler'.from \in {"late", "none"} /\ late' \subseteq late
        /\ UNCHANGED <<choice, known, load, submission>>
    BY <1>5 DEF LateBegins, OtherBegins, Hold
  <2>2. QED
    BY <2>1 DEF PageInv, choice, known
<1>6. ASSUME NEW job \in Jobs, Conclude(job), UNCHANGED <<late, choice, known>>
      PROVE  PageInv'
  BY <1>6, ConcludeIs DEF PageInv, choice, known
<1>7. CASE ReadStatus \/ ReadInbox \/ ReadAgain
  <2>1. UNCHANGED <<late, choice, known>>
    BY <1>7, ReadingIs
  <2>2. \/ /\ handler'.from = handler.from /\ handler'.kind = handler.kind
           /\ handler'.id = handler.id /\ UNCHANGED <<load, submission>>
        \/ \E job \in Jobs : Conclude(job)
    BY <1>7, ReadingIs DEF TypeOK
  <2>3. QED
    BY <1>6, <2>1, <2>2 DEF PageInv, choice, known
<1>8. CASE ReadFails \/ WriteFails
  <2>1. \E reply \in {"rejected", "lost"} : Reply("lost", NoStatus, reply)
    BY <1>8 DEF ReadFails, WriteFails
  <2>2. /\ handler'.from = "none"
        /\ load'.pc = IF handler.from = "load" THEN "lost" ELSE load.pc
        /\ submission'.id = submission.id
        /\ submission'.pc \in {submission.pc, "rejected", "lost"}
        /\ handler.from # "submission" => submission' = submission
    BY <2>1, ReplyIs
  <2>3. UNCHANGED <<late, choice, known>>
    BY <1>8 DEF ReadFails, WriteFails
  <2>4. QED
    BY <2>2, <2>3 DEF PageInv, choice, known
<1>g. ASSUME NEW slots, GiveUp(slots)
      PROVE  /\ handler'.kind = handler.kind /\ handler'.id = handler.id
             /\ handler'.from = IF handler.from \in slots THEN "late" ELSE handler.from
             /\ \A m \in late' : m.kind = "start" => m.id # 0
  <2>1. /\ handler'.kind = handler.kind /\ handler'.id = handler.id
        /\ handler'.from = IF handler.from \in slots THEN "late" ELSE handler.from
        /\ \A m \in late' :
             \/ m \in late
             \/ m.kind = "resolve" /\ m.id = load.id
             \/ m.kind = "start" /\ m.id = submission.id /\ submission.pc = "asked"
    BY <1>g, GiveUpIs
  <2>2. QED
    BY <2>1 DEF PageInv
<1>9. CASE Poll
  <2>1. /\ load.pc = "none" /\ mounted
        /\ UNCHANGED <<handler, late, choice, known, submission>>
    BY <1>9 DEF Poll, application
  <2>2. QED
    BY <2>1 DEF PageInv, choice, known
<1>10. CASE Refresh \/ LoadFails
  <2>1. GiveUp({"load"}) /\ (mounted \/ load'.pc = "none")
    BY <1>10 DEF Refresh, LoadFails
  <2>2. mounted' = mounted /\ status' = status /\ submission' = submission
    BY <1>10 DEF Refresh, LoadFails, choice, known
  <2>3. QED
    BY <1>g, <2>1, <2>2 DEF PageInv
<1>11. CASE LoadAnswer
  <2>1. /\ load.pc = "answered" /\ load'.pc = "none" /\ mounted' = mounted
    BY <1>11, LoadAnswerIs
  <2>2. mounted /\ handler.from # "load"
    BY <2>1 DEF PageInv
  <2>3. \/ UNCHANGED <<submission, late, handler>>
        \/ /\ submission.pc # "none" /\ submission'.id = submission.id
           /\ GiveUp({"submission"})
    BY <1>11, LoadAnswerIs
  <2>4. QED
    BY <1>g, <2>1, <2>2, <2>3 DEF PageInv
<1>12. CASE install
  <2>1. /\ status.known /\ status.id # 0 /\ submission.pc = "none"
        /\ submission'.id = status.id /\ submission'.pc = "asked"
        /\ load'.pc = "none" /\ GiveUp({"load"}) /\ UNCHANGED <<choice, known>>
    BY <1>12 DEF install, canUpdate, submitting
  <2>2. handler'.from # "load" /\ mounted
    BY <1>g, <2>1 DEF PageInv
  <2>3. QED
    BY <1>g, <2>1, <2>2 DEF PageInv, choice, known
<1>13. CASE InstallEnds
  <2>1. /\ submission.pc # "none" /\ submission'.pc = "none"
        /\ GiveUp({"load", "submission"}) /\ mounted' = mounted
    BY <1>13, InstallEndsIs
  <2>2. handler'.from \notin {"load", "submission"} /\ mounted
    BY <1>g, <2>1 DEF PageInv
  <2>3. QED
    BY <1>g, <2>1, <2>2 DEF PageInv
<1>14. CASE Unmount
  <2>1. /\ submission' = NoSubmission /\ load' = NoLoad /\ status' = NoStatus
        /\ GiveUp({"load", "submission"})
    BY <1>14 DEF Unmount
  <2>2. QED
    BY <1>g, <2>1 DEF PageInv
<1>15. CASE Mount
  <2>1. /\ ~mounted /\ mounted' = TRUE /\ UNCHANGED <<handler, late, submission>>
    BY <1>15 DEF Mount, application
  <2>2. QED
    BY <2>1 DEF PageInv
<1>16. CASE findUpdate \/ CheckAnswer \/ selectChannel \/ UNCHANGED vars
  BY <1>16
     DEF findUpdate, CheckAnswer, selectChannel, vars, PageInv, application, choice,
         known
<1>17. QED
  BY <1>1, <1>2, <1>3, <1>4, <1>5, <1>7, <1>8, <1>9, <1>10, <1>11, <1>12, <1>13,
     <1>14, <1>15, <1>16 DEF Next, Worker

\* What becomes queued, installed or void while the request id stays the same was
\* so already, or is the attempt that the page has just settled.
LEMMA UsedStep ==
  ASSUME TypeOK, [Next]_vars
  PROVE  \/ requestID' = lastId + 1
         \/ /\ ran' \union {inbox'.id, worker'.job.id}
                 \subseteq ran \union {0, inbox.id, worker.job.id}
            /\ \A id \in settled' \ settled :
                 load.pc = "answered" /\ id = load.id /\ id # 0
<1> USE EmptyType
<1>a. worker \in Workers
  BY DEF TypeOK
<1>1. CASE WorkerStarts
  BY <1>1 DEF WorkerStarts, files, known
<1>2. CASE SaveRunning \/ RemoveRequest \/ SaveResult
  <2>1. /\ worker'.job \in {worker.job, NoJob} /\ inbox' \in {inbox, NoJob}
        /\ UNCHANGED <<ran, settled>>
    BY <1>2, <1>a DEF SaveRunning, RemoveRequest, SaveResult, Work, Quit, Workers, known
  <2>2. QED
    BY <2>1
<1>3. CASE CheckTarget
  BY <1>3, <1>a DEF CheckTarget, Work, Workers, files, known
<1>4. CASE RunInstaller \/ Crash
  <2>1. worker'.job \in {worker.job, NoJob} /\ UNCHANGED <<inbox, ran, settled>>
    BY <1>4, <1>a DEF RunInstaller, Crash, Work, Quit, Workers, files, known
  <2>2. QED
    BY <2>1
<1>5. CASE StatusBegins \/ StartBegins \/ LateBegins \/ OtherBegins
  BY <1>5, BeginsType DEF files, installer, known
<1>6. CASE ReadStatus \/ ReadInbox \/ ReadAgain
  <2>1. UNCHANGED <<worker, ran, settled>>
    BY <1>6, ReadingIs DEF installer, known
  <2>2. inbox' = inbox \/ requestID' = lastId + 1
    BY <1>6, ReadingIs, ConcludeIs DEF TypeOK
  <2>3. QED
    BY <2>1, <2>2
<1>7. CASE ReadFails \/ WriteFails
  BY <1>7 DEF ReadFails, WriteFails, files, installer, known
<1>8. CASE LoadAnswer
  BY <1>8, LoadAnswerIs DEF files, installer
<1>9. CASE InstallEnds
  BY <1>9, InstallEndsIs DEF files, installer
<1>10. CASE \/ Poll \/ Refresh \/ LoadFails \/ findUpdate \/ CheckAnswer
            \/ selectChannel \/ install \/ Unmount \/ Mount
  BY <1>10
     DEF Poll, Refresh, LoadFails, findUpdate, CheckAnswer, selectChannel, install,
         Unmount, Mount, files, installer, known
<1>11. CASE UNCHANGED vars
  BY <1>11 DEF vars, files, installer, known
<1>12. QED
  BY <1>1, <1>2, <1>3, <1>4, <1>5, <1>6, <1>7, <1>8, <1>9, <1>10, <1>11
     DEF Next, Worker

\* A status that is asked for is served, or answered, as before.
ServedAsBefore ==
  /\ handler'.kind = "start" =>
       /\ handler.kind = "start" /\ handler'.id = handler.id
       /\ requestID' = requestID
  /\ load'.id # 0 /\ (handler'.from = "load" \/ load'.pc = "answered") =>
       load'.id = load.id /\ (handler.from = "load" \/ load.pc = "answered")

\* Every step but the beginning of a handler serves as before.
LEMMA ServedStep ==
  ASSUME TypeOK, PageInv, [Next]_vars
  PROVE  ServedAsBefore \/ StatusBegins \/ StartBegins \/ LateBegins \/ OtherBegins
<1> USE EmptyType DEF ServedAsBefore
<1>1. CASE WorkerStarts \/ SaveRunning \/ RemoveRequest \/ CheckTarget \/ SaveResult
  BY <1>1, WorkerType DEF application
<1>2. CASE RunInstaller \/ Crash
  BY <1>2, DownIs DEF RunInstaller, Crash
<1>3. CASE ReadStatus \/ ReadInbox \/ ReadAgain
  <2>1. \/ /\ handler'.from = handler.from /\ handler'.kind = handler.kind
           /\ handler'.id = handler.id /\ UNCHANGED <<load, requestID>>
        \/ \E job \in Jobs : Conclude(job)
    BY <1>3, ReadingIs DEF TypeOK
  <2>2. ASSUME NEW job \in Jobs, Conclude(job) PROVE ServedAsBefore
    BY <2>2, ConcludeIs
  <2>3. QED
    BY <2>1, <2>2
<1>4. CASE ReadFails \/ WriteFails
  <2>1. \E reply \in {"rejected", "lost"} : Reply("lost", NoStatus, reply)
    BY <1>4 DEF ReadFails, WriteFails
  <2>2. /\ handler' = Nobody /\ load'.id = load.id
        /\ load'.pc \in {"lost", load.pc}
    BY <2>1, ReplyIs
  <2>3. QED
    BY <2>2
<1>g. ASSUME NEW slots, GiveUp(slots)
      PROVE  /\ handler'.kind = handler.kind /\ handler'.id = handler.id
             /\ handler'.from = IF handler.from \in slots THEN "late" ELSE handler.from
  BY <1>g, GiveUpIs
<1>5. ASSUME NEW slots, GiveUp(slots), "load" \in slots, requestID' = requestID,
             load'.pc # "answered"
      PROVE  ServedAsBefore
  <2>1. handler'.from # "load"
    BY <1>5, <1>g
  <2>2. QED
    BY <1>5, <1>g, <2>1
<1>6. CASE Poll
  <2>1. /\ load.pc = "none" /\ UNCHANGED <<handler, requestID>>
    BY <1>6 DEF Poll, application
  <2>2. load'.pc = "asked"
    BY <1>6, AskingType DEF Poll, TypeOK
  <2>3. QED
    BY <2>1, <2>2 DEF PageInv
<1>7. CASE Refresh \/ LoadFails \/ install \/ Unmount
  <2>1. /\ \E slots : GiveUp(slots) /\ "load" \in slots
        /\ requestID' = requestID
    BY <1>7 DEF Refresh, LoadFails, install, Unmount
  <2>2. load' = NoLoad \/ load' = Asking(unresolved)
    BY <1>7 DEF Refresh, LoadFails, install, Unmount
  <2>3. load'.pc # "answered"
    BY <2>2, AskingType DEF TypeOK
  <2>4. QED
    BY <1>5, <2>1, <2>3
<1>8. CASE LoadAnswer
  <2>1. load'.id = 0 /\ requestID' = requestID
    BY <1>8, LoadAnswerIs
  <2>2. handler'.kind = handler.kind /\ handler'.id = handler.id
    BY <1>8, <1>g, LoadAnswerIs
  <2>3. QED
    BY <2>1, <2>2
<1>9. CASE InstallEnds
  <2>1. /\ GiveUp({"load", "submission"}) /\ requestID' = requestID
        /\ load'.pc = "asked"
    BY <1>9, InstallEndsIs
  <2>2. QED
    BY <1>5, <2>1
<1>10. CASE Mount
  <2>1. load'.id = 0 /\ UNCHANGED <<handler, requestID>>
    BY <1>10, AskingType DEF Mount, application
  <2>2. QED
    BY <2>1
<1>11. CASE findUpdate \/ CheckAnswer \/ selectChannel \/ UNCHANGED vars
  BY <1>11 DEF findUpdate, CheckAnswer, selectChannel, vars, application
<1>12. QED
  BY <1>1, <1>2, <1>3, <1>4, <1>6, <1>7, <1>8, <1>9, <1>10, <1>11 DEF Next, Worker

\* The present request id stays a new one.
LEMMA RequestStep ==
  ASSUME TypeOK, IdsInv, PageInv, RequestInv, [Next]_vars
  PROVE  RequestInv'
<1>a. /\ requestID \in Nat /\ lastId \in Nat /\ Ids \subseteq Nat
      /\ requestID <= lastId /\ \A id \in Ids : id <= lastId
  BY IdsInvIs DEF TypeOK
<1>b. \A id \in Ids' : id # lastId + 1
  BY <1>a, IdsAreKnown
<1>c. ran' \union settled' \union {inbox'.id, worker'.job.id, load'.id}
        \subseteq Ids'
  BY DEF Ids
<1>1. requestID' # 0 =>
        requestID' \notin ran' \union settled' \union {inbox'.id, worker'.job.id}
  <2>1. CASE requestID' = lastId + 1
    BY <1>b, <1>c, <2>1
  <2>2. CASE requestID' # lastId + 1 /\ requestID' # 0
    <3>1. requestID' = requestID /\ requestID # 0
      BY <2>2, RequestIDStep
    <3>2. /\ ran' \union {inbox'.id, worker'.job.id}
               \subseteq ran \union {0, inbox.id, worker.job.id}
          /\ \A id \in settled' \ settled :
               load.pc = "answered" /\ id = load.id /\ id # 0
      BY <2>2, UsedStep
    <3>3. QED
      BY <3>1, <3>2 DEF RequestInv
  <2>3. QED
    BY <2>1, <2>2
<1>2. handler'.kind = "start" => handler'.id = requestID' /\ requestID' # 0
  <2>1. CASE ServedAsBefore
    BY <2>1 DEF ServedAsBefore, RequestInv
  <2>2. CASE StatusBegins
    BY <2>2 DEF StatusBegins, Hold
  <2>3. CASE StartBegins
    BY <2>3, EmptyType DEF StartBegins, Hold, Acceptable, PageInv, RequestInv
  <2>4. CASE LateBegins
    BY <2>4, EmptyType DEF LateBegins, Hold, Acceptable, PageInv, RequestInv
  <2>5. CASE OtherBegins
    BY <2>5 DEF OtherBegins, Hold
  <2>6. QED
    BY <2>1, <2>2, <2>3, <2>4, <2>5, ServedStep
<1>3. load'.id # 0 /\ (handler'.from = "load" \/ load'.pc = "answered") =>
        requestID' # load'.id
  <2>1. CASE requestID' = lastId + 1
    BY <1>b, <1>c, <2>1
  <2>2. CASE requestID' = 0
    BY <2>2
  <2>3. CASE requestID' = requestID /\ requestID' # lastId + 1
    <3>1. CASE ServedAsBefore
      BY <2>3, <3>1 DEF ServedAsBefore, RequestInv
    <3>2. CASE StatusBegins
      BY <2>3, <3>2 DEF StatusBegins, Resolve, renewRequestID
    <3>3. CASE StartBegins \/ LateBegins \/ OtherBegins
      <4>1. load' = load /\ handler'.from # "load"
        BY <3>3, EmptyType DEF StartBegins, LateBegins, OtherBegins, Hold
      <4>2. QED
        BY <2>3, <4>1 DEF RequestInv
    <3>4. QED
      BY <3>1, <3>2, <3>3, ServedStep
  <2>4. QED
    BY <2>1, <2>2, <2>3, RequestIDStep
<1>4. QED
  BY <1>1, <1>2, <1>3 DEF RequestInv

-----------------------------------------------------------------------------
(***************************************************************************)
(* The two files.                                                          *)
(***************************************************************************)
\* What the handlers rely on while they read stays so, and a handler queues a
\* request only where there is none and no job is active.
LEMMA QueueStep ==
  ASSUME TypeOK, FilesInv, ReadStatus \/ ReadInbox \/ ReadAgain
  PROVE  /\ UNCHANGED <<statusFile, worker, ran>>
         /\ handler'.pc = "again" => inbox' = NoJob
         /\ \/ inbox' = inbox
            \/ /\ inbox = NoJob /\ ~Active(statusFile)
               /\ inbox' # NoJob /\ inbox'.state = "pending" /\ inbox'.id = handler.id
               /\ handler.kind = "start"
<1>1. /\ UNCHANGED <<statusFile, worker, ran>> /\ handler.kind # "none"
  BY ReadingIs DEF installer
<1>2. CASE /\ handler'.pc = "inbox" \/ (handler'.pc = "again" /\ inbox = NoJob)
           /\ inbox' = inbox
  BY <1>1, <1>2
<1>3. ASSUME NEW job \in Jobs, Conclude(job),
             \/ job = statusFile /\ (Active(statusFile) \/ handler.pc = "again")
             \/ job = inbox /\ inbox # NoJob
      PROVE  /\ handler'.pc = "idle"
             /\ \/ inbox' = inbox
                \/ /\ inbox = NoJob /\ ~Active(statusFile)
                   /\ inbox' # NoJob /\ inbox'.state = "pending"
                   /\ inbox'.id = handler.id /\ handler.kind = "start"
  <2>1. /\ handler' = Nobody
        /\ \/ inbox' = inbox
           \/ /\ handler.kind # "status" /\ ~Active(job)
              /\ inbox' = Job(handler.id, handler.channel, "pending")
    BY <1>3, ConcludeIs
  <2>2. LET new == Job(handler.id, handler.channel, "pending")
        IN new # NoJob /\ new.state = "pending" /\ new.id = handler.id
    BY JobType DEF TypeOK, Handlers
  <2>3. handler.kind \in {"none", "status", "start"}
    BY DEF TypeOK, Handlers
  <2>4. ~Active(job) => inbox = NoJob /\ ~Active(statusFile)
    BY <1>3 DEF FilesInv, Active
  <2>5. QED
    BY <1>1, <2>1, <2>2, <2>3, <2>4, EmptyType
<1>4. QED
  BY <1>1, <1>2, <1>3, ReadingIs DEF TypeOK

\* Neither the beginning of a handler nor the page touches the files.
LEMMA FilesStay ==
  ASSUME TypeOK,
         \/ StatusBegins \/ StartBegins \/ LateBegins \/ OtherBegins \/ ReadFails
         \/ WriteFails \/ Poll \/ Refresh \/ LoadAnswer \/ LoadFails \/ findUpdate
         \/ CheckAnswer \/ selectChannel \/ install \/ InstallEnds \/ Unmount \/ Mount
         \/ UNCHANGED vars
  PROVE  /\ UNCHANGED <<inbox, statusFile, worker, ran>>
         /\ handler'.pc = "again" => handler.pc = "again"
<1> USE EmptyType
<1>1. CASE StatusBegins \/ StartBegins \/ LateBegins \/ OtherBegins
  BY <1>1
     DEF StatusBegins, StartBegins, LateBegins, OtherBegins, Hold, files, installer
<1>2. CASE ReadFails \/ WriteFails
  BY <1>2 DEF ReadFails, WriteFails, Reply, files, installer
<1>3. ASSUME NEW slots, GiveUp(slots), UNCHANGED <<files, installer>>
      PROVE  /\ UNCHANGED <<inbox, statusFile, worker, ran>>
             /\ handler'.pc = handler.pc
  BY <1>3, GiveUpIs DEF files, installer
<1>4. CASE Refresh \/ LoadFails \/ install \/ Unmount
  BY <1>3, <1>4 DEF Refresh, LoadFails, install, Unmount
<1>5. CASE LoadAnswer
  BY <1>3, <1>5, LoadAnswerIs DEF files, installer
<1>6. CASE InstallEnds
  BY <1>3, <1>6, InstallEndsIs
<1>7. CASE \/ Poll \/ findUpdate \/ CheckAnswer \/ selectChannel \/ Mount
           \/ UNCHANGED vars
  BY <1>7
     DEF Poll, findUpdate, CheckAnswer, selectChannel, Mount, vars, application,
         files, installer
<1>8. QED
  BY <1>1, <1>2, <1>4, <1>5, <1>6, <1>7

\* At each point of the worker and of a handler the files are as described.
LEMMA FilesStep ==
  ASSUME TypeOK, FilesInv, [Next]_vars
  PROVE  FilesInv'
<1> USE EmptyType
<1>a. /\ inbox \in Jobs /\ statusFile \in Jobs /\ worker \in Workers
      /\ worker.job \in Jobs
  BY DEF TypeOK, Workers
<1>b. /\ Running(worker.job).id = worker.job.id
      /\ Running(worker.job).state = "running"
  BY <1>a DEF Running, Jobs
<1>1. CASE WorkerStarts
  BY <1>1, <1>a DEF WorkerStarts, AtWork, FilesInv, application, files
<1>2. CASE SaveRunning
  <2>1. /\ worker.pc = "save" /\ UNCHANGED <<inbox, handler>>
        /\ \/ statusFile' = Running(worker.job) /\ worker'.pc = "remove"
              /\ worker'.job = worker.job
           \/ worker'.pc = "idle" /\ worker'.job = NoJob /\ statusFile' = statusFile
    BY <1>2, <1>a DEF SaveRunning, AtWork, Work, Quit, Workers, Running, application
  <2>2. QED
    BY <1>b, <2>1 DEF FilesInv
<1>3. CASE RemoveRequest
  <2>1. /\ worker.pc = "remove" /\ UNCHANGED <<statusFile, handler>>
        /\ \/ inbox' = NoJob /\ worker'.pc = "check" /\ worker'.job = worker.job
           \/ worker'.pc = "idle" /\ worker'.job = NoJob /\ inbox' = inbox
    BY <1>3, <1>a DEF RemoveRequest, AtWork, Work, Quit, Workers, application
  <2>2. QED
    BY <2>1 DEF FilesInv
<1>4. CASE CheckTarget
  <2>1. /\ worker.pc = "check" /\ UNCHANGED <<inbox, statusFile, handler>>
        /\ worker'.pc \in {"run", "ended"} /\ worker'.job = worker.job
    BY <1>4, <1>a DEF CheckTarget, AtWork, Work, Workers, application, files
  <2>2. QED
    BY <2>1 DEF FilesInv
<1>5. CASE RunInstaller
  <2>1. /\ worker.pc = "run" /\ UNCHANGED <<inbox, statusFile>>
        /\ worker'.pc \in {"ended", "recovery_required"} /\ worker'.job = worker.job
        /\ handler' = Nobody
    BY <1>5, <1>a DEF RunInstaller, AtWork, Work, Workers, Down, files
  <2>2. QED
    BY <2>1 DEF FilesInv
<1>6. CASE SaveResult
  <2>1. /\ worker.pc \in {"ended", "recovery_required"}
        /\ UNCHANGED <<inbox, handler>>
        /\ worker'.pc = "idle" /\ worker'.job = NoJob
    BY <1>6 DEF SaveResult, Quit, application
  <2>2. QED
    BY <2>1 DEF FilesInv
<1>7. CASE Crash
  <2>1. /\ UNCHANGED <<inbox, statusFile>> /\ handler' = Nobody
        /\ worker'.pc = "idle" /\ worker'.job = NoJob
    BY <1>7 DEF Crash, Quit, Down, files
  <2>2. QED
    BY <2>1 DEF FilesInv
<1>8. CASE ReadStatus \/ ReadInbox \/ ReadAgain
  <2>1. /\ UNCHANGED <<statusFile, worker>>
        /\ handler'.pc = "again" => inbox' = NoJob
        /\ \/ inbox' = inbox
           \/ /\ inbox = NoJob /\ ~Active(statusFile)
              /\ inbox' # NoJob /\ inbox'.state = "pending"
    BY <1>8, QueueStep
  <2>2. CASE inbox' = inbox
    BY <2>1, <2>2 DEF FilesInv
  <2>3. CASE /\ inbox = NoJob /\ ~Active(statusFile)
             /\ inbox' # NoJob /\ inbox'.state = "pending"
    <3>1. worker.pc \notin {"save", "remove"}
      BY <2>3 DEF FilesInv
    <3>2. worker.pc \notin {"check", "run", "ended", "recovery_required"}
      BY <1>b, <2>3 DEF FilesInv, Active
    <3>3. worker.pc = "idle"
      BY <1>a, <3>1, <3>2 DEF Workers
    <3>4. QED
      BY <2>1, <2>3, <3>3 DEF FilesInv
  <2>4. QED
    BY <2>1, <2>2, <2>3
<1>9. CASE /\ UNCHANGED <<inbox, statusFile, worker>>
           /\ handler'.pc = "again" => handler.pc = "again"
  BY <1>9 DEF FilesInv
<1>10. QED
  BY <1>1, <1>2, <1>3, <1>4, <1>5, <1>6, <1>7, <1>8, <1>9, FilesStay DEF Next, Worker

\* The installer runs for a request only when its file has been removed, and none
\* with the same id follows.
LEMMA RanStep ==
  ASSUME TypeOK, RequestInv, FilesInv, RanInv, [Next]_vars
  PROVE  RanInv'
<1> USE EmptyType
<1>a. worker \in Workers
  BY DEF TypeOK
<1>1. CASE WorkerStarts \/ SaveRunning \/ SaveResult
  <2>1. UNCHANGED <<inbox, ran>> /\ worker'.pc # "check"
    BY <1>1, <1>a DEF WorkerStarts, SaveRunning, SaveResult, Work, Quit, Workers, files
  <2>2. QED
    BY <2>1 DEF RanInv
<1>2. CASE RemoveRequest
  <2>1. /\ worker.pc = "remove" /\ ran' = ran
        /\ \/ inbox' = NoJob /\ worker'.job = worker.job
           \/ worker'.pc = "idle" /\ inbox' = inbox
    BY <1>2, <1>a DEF RemoveRequest, AtWork, Work, Quit, Workers
  <2>2. QED
    BY <2>1 DEF RanInv, FilesInv
<1>3. CASE CheckTarget
  <2>1. /\ worker.pc = "check" /\ inbox' = inbox /\ worker'.pc \in {"run", "ended"}
    BY <1>3, <1>a DEF CheckTarget, AtWork, Work, Workers, files
  <2>2. QED
    BY <2>1 DEF RanInv, FilesInv
<1>4. CASE RunInstaller \/ Crash
  <2>1. UNCHANGED <<inbox, ran>> /\ worker'.pc # "check"
    BY <1>4, <1>a DEF RunInstaller, Crash, Work, Quit, Workers, files
  <2>2. QED
    BY <2>1 DEF RanInv
<1>5. CASE ReadStatus \/ ReadInbox \/ ReadAgain
  <2>1. /\ UNCHANGED <<worker, ran>>
        /\ inbox' = inbox \/ (inbox'.id = handler.id /\ handler.kind = "start")
    BY <1>5, QueueStep
  <2>2. QED
    BY <2>1 DEF RanInv, RequestInv
<1>6. CASE UNCHANGED <<inbox, worker, ran>>
  BY <1>6 DEF RanInv
<1>7. QED
  BY <1>1, <1>2, <1>3, <1>4, <1>5, <1>6, FilesStay DEF Next, Worker

-----------------------------------------------------------------------------
(***************************************************************************)
(* Theorems.                                                               *)
(***************************************************************************)
\* The ids, the page, the present request, the files and the history are as the
\* invariant says in every state, whatever crashes and failures there are.
THEOREM UpdateIsConsistent == Spec => []UpdateInv
<1>1. UpdateInv /\ [Next]_vars => UpdateInv'
  BY TypeStep, IdsStep, PageStep, RequestStep, FilesStep, RanStep DEF UpdateInv
<1>2. QED
  BY InitInv, <1>1, PTL DEF Spec

\* The files, the worker, the handler, the messages and the page keep their types.
THEOREM TypeCorrect == Spec => []TypeOK
<1>1. UpdateInv => TypeOK
  BY DEF UpdateInv
<1>2. QED
  BY <1>1, UpdateIsConsistent, PTL

\* There is one job at a time, although Manager and the worker read and write the
\* two files one after the other and may stop anywhere.
THEOREM OneJobAtATime == Spec => []OneJob
<1>1. UpdateInv => OneJob
  <2> SUFFICES ASSUME TypeOK, FilesInv PROVE OneJob
    BY DEF UpdateInv
  <2>1. worker.pc \in {"idle", "save", "remove", "check", "run", "ended",
                       "recovery_required"}
    BY DEF TypeOK, Workers
  <2>2. QED
    BY <2>1 DEF FilesInv, OneJob
<1>2. QED
  BY <1>1, UpdateIsConsistent, PTL

\* runWorker runs the installer at most once for a request id.
THEOREM NothingIsInstalledTwice == Spec => InstalledOnce
<1>1. ASSUME UpdateInv, [Next]_vars, worker'.pc = "run", worker.pc # "run"
      PROVE  worker.job.id \notin ran
  <2>1. TypeOK /\ FilesInv /\ RanInv /\ worker \in Workers
    BY <1>1 DEF UpdateInv, TypeOK
  <2>2. CASE CheckTarget
    BY <2>1, <2>2 DEF CheckTarget, AtWork, RanInv
  <2>3. CASE WorkerStarts \/ SaveRunning \/ RemoveRequest \/ SaveResult
    BY <1>1, <2>1, <2>3
       DEF WorkerStarts, SaveRunning, RemoveRequest, SaveResult, Work, Quit, Workers
  <2>4. CASE RunInstaller \/ Crash
    BY <1>1, <2>1, <2>4 DEF RunInstaller, Crash, Work, Quit, Workers
  <2>5. CASE ReadStatus \/ ReadInbox \/ ReadAgain
    BY <1>1, <2>1, <2>5, QueueStep
  <2>6. CASE worker' = worker
    BY <1>1, <2>6
  <2>7. QED
    BY <1>1, <2>1, <2>2, <2>3, <2>4, <2>5, <2>6, FilesStay DEF Next, Worker
<1>2. UpdateInv /\ [Next]_vars =>
        [worker'.pc = "run" /\ worker.pc # "run" => worker.job.id \notin ran]_vars
  BY <1>1
<1>3. QED
  BY <1>2, UpdateIsConsistent, PTL DEF Spec, InstalledOnce

\* What Resolve has told the page about an attempt stays true: a request that
\* arrives after it is not queued.
THEOREM WhatIsResolvedStaysOut == Spec => NothingQueuedAfterResolve
<1>1. ASSUME UpdateInv, [Next]_vars, inbox' # inbox, inbox' # NoJob
      PROVE  inbox'.id \notin settled
  <2>1. TypeOK /\ FilesInv /\ RequestInv
    BY <1>1 DEF UpdateInv
  <2>2. CASE ReadStatus \/ ReadInbox \/ ReadAgain
    <3>1. inbox'.id = handler.id /\ handler.kind = "start"
      BY <1>1, <2>1, <2>2, QueueStep
    <3>2. QED
      BY <2>1, <3>1 DEF RequestInv
  <2>3. CASE WorkerStarts \/ SaveRunning \/ RemoveRequest \/ CheckTarget \/ SaveResult
    BY <1>1, <2>3
       DEF WorkerStarts, SaveRunning, RemoveRequest, CheckTarget, SaveResult, files
  <2>4. CASE RunInstaller \/ Crash
    BY <1>1, <2>4 DEF RunInstaller, Crash, files
  <2>5. CASE inbox' = inbox
    BY <1>1, <2>5
  <2>6. QED
    BY <1>1, <2>1, <2>2, <2>3, <2>4, <2>5, FilesStay DEF Next, Worker
<1>2. UpdateInv /\ [Next]_vars =>
        [inbox' # inbox /\ inbox' # NoJob => inbox'.id \notin settled]_vars
  BY <1>1
<1>3. QED
  BY <1>2, UpdateIsConsistent, PTL DEF Spec, NothingQueuedAfterResolve
=============================================================================
