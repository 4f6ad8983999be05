-------------------------------- MODULE Jobs --------------------------------
(***************************************************************************)
(* Background jobs: ImportCsvJob and ExportCsvJob on Sidekiq.              *)
(*                                                                         *)
(* A web request creates the Job record, uploads the attached file and     *)
(* enqueues the job, in this order; a worker thread performs it.  A        *)
(* perform that raises is retried from the start; a worker that is shut    *)
(* down puts its jobs back into the queue; one that is killed loses them.  *)
(* The import itself is Import, the removal of duplicates is Merge: here   *)
(* each is a step that succeeds or fails.                                  *)
(***************************************************************************)
EXTENDS Naturals, FiniteSets

CONSTANTS
  Imports, Exports,  \* jobs of the two types
  RemoveDuplicates,  \* imports with extra["filenames"]
  Threads,           \* worker threads
  MaxRetries,        \* retries of a job that raises (25 in Sidekiq)
  Raises,            \* the steps that may raise: a subset of Unrescued
  RequestsFail,      \* whether the upload or the queue may be unavailable
  Stops,             \* subset of Ways: how a worker may stop
  MaxStops,          \* bound: how often it stops
  MayDestroy         \* whether an administrator deletes jobs

Jobs == Imports \cup Exports
Ways == {"shutdown", "kill"}

Statuses     == {"initializing", "processing", "completed", "failed"}
PerformSteps == {"find", "start", "open", "import", "close", "duplicates",
                 "export", "finish", "return"}

\* The steps of perform outside of its rescue clauses.
Unrescued == {"find", "start", "open", "duplicates", "finish"}

ASSUME JobsAssumption ==
  /\ Imports \cap Exports = {} /\ RemoveDuplicates \subseteq Imports
  /\ MaxRetries \in Nat /\ MaxStops \in Nat /\ Threads \in Nat
  /\ Raises \subseteq Unrescued /\ Stops \subseteq Ways
  /\ RequestsFail \in BOOLEAN /\ MayDestroy \in BOOLEAN

VARIABLES
  row,        \* row[j]: "absent", "stored" or "deleted"
  status,     \* status[j]: the status column
  file,       \* file[j]: the attachment: "none", "attached" or "uploaded"
  request,    \* request[j]: the next step of the web request
  message,    \* message[j]: where Sidekiq has the job
  retries,    \* retries[j]: how often it has been retried
  step,       \* step[j]: the next step of perform
  success,    \* success[j]: the local variable of perform
  commits,    \* commits[j]: how often its import was committed
  unique,     \* unique[j]: duplicates have been removed since
  stops       \* stops[how]: how often the worker has stopped in this way

record == <<row, status, file>>
work   == <<success, commits, unique>>
vars   == <<record, request, message, retries, step, work, stops>>

Go(j, next) == step' = [step EXCEPT ![j] = next]

-----------------------------------------------------------------------------
(* The web request: Job.create and its callbacks                           *)

\* mutant: the job is enqueued before its file is uploaded
EnqueueFirst(j) == "enqueue"

FirstCallback(j) == IF j \in Imports THEN "upload" ELSE "enqueue"

Create(j) ==
  /\ row[j] = "absent"
  /\ row' = [row EXCEPT ![j] = "stored"]
  /\ file' = [file EXCEPT ![j] = IF j \in Imports THEN "attached" ELSE "none"]
  /\ request' = [request EXCEPT ![j] = FirstCallback(j)]
  /\ UNCHANGED <<status, message, retries, step, work, stops>>

\* after_commit of has_one_attached.
Upload(j) ==
  /\ request[j] = "upload"
  /\ file' = [file EXCEPT ![j] = IF @ = "attached" THEN "uploaded" ELSE @]
  /\ request' = [request EXCEPT ![j] = "enqueue"]
  /\ UNCHANGED <<row, status, message, retries, step, work, stops>>

\* after_create_commit: perform_later.
Enqueue(j) ==
  /\ request[j] = "enqueue"
  /\ message' = [message EXCEPT ![j] = "queued"]
  /\ request' = [request EXCEPT ![j] = "answered"]
  /\ UNCHANGED <<record, retries, step, work, stops>>

\* The storage or Redis is not there, or the web process stops: the record stays.
RequestFails(j) ==
  /\ RequestsFail /\ request[j] \in {"upload", "enqueue"}
  /\ request' = [request EXCEPT ![j] = "failed"]
  /\ UNCHANGED <<record, message, retries, step, work, stops>>

\* JobPolicy#destroy?: the attachment goes with the record.
DestroyJob(j) ==
  /\ MayDestroy /\ row[j] = "stored"
  /\ row' = [row EXCEPT ![j] = "deleted"]
  /\ file' = [file EXCEPT ![j] = "none"]
  /\ UNCHANGED <<status, request, message, retries, step, work, stops>>

-----------------------------------------------------------------------------
(* The worker                                                              *)

Running == {j \in Jobs : message[j] = "running"}

Fetch(j) ==
  /\ message[j] = "queued" /\ Cardinality(Running) < Threads
  /\ message' = [message EXCEPT ![j] = "running"]
  /\ success' = [success EXCEPT ![j] = FALSE]
  /\ Go(j, "find")
  /\ UNCHANGED <<record, request, retries, commits, unique, stops>>

\* The exception leaves perform: Sidekiq retries the job or buries it.
Raise(j) ==
  /\ message' = [message EXCEPT ![j] = IF retries[j] < MaxRetries THEN "retry" ELSE "dead"]
  /\ retries' = [retries EXCEPT ![j] = IF @ < MaxRetries THEN @ + 1 ELSE @]
  /\ Go(j, "none")
  /\ UNCHANGED <<record, request, work, stops>>

RaiseAnywhere(j) == step[j] \in Raises /\ Raise(j)

RetryDue(j) ==
  /\ message[j] = "retry"
  /\ message' = [message EXCEPT ![j] = "queued"]
  /\ UNCHANGED <<record, request, retries, step, work, stops>>

\* Job.find
Find(j) ==
  /\ step[j] = "find"
  /\ \/ /\ row[j] = "stored"
        /\ Go(j, "start")
        /\ UNCHANGED <<record, request, message, retries, work, stops>>
     \/ row[j] = "deleted" /\ Raise(j)

\* job.update: an UPDATE that finds no row is no error.
Update(j, value) ==
  status' = [status EXCEPT ![j] = IF row[j] = "stored" THEN value ELSE @]

Start(j) ==
  /\ step[j] = "start"
  /\ Update(j, "processing")
  /\ Go(j, IF j \in Imports THEN "open" ELSE "export")
  /\ UNCHANGED <<row, file, request, message, retries, work, stops>>

\* job.file.open: the block downloads the blob.
Open(j) ==
  /\ step[j] = "open"
  /\ \/ /\ file[j] = "uploaded"
        /\ Go(j, "import")
        /\ UNCHANGED <<record, request, message, retries, work, stops>>
     \/ file[j] # "uploaded" /\ Raise(j)

\* import_zip: the transaction is committed ...
ImportCommits(j) ==
  /\ step[j] = "import"
  /\ commits' = [commits EXCEPT ![j] = @ + 1]
  /\ unique' = [unique EXCEPT ![j] = FALSE]
  /\ Go(j, "close")
  /\ UNCHANGED <<record, request, message, retries, success, stops>>

\* ... and the importer closed,
Closes(j) ==
  /\ step[j] = "close"
  /\ success' = [success EXCEPT ![j] = TRUE]
  /\ Go(j, "duplicates")
  /\ UNCHANGED <<record, request, message, retries, commits, unique, stops>>

\* or one of the two raises, and import_zip answers false.
ImportFails(j) ==
  /\ step[j] \in {"import", "close"}
  /\ Go(j, "finish")
  /\ UNCHANGED <<record, request, message, retries, work, stops>>

\* mutant: duplicates are left to a later run
SkipDuplicates(j) ==
  /\ step[j] = "duplicates"
  /\ Go(j, "finish")
  /\ UNCHANGED <<record, request, message, retries, work, stops>>

\* remove_duplicates, for the files that ask for it.
Deduplicate(j) ==
  /\ step[j] = "duplicates"
  /\ unique' = [unique EXCEPT ![j] = j \in RemoveDuplicates]
  /\ Go(j, "finish")
  /\ UNCHANGED <<record, request, message, retries, success, commits, stops>>

\* Exporter#run and file.attach, for a job that is still there.
Export(j) ==
  /\ step[j] = "export"
  /\ file' = [file EXCEPT ![j] = IF row[j] = "stored" THEN "uploaded" ELSE @]
  /\ success' = [success EXCEPT ![j] = TRUE]
  /\ Go(j, "finish")
  /\ UNCHANGED <<row, status, request, message, retries, commits, unique, stops>>

\* Something of it raises; the attachment may be stored without its blob.
ExportFails(j) ==
  /\ step[j] = "export"
  /\ \E f \in {file[j], IF row[j] = "stored" THEN "attached" ELSE file[j]} :
       file' = [file EXCEPT ![j] = f]
  /\ Go(j, "finish")
  /\ UNCHANGED <<row, status, request, message, retries, work, stops>>

\* mutant: only exports can fail
AnswerOfExport(j) == IF j \in Imports \/ success[j] THEN "completed" ELSE "failed"

\* mutant: the status is only updated after a success
AnswerOfSuccess(j) == IF success[j] THEN "completed" ELSE status[j]

\* mutant: a status the job does not know
AnswerUnlisted(j) == IF success[j] THEN "succeeded" ELSE "failed"

Answer(j) == IF success[j] THEN "completed" ELSE "failed"

Finish(j) ==
  /\ step[j] = "finish"
  /\ Update(j, Answer(j))
  /\ Go(j, "return")
  /\ UNCHANGED <<row, file, request, message, retries, work, stops>>

Return(j) ==
  /\ step[j] = "return"
  /\ message' = [message EXCEPT ![j] = "done"]
  /\ Go(j, "none")
  /\ UNCHANGED <<record, request, retries, work, stops>>

\* The worker stops.  Sidekiq pushes back the jobs it is shutting down, unless
\* it is killed.
Stop ==
  /\ stops["shutdown"] + stops["kill"] < MaxStops /\ Running # {}
  /\ \E how \in Stops :
       /\ stops' = [stops EXCEPT ![how] = @ + 1]
       /\ message' = [j \in Jobs |-> IF j \notin Running THEN message[j]
                                     ELSE IF how = "shutdown" THEN "queued" ELSE "lost"]
  /\ step' = [j \in Jobs |-> "none"]
  /\ UNCHANGED <<record, request, retries, work>>

-----------------------------------------------------------------------------

Init ==
  /\ row = [j \in Jobs |-> "absent"]
  /\ status = [j \in Jobs |-> "initializing"]
  /\ file = [j \in Jobs |-> "none"]
  /\ request = [j \in Jobs |-> "none"]
  /\ message = [j \in Jobs |-> "none"]
  /\ retries = [j \in Jobs |-> 0]
  /\ step = [j \in Jobs |-> "none"]
  /\ success = [j \in Jobs |-> FALSE]
  /\ commits = [j \in Jobs |-> 0]
  /\ unique = [j \in Jobs |-> FALSE]
  /\ stops = [how \in Ways |-> 0]

Web(j)     == Upload(j) \/ Enqueue(j)
Perform(j) == \/ Find(j) \/ Start(j)
              \/ Open(j) \/ ImportCommits(j) \/ Closes(j) \/ ImportFails(j) \/ Deduplicate(j)
              \/ Export(j) \/ ExportFails(j)
              \/ Finish(j) \/ Return(j)
Sidekiq(j) == Fetch(j) \/ RetryDue(j)

Next == \/ \E j \in Jobs : \/ Create(j) \/ Web(j) \/ RequestFails(j)
                           \/ Sidekiq(j) \/ Perform(j)
                           \/ RaiseAnywhere(j)
                           \/ DestroyJob(j)
        \/ Stop

\* The web process runs its callbacks, Sidekiq polls the queue and the retries,
\* and a thread performs what it has fetched.
Fairness == \A j \in Jobs : WF_vars(Web(j)) /\ WF_vars(Sidekiq(j)) /\ WF_vars(Perform(j))

Spec     == Init /\ [][Next]_vars
FairSpec == Spec /\ Fairness

-----------------------------------------------------------------------------
(* Properties                                                              *)

TypeOK ==
  /\ row \in [Jobs -> {"absent", "stored", "deleted"}]
  /\ status \in [Jobs -> Statuses]
  /\ file \in [Jobs -> {"none", "attached", "uploaded"}]
  /\ request \in [Jobs -> {"none", "upload", "enqueue", "answered", "failed"}]
  /\ message \in [Jobs -> {"none", "queued", "running", "retry", "dead", "lost", "done"}]
  /\ retries \in [Jobs -> 0 .. MaxRetries]
  /\ step \in [Jobs -> PerformSteps \cup {"none"}]
  /\ success \in [Jobs -> BOOLEAN]
  /\ commits \in [Jobs -> Nat]
  /\ unique \in [Jobs -> BOOLEAN]
  /\ stops \in [Ways -> 0 .. MaxStops]

\* No worker ever looks for a file that is not there yet: while Sidekiq has an
\* import that was not deleted, its file is uploaded.
FileBeforeMessage ==
  \A j \in Imports : row[j] = "stored" /\ message[j] # "none" => file[j] = "uploaded"

Produced(j) ==
  /\ row[j] = "stored"
  /\ IF j \in Imports THEN commits[j] > 0 /\ (j \in RemoveDuplicates => unique[j])
     ELSE file[j] = "uploaded"

\* A job that is shown as completed has imported its file and removed the
\* duplicates since, or has a file to download; also after retries and stops.
CompletedMeansProduced ==
  \A j \in Jobs : row[j] = "stored" /\ status[j] = "completed" => Produced(j)

\* Whatever fails, is retried, killed or deleted, jobs live as JobLifecycle says:
\* an ended job is never taken up again before a worker is shut down.
Shown(j) == IF row[j] = "stored" THEN status[j] ELSE row[j]
Lifecycle == INSTANCE JobLifecycle
  WITH status <- [j \in Jobs |-> Shown(j)], produced <- [j \in Jobs |-> Produced(j)],
       redelivered <- stops["shutdown"] > 0
ImplementsLifecycle == Lifecycle!Spec

\* A job that was enqueued does not hang: unless it is deleted, it ends, or
\* Sidekiq buries or loses it.
EveryJobIsSettled ==
  \A j \in Jobs : message[j] = "queued"
    ~> \/ row[j] = "deleted" \/ message[j] \in {"dead", "lost"}
       \/ message[j] = "done" /\ status[j] \in {"completed", "failed"}
=============================================================================
