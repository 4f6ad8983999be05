----------------------------- MODULE JobsProofs -----------------------------
(***************************************************************************)
(* Theorems about Jobs.                                                    *)
(***************************************************************************)
EXTENDS Jobs, TLAPS

(***************************************************************************)
(* The inductive invariant: what perform knows at each of its steps.       *)
(***************************************************************************)

\* perform has set the status and not yet ended.
AtWork == {"open", "import", "close", "duplicates", "export", "finish"}

StepsOfType ==
  \A j \in Jobs :
    /\ step[j] \in {"open", "import", "close", "duplicates"} => j \in Imports
    /\ step[j] = "export" => j \in Exports
    /\ request[j] = "upload" => j \in Imports

MessageAndStep ==
  \A j \in Jobs :
    /\ step[j] # "none" => message[j] = "running"
    /\ message[j] # "none" => request[j] = "answered"
    /\ row[j] = "absent" => request[j] = "none" /\ status[j] = "initializing" /\ commits[j] = 0

FileFollowsRequest ==
  \A j \in Imports : row[j] = "stored" =>
    /\ request[j] = "upload" => file[j] = "attached"
    /\ request[j] \in {"enqueue", "answered"} => file[j] = "uploaded"

StatusAndStep ==
  \A j \in Jobs : row[j] = "stored" =>
    /\ step[j] \in AtWork => status[j] = "processing"
    /\ status[j] = "completed" => Produced(j)

SuccessMeansProduced ==
  \A j \in Jobs :
    /\ step[j] \in {"find", "start", "open", "import", "close", "export"} => ~success[j]
    /\ step[j] \in {"close", "duplicates"} => commits[j] > 0
    /\ step[j] = "finish" /\ success[j] /\ row[j] = "stored" => Produced(j)

JInv == /\ TypeOK /\ StepsOfType /\ MessageAndStep /\ FileFollowsRequest
        /\ StatusAndStep /\ SuccessMeansProduced

-----------------------------------------------------------------------------

LEMMA InitJInv == Init => JInv
<1> SUFFICES ASSUME Init PROVE JInv
  OBVIOUS
<1>1. TypeOK
  BY JobsAssumption DEF Init, TypeOK, Statuses
<1>2. StepsOfType /\ MessageAndStep
  BY DEF Init, StepsOfType, MessageAndStep
<1>3. \A j \in Jobs : row[j] = "absent" /\ step[j] = "none"
  BY DEF Init
<1>4. FileFollowsRequest /\ StatusAndStep /\ SuccessMeansProduced
  BY <1>3 DEF FileFollowsRequest, StatusAndStep, SuccessMeansProduced, AtWork, Jobs
<1> QED
  BY <1>1, <1>2, <1>4 DEF JInv

LEMMA TypeStep == JInv /\ [Next]_vars => TypeOK'
<1> SUFFICES ASSUME JInv, [Next]_vars PROVE TypeOK'
  OBVIOUS
<1> USE DEF record, work, Go, PerformSteps, Statuses
<1>0. TypeOK
  BY DEF JInv
<1>1. ASSUME NEW j \in Jobs, Create(j) PROVE TypeOK'
  BY <1>0, <1>1 DEF Create, FirstCallback, TypeOK
<1>2. ASSUME NEW j \in Jobs, Web(j) \/ RequestFails(j) PROVE TypeOK'
  BY <1>0, <1>2 DEF Web, Upload, Enqueue, RequestFails, TypeOK
<1>3. ASSUME NEW j \in Jobs, Sidekiq(j) PROVE TypeOK'
  BY <1>0, <1>3 DEF Sidekiq, Fetch, RetryDue, TypeOK
<1>4. ASSUME NEW j \in Jobs, Raise(j) PROVE TypeOK'
  BY <1>0, <1>4, JobsAssumption DEF Raise, TypeOK
<1>5. ASSUME NEW j \in Jobs, DestroyJob(j) PROVE TypeOK'
  BY <1>0, <1>5 DEF DestroyJob, TypeOK
<1>6. ASSUME Stop PROVE TypeOK'
  <2>1. PICK how \in Stops :
          /\ stops' = [stops EXCEPT ![how] = @ + 1]
          /\ message' = [j \in Jobs |-> IF j \notin Running THEN message[j]
                                        ELSE IF how = "shutdown" THEN "queued" ELSE "lost"]
    BY <1>6 DEF Stop
  <2>2. stops["shutdown"] \in 0 .. MaxStops /\ stops["kill"] \in 0 .. MaxStops
    BY <1>0 DEF TypeOK, Ways
  <2>3. stops[how] < MaxStops /\ how \in Ways
    BY <1>6, <2>2, JobsAssumption DEF Stop, Ways
  <2>4. stops' \in [Ways -> 0 .. MaxStops]
    BY <1>0, <2>1, <2>3, JobsAssumption DEF TypeOK
  <2> QED
    BY <1>0, <1>6, <2>1, <2>4 DEF Stop, TypeOK
<1>7. ASSUME NEW j \in Jobs, ~Raise(j), Perform(j) PROVE TypeOK'
  <2>0. CASE Find(j) \/ Open(j)
    BY <1>0, <1>7, <2>0 DEF Find, Open, TypeOK
  <2>1. CASE Start(j)
    BY <1>0, <2>1 DEF Start, Update, TypeOK
  <2>2. CASE ImportCommits(j)
    BY <1>0, <2>2 DEF ImportCommits, TypeOK
  <2>6. CASE Closes(j) \/ ImportFails(j)
    BY <1>0, <2>6 DEF Closes, ImportFails, TypeOK
  <2>7. CASE Deduplicate(j)
    BY <1>0, <2>7 DEF Deduplicate, TypeOK
  <2>3. CASE Export(j)
    BY <1>0, <2>3 DEF Export, TypeOK
  <2>4. CASE ExportFails(j)
    BY <1>0, <2>4 DEF ExportFails, TypeOK
  <2>5. CASE Finish(j) \/ Return(j)
    BY <1>0, <2>5 DEF Finish, Update, Answer, Return, TypeOK
  <2> QED
    BY <1>7, <2>0, <2>1, <2>2, <2>3, <2>4, <2>5, <2>6, <2>7 DEF Perform
<1>8. ASSUME UNCHANGED vars PROVE TypeOK'
  BY <1>0, <1>8 DEF vars, TypeOK
<1> QED
  BY <1>1, <1>2, <1>3, <1>4, <1>5, <1>6, <1>7, <1>8 DEF Next, RaiseAnywhere

\* A step of one job leaves the others alone.
Alone(j) ==
  /\ UNCHANGED stops
  /\ \A k \in Jobs \ {j} :
       UNCHANGED <<row[k], status[k], file[k], request[k], message[k], step[k],
                   success[k], commits[k], unique[k]>>

\* What the invariant says of one job.
Fine(j) ==
  /\ step[j] \in {"open", "import", "close", "duplicates"} => j \in Imports
  /\ step[j] = "export" => j \in Exports
  /\ request[j] = "upload" => j \in Imports
  /\ step[j] # "none" => message[j] = "running"
  /\ message[j] # "none" => request[j] = "answered"
  /\ row[j] = "absent" => request[j] = "none" /\ status[j] = "initializing" /\ commits[j] = 0
  /\ j \in Imports /\ row[j] = "stored" =>
       /\ request[j] = "upload" => file[j] = "attached"
       /\ request[j] \in {"enqueue", "answered"} => file[j] = "uploaded"
  /\ row[j] = "stored" =>
       /\ step[j] \in AtWork => status[j] = "processing"
       /\ status[j] = "completed" => Produced(j)
  /\ step[j] \in {"find", "start", "open", "import", "close", "export"} => ~success[j]
  /\ step[j] \in {"close", "duplicates"} => commits[j] > 0
  /\ step[j] = "finish" /\ success[j] /\ row[j] = "stored" => Produced(j)

LEMMA FineIsJInv == JInv <=> TypeOK /\ \A j \in Jobs : Fine(j)
BY DEF JInv, Fine, StepsOfType, MessageAndStep, FileFollowsRequest, StatusAndStep,
       SuccessMeansProduced, Jobs

LEMMA AloneStaysFine ==
  ASSUME NEW j \in Jobs, Alone(j), NEW k \in Jobs \ {j}, Fine(k)
  PROVE  Fine(k)'
BY DEF Alone, Fine, Produced

LEMMA OneJob ==
  ASSUME TypeOK, NEW j \in Jobs,
         \/ Create(j) \/ Web(j) \/ RequestFails(j) \/ Sidekiq(j) \/ Perform(j)
         \/ RaiseAnywhere(j) \/ DestroyJob(j)
  PROVE  Alone(j)
BY DEF TypeOK, Alone, Create, Web, Upload, Enqueue, RequestFails, Sidekiq, Fetch, RetryDue,
       Perform, Find, Start, Update, Open, ImportCommits, Closes, ImportFails, Deduplicate,
       Export, ExportFails, Finish, Return, RaiseAnywhere, Raise, DestroyJob, Go, record, work

LEMMA FineStep ==
  ASSUME TypeOK, NEW j \in Jobs, Fine(j),
         \/ Create(j) \/ Web(j) \/ RequestFails(j) \/ Sidekiq(j) \/ Perform(j)
         \/ RaiseAnywhere(j) \/ DestroyJob(j)
  PROVE  Fine(j)'
<1> USE DEF record, work, Go, AtWork
<1>0. Imports \cap Exports = {} /\ RemoveDuplicates \subseteq Imports
  BY JobsAssumption
<1>1. CASE Create(j)
  BY <1>0, <1>1 DEF Create, FirstCallback, TypeOK, Fine, Produced
<1>2. CASE Upload(j)
  BY <1>0, <1>2 DEF Upload, TypeOK, Fine, Produced
<1>3. CASE Enqueue(j) \/ RequestFails(j)
  BY <1>3 DEF Enqueue, RequestFails, TypeOK, Fine, Produced
<1>4. CASE Sidekiq(j)
  BY <1>4 DEF Sidekiq, Fetch, RetryDue, TypeOK, Fine, Produced
<1>5. CASE Raise(j) /\ step[j] # "none"
  BY <1>5 DEF Raise, TypeOK, Fine, Produced
<1>6. CASE DestroyJob(j)
  BY <1>6 DEF DestroyJob, TypeOK, Fine, Produced
<1>7. CASE Find(j) \/ Open(j)
  BY <1>0, <1>5, <1>7 DEF Find, Open, TypeOK, Fine, Produced
<1>8. CASE Start(j)
  BY <1>8 DEF Start, Update, TypeOK, Fine, Produced, Jobs
<1>9. CASE ImportCommits(j)
  BY <1>0, <1>9 DEF ImportCommits, TypeOK, Fine, Produced
<1>10. CASE Closes(j) \/ ImportFails(j)
  BY <1>10 DEF Closes, ImportFails, TypeOK, Fine, Produced
<1>11. CASE Deduplicate(j)
  BY <1>0, <1>11 DEF Deduplicate, TypeOK, Fine, Produced
<1>12. CASE Export(j)
  BY <1>0, <1>12 DEF Export, TypeOK, Fine, Produced
<1>13. CASE ExportFails(j)
  BY <1>0, <1>13 DEF ExportFails, TypeOK, Fine, Produced
<1>14. CASE Finish(j)
  BY <1>14 DEF Finish, Update, Answer, TypeOK, Fine, Produced
<1>15. CASE Return(j)
  BY <1>15 DEF Return, TypeOK, Fine, Produced
<1>16. CASE RaiseAnywhere(j)
  BY <1>5, <1>16, JobsAssumption DEF RaiseAnywhere, Unrescued
<1> QED
  BY <1>1, <1>2, <1>3, <1>4, <1>6, <1>7, <1>8, <1>9, <1>10, <1>11, <1>12, <1>13,
     <1>14, <1>15, <1>16 DEF Web, Perform

LEMMA JInvStep == JInv /\ [Next]_vars => JInv'
<1> SUFFICES ASSUME JInv, [Next]_vars PROVE JInv'
  OBVIOUS
<1>0. TypeOK /\ (\A j \in Jobs : Fine(j)) /\ TypeOK'
  BY FineIsJInv, TypeStep
<1>1. ASSUME NEW j \in Jobs,
             \/ Create(j) \/ Web(j) \/ RequestFails(j) \/ Sidekiq(j) \/ Perform(j)
             \/ RaiseAnywhere(j) \/ DestroyJob(j)
      PROVE  \A k \in Jobs : Fine(k)'
  <2>1. Fine(j)'
    BY <1>0, <1>1, FineStep
  <2>2. \A k \in Jobs \ {j} : Fine(k)'
    BY <1>0, <1>1, OneJob, AloneStaysFine
  <2> QED
    BY <2>1, <2>2
<1>2. ASSUME Stop, NEW k \in Jobs PROVE Fine(k)'
  <2>1. UNCHANGED <<row[k], status[k], file[k], request[k], success[k], commits[k], unique[k]>>
    BY <1>2 DEF Stop, record, work
  <2>2. step'[k] = "none"
    BY <1>2 DEF Stop
  <2>3. message'[k] # "none" => message[k] # "none"
    BY <1>2 DEF Stop, Running
  <2> QED
    BY <1>0, <2>1, <2>2, <2>3 DEF Fine, AtWork, Produced
<1>3. ASSUME UNCHANGED vars, NEW k \in Jobs PROVE Fine(k)'
  BY <1>0, <1>3 DEF vars, record, work, Fine, AtWork, Produced
<1>4. \A k \in Jobs : Fine(k)'
  BY <1>1, <1>2, <1>3 DEF Next
<1> QED
  BY <1>0, <1>4
  DEF JInv, Fine, StepsOfType, MessageAndStep, FileFollowsRequest, StatusAndStep,
      SuccessMeansProduced, Jobs

\* Sidekiq, the job records and perform keep their types.
THEOREM JobsTypeCorrect == Spec => []TypeOK
<1>1. JInv => TypeOK
  BY DEF JInv
<1> QED
  BY <1>1, InitJInv, JInvStep, PTL DEF Spec

\* A worker never opens a file before the web request has uploaded it.
THEOREM FilesComeFirst == Spec => []FileBeforeMessage
<1>1. JInv => FileBeforeMessage
  BY DEF JInv, FileBeforeMessage, FileFollowsRequest, MessageAndStep, Jobs
<1> QED
  BY <1>1, InitJInv, JInvStep, PTL DEF Spec

\* However often a job is retried, shut down or lost, "completed" is true.
THEOREM CompletedIsTrue == Spec => []CompletedMeansProduced
<1>1. JInv => CompletedMeansProduced
  BY DEF JInv, CompletedMeansProduced, StatusAndStep
<1> QED
  BY <1>1, InitJInv, JInvStep, PTL DEF Spec

-----------------------------------------------------------------------------
(***************************************************************************)
(* Jobs implements JobLifecycle.  Until the first shutdown, a job whose     *)
(* message is still to be performed has not ended.                         *)
(***************************************************************************)

NotEnded(j) ==
  row[j] = "stored" /\ (message[j] \in {"none", "queued", "retry"} \/ step[j] \in {"find", "start"})
    => status[j] \in {"initializing", "processing"} \/ stops["shutdown"] > 0

OneJobSteps(j) == \/ Create(j) \/ Web(j) \/ RequestFails(j) \/ Sidekiq(j) \/ Perform(j)
                  \/ RaiseAnywhere(j) \/ DestroyJob(j)

AllNotEnded == \A k \in Jobs : NotEnded(k)

LEMMA NotEndedStep ==
  ASSUME JInv, [Next]_vars, \A k \in Jobs : NotEnded(k)
  PROVE  \A k \in Jobs : NotEnded(k)'
<1> USE DEF record, work, Go
<1>0. TypeOK /\ \A k \in Jobs : Fine(k)
  BY FineIsJInv
<1>1. ASSUME NEW j \in Jobs, OneJobSteps(j) PROVE \A k \in Jobs : NotEnded(k)'
  <2>1. \A k \in Jobs \ {j} : NotEnded(k)'
    BY <1>0, <1>1, OneJob DEF OneJobSteps, Alone, NotEnded
  <2>2. CASE Create(j)
    BY <1>0, <2>2 DEF Create, TypeOK, Fine, NotEnded
  <2>3. CASE Web(j) \/ RequestFails(j) \/ Sidekiq(j) \/ DestroyJob(j)
    BY <1>0, <2>3
    DEF Web, Upload, Enqueue, RequestFails, Sidekiq, Fetch, RetryDue, DestroyJob, TypeOK, Fine,
        NotEnded
  <2>4. CASE Raise(j) /\ step[j] \in Unrescued
    BY <1>0, <2>4 DEF Raise, Unrescued, TypeOK, Fine, AtWork, NotEnded
  <2>5. CASE Find(j) \/ Open(j)
    BY <1>0, <2>4, <2>5 DEF Find, Open, Unrescued, TypeOK, Fine, NotEnded
  <2>6. CASE Start(j)
    BY <1>0, <2>6 DEF Start, Update, TypeOK, Fine, NotEnded
  <2>7. CASE ImportCommits(j) \/ Closes(j) \/ ImportFails(j) \/ Deduplicate(j)
    BY <1>0, <2>7 DEF ImportCommits, Closes, ImportFails, Deduplicate, TypeOK, Fine, NotEnded
  <2>8. CASE Export(j) \/ ExportFails(j)
    BY <1>0, <2>8 DEF Export, ExportFails, TypeOK, Fine, NotEnded
  <2>9. CASE Finish(j) \/ Return(j)
    BY <1>0, <2>9 DEF Finish, Update, Return, TypeOK, Fine, NotEnded
  <2>10. CASE RaiseAnywhere(j)
    BY <2>4, <2>10, JobsAssumption DEF RaiseAnywhere
  <2>11. NotEnded(j)'
    BY <1>1, <2>2, <2>3, <2>5, <2>6, <2>7, <2>8, <2>9, <2>10 DEF OneJobSteps, Perform
  <2> QED
    BY <2>1, <2>11
<1>2. ASSUME Stop, NEW k \in Jobs PROVE NotEnded(k)'
  <2>1. PICK how \in Stops :
          /\ stops' = [stops EXCEPT ![how] = @ + 1]
          /\ message' = [j \in Jobs |-> IF j \notin Running THEN message[j]
                                        ELSE IF how = "shutdown" THEN "queued" ELSE "lost"]
    BY <1>2 DEF Stop
  <2>0. stops \in [Ways -> Nat] /\ stops["shutdown"] \in Nat
    BY <1>0, JobsAssumption DEF TypeOK, Ways
  <2>2. message'[k] \in {message[k], "lost"} \/ stops'["shutdown"] > 0
    BY <2>0, <2>1, JobsAssumption DEF Ways
  <2>4. stops["shutdown"] > 0 => stops'["shutdown"] > 0
    BY <2>0, <2>1, JobsAssumption DEF Ways
  <2>3. UNCHANGED <<row[k], status[k]>> /\ step'[k] = "none"
    BY <1>2 DEF Stop
  <2> QED
    BY <2>2, <2>3, <2>4 DEF NotEnded
<1>3. CASE UNCHANGED vars
  BY <1>3 DEF vars, NotEnded
<1> QED
  BY <1>1, <1>2, <1>3 DEF Next, OneJobSteps

\* What each step does to the job as it is shown.
LEMMA ShownStep ==
  ASSUME JInv, NEW j \in Jobs, NotEnded(j), OneJobSteps(j)
  PROVE  \/ UNCHANGED <<Shown(j), Produced(j)>>
         \/ Shown(j) = "absent" /\ Shown(j)' = "initializing" /\ UNCHANGED Produced(j)
         \/ /\ \/ Shown(j) \in {"initializing", "processing"}
               \/ stops["shutdown"] > 0 /\ Shown(j) \in {"completed", "failed"}
            /\ Shown(j)' = "processing" /\ UNCHANGED Produced(j)
         \/ Shown(j) = "processing" /\ UNCHANGED Shown(j)
         \/ Shown(j) = "processing" /\ Produced(j) /\ Shown(j)' = "completed" /\ UNCHANGED Produced(j)
         \/ Shown(j) = "processing" /\ Shown(j)' = "failed" /\ UNCHANGED Produced(j)
         \/ Shown(j) # "absent" /\ Shown(j)' = "deleted" /\ ~Produced(j)'
<1> USE DEF record, work, Go, Shown
<1>0. TypeOK /\ Fine(j) /\ Imports \cap Exports = {} /\ Jobs = Imports \cup Exports
  BY FineIsJInv, JobsAssumption DEF Jobs
<1>1. CASE Create(j)
  <2>1. Shown(j) = "absent" /\ Shown(j)' = "initializing"
    BY <1>0, <1>1 DEF Create, TypeOK, Fine
  <2>2. ~Produced(j) /\ ~Produced(j)'
    BY <1>0, <1>1 DEF Create, TypeOK, Fine, Produced
  <2> QED
    BY <2>1, <2>2 DEF Produced
<1>2. CASE Upload(j)
  BY <1>0, <1>2 DEF Upload, TypeOK, Fine, Produced
<1>3. CASE UNCHANGED <<record, work>>
  BY <1>3 DEF Produced
<1>4. CASE DestroyJob(j)
  BY <1>0, <1>4 DEF DestroyJob, TypeOK, Statuses, Produced
<1>5. CASE UNCHANGED <<record, commits, unique>>
  BY <1>5 DEF Produced
<1>6. CASE Start(j)
  <2>1. UNCHANGED Produced(j)
    BY <1>6 DEF Start, Produced
  <2>2. CASE row[j] = "stored"
    <3>1. Shown(j)' = "processing"
      BY <1>0, <1>6, <2>2 DEF Start, Update, TypeOK
    <3>2. \/ Shown(j) \in {"initializing", "processing"}
          \/ stops["shutdown"] > 0 /\ Shown(j) \in {"completed", "failed"}
      BY <1>0, <1>6, <2>2 DEF Start, TypeOK, Statuses, NotEnded
    <3> QED
      BY <2>1, <3>1, <3>2
  <2>3. CASE row[j] # "stored"
    BY <1>6, <2>1, <2>3 DEF Start, Update
  <2> QED
    BY <2>2, <2>3
<1>7. CASE ImportCommits(j) \/ Deduplicate(j)
  <2>1. UNCHANGED <<row, status>> /\ step[j] \in AtWork
    BY <1>7 DEF ImportCommits, Deduplicate, AtWork
  <2>2. CASE row[j] = "stored"
    BY <1>0, <2>1, <2>2 DEF Fine
  <2>3. CASE row[j] # "stored"
    BY <2>1, <2>3 DEF Produced
  <2> QED
    BY <2>2, <2>3
<1>8. CASE Export(j) \/ ExportFails(j)
  <2>1. CASE row[j] = "stored"
    BY <1>0, <1>8, <2>1 DEF Export, ExportFails, TypeOK, Fine, AtWork, Produced
  <2>2. CASE row[j] # "stored"
    BY <1>0, <1>8, <2>2 DEF Export, ExportFails, Produced
  <2> QED
    BY <2>1, <2>2
<1>9. CASE Finish(j)
  <2>1. /\ UNCHANGED <<row, file, commits, unique>> /\ step[j] = "finish"
        /\ status' = [status EXCEPT ![j] = IF row[j] = "stored" THEN Answer(j) ELSE @]
    BY <1>9 DEF Finish, Update
  <2>2. UNCHANGED Produced(j)
    BY <2>1 DEF Produced
  <2>3. CASE row[j] = "stored"
    <3>1. status[j] = "processing" /\ (success[j] => Produced(j))
      BY <1>0, <2>1, <2>3 DEF Fine, AtWork
    <3>2. status'[j] = Answer(j) /\ row'[j] = "stored"
      BY <1>0, <2>1, <2>3 DEF TypeOK
    <3> QED
      BY <2>2, <2>3, <3>1, <3>2 DEF Answer
  <2>4. CASE row[j] # "stored"
    BY <2>1, <2>2, <2>4
  <2> QED
    BY <2>3, <2>4
<1> QED
  BY <1>1, <1>2, <1>3, <1>4, <1>5, <1>6, <1>7, <1>8, <1>9
  DEF OneJobSteps, Web, Enqueue, RequestFails, Sidekiq, Fetch, RetryDue, Perform, Find, Open,
      Closes, ImportFails, Return, RaiseAnywhere, Raise

\* An unchanged job stutters, a changed one takes the step of JobLifecycle.
LEMMA JobImplements ==
  ASSUME JInv, NEW j \in Jobs, NotEnded(j), OneJobSteps(j)
  PROVE  [Lifecycle!Next]_(Lifecycle!shown)
<1> DEFINE S == [k \in Jobs |-> Shown(k)]
           P == [k \in Jobs |-> Produced(k)]
<1>1. \A k \in Jobs \ {j} : UNCHANGED <<Shown(k), Produced(k)>>
  BY OneJob DEF OneJobSteps, JInv, Alone, Shown, Produced
<1>2. S' = [S EXCEPT ![j] = Shown(j)'] /\ P' = [P EXCEPT ![j] = Produced(j)']
  BY <1>1
<1>3. S[j] = Shown(j) /\ P[j] = Produced(j)
  OBVIOUS
<1>4. (UNCHANGED Shown(j) => S' = S) /\ (UNCHANGED Produced(j) => P' = P)
  BY <1>1
<1>5. Produced(j)' \in BOOLEAN
  BY DEF Produced
<1>0. UNCHANGED stops
  BY OneJob DEF OneJobSteps, JInv, Alone
<1> HIDE DEF S, P
<1>6. CASE UNCHANGED <<Shown(j), Produced(j)>>
  BY <1>0, <1>4, <1>6 DEF S, P, Lifecycle!shown
<1>7. CASE Shown(j) = "absent" /\ Shown(j)' = "initializing" /\ UNCHANGED Produced(j)
  <2>1. Lifecycle!Submit(j)
    BY <1>0, <1>2, <1>3, <1>4, <1>7 DEF Lifecycle!Submit, S, P
  <2> QED
    BY <2>1 DEF Lifecycle!Next
<1>8. CASE /\ \/ Shown(j) \in {"initializing", "processing"}
              \/ stops["shutdown"] > 0 /\ Shown(j) \in {"completed", "failed"}
           /\ Shown(j)' = "processing" /\ UNCHANGED Produced(j)
  <2>1. Lifecycle!Begin(j)
    BY <1>0, <1>2, <1>3, <1>4, <1>8 DEF Lifecycle!Begin, Lifecycle!Ended, S, P
  <2> QED
    BY <2>1 DEF Lifecycle!Next
<1>9. CASE Shown(j) = "processing" /\ UNCHANGED Shown(j)
  <2>1. Lifecycle!Work(j)
    BY <1>0, <1>2, <1>3, <1>4, <1>5, <1>9 DEF Lifecycle!Work, S, P
  <2> QED
    BY <2>1 DEF Lifecycle!Next
<1>10. CASE Shown(j) = "processing" /\ Produced(j) /\ Shown(j)' = "completed" /\ UNCHANGED Produced(j)
  <2>1. Lifecycle!Complete(j)
    BY <1>0, <1>2, <1>3, <1>4, <1>10 DEF Lifecycle!Complete, S, P
  <2> QED
    BY <2>1 DEF Lifecycle!Next
<1>11. CASE Shown(j) = "processing" /\ Shown(j)' = "failed" /\ UNCHANGED Produced(j)
  <2>1. Lifecycle!GiveUp(j)
    BY <1>0, <1>2, <1>3, <1>4, <1>11 DEF Lifecycle!GiveUp, S, P
  <2> QED
    BY <2>1 DEF Lifecycle!Next
<1>12. CASE Shown(j) # "absent" /\ Shown(j)' = "deleted" /\ ~Produced(j)'
  <2>1. Produced(j)' = FALSE
    BY <1>5, <1>12
  <2>2. Lifecycle!Remove(j)
    BY <1>0, <1>2, <1>3, <1>12, <2>1 DEF Lifecycle!Remove, S, P
  <2> QED
    BY <2>2 DEF Lifecycle!Next
<1> QED
  BY <1>6, <1>7, <1>8, <1>9, <1>10, <1>11, <1>12, ShownStep

\* Whatever fails, is retried or killed, the status of a job runs through
\* JobLifecycle: once ended, it stays ended until a worker is shut down.
THEOREM JobsImplementLifecycle == Spec => ImplementsLifecycle
<1>1. Init => JInv /\ AllNotEnded /\ Lifecycle!Init
  <2> SUFFICES ASSUME Init PROVE JInv /\ AllNotEnded /\ Lifecycle!Init
    OBVIOUS
  <2>1. \A j \in Jobs : Shown(j) = "absent" /\ Produced(j) = FALSE /\ NotEnded(j)
    BY DEF Init, Shown, Produced, NotEnded
  <2>2. (stops["shutdown"] > 0) = FALSE
    BY DEF Init, Ways
  <2> QED
    BY <2>1, <2>2, InitJInv DEF Lifecycle!Init, AllNotEnded
<1>2. JInv /\ AllNotEnded /\ [Next]_vars => JInv' /\ AllNotEnded'
  BY JInvStep, NotEndedStep DEF AllNotEnded
<1>3. JInv /\ AllNotEnded /\ [Next]_vars
        => [Lifecycle!Next]_(Lifecycle!shown)
  <2> SUFFICES ASSUME JInv, AllNotEnded, [Next]_vars
               PROVE  [Lifecycle!Next]_(Lifecycle!shown)
    OBVIOUS
  <2>1. ASSUME NEW i \in Jobs, OneJobSteps(i)
        PROVE  [Lifecycle!Next]_(Lifecycle!shown)
    BY <2>1, JobImplements DEF AllNotEnded
  <2>2. CASE Stop \/ UNCHANGED vars
    <3>1. \A k \in Jobs : UNCHANGED <<Shown(k), Produced(k)>>
      BY <2>2 DEF Stop, vars, record, work, Shown, Produced
    <3>2. stops["shutdown"] > 0 => stops'["shutdown"] > 0
      BY <2>2, JobsAssumption DEF Stop, vars, JInv, TypeOK, Ways
    <3>3. CASE UNCHANGED (stops["shutdown"] > 0)
      BY <3>1, <3>3 DEF Lifecycle!shown
    <3>4. CASE ~UNCHANGED (stops["shutdown"] > 0)
      <4>1. (stops["shutdown"] > 0)' = TRUE
        BY <3>2, <3>4
      <4> QED
        BY <3>1, <4>1 DEF Lifecycle!Redeliver, Lifecycle!Next
    <3> QED
      BY <3>3, <3>4
  <2> QED
    BY <2>1, <2>2 DEF Next, OneJobSteps
<1> QED
  BY <1>1, <1>2, <1>3, PTL DEF Spec, ImplementsLifecycle, Lifecycle!Spec
=============================================================================
