---------------------------- MODULE JobLifecycle ----------------------------
(***************************************************************************)
(* What the "Jobs" tab tells about an import or export: it is initializing *)
(* and processing until it completed or failed; it has completed only if   *)
(* its work is done, and nothing happens to it after it has ended, unless  *)
(* a worker that was shut down has put its jobs back into the queue.       *)
(***************************************************************************)
CONSTANT Jobs

VARIABLES
  status,      \* status[j]: what the tab shows; "absent" and "deleted" are not shown
  produced,    \* produced[j]: the work of job j is done
  redelivered  \* whether jobs were put back into the queue

shown == <<status, produced, redelivered>>

Ended == {"completed", "failed"}

\* The job is submitted: Job.create
Submit(j) ==
  /\ status[j] = "absent"
  /\ status' = [status EXCEPT ![j] = "initializing"]
  /\ UNCHANGED <<produced, redelivered>>

Begin(j) ==
  /\ \/ status[j] \in {"initializing", "processing"}
     \/ redelivered /\ status[j] \in Ended
  /\ status' = [status EXCEPT ![j] = "processing"]
  /\ UNCHANGED <<produced, redelivered>>

\* An attempt at the work, of which there may be several.
Work(j) ==
  /\ status[j] = "processing"
  /\ \E done \in BOOLEAN : produced' = [produced EXCEPT ![j] = done]
  /\ UNCHANGED <<status, redelivered>>

Complete(j) ==
  /\ status[j] = "processing" /\ produced[j]
  /\ status' = [status EXCEPT ![j] = "completed"]
  /\ UNCHANGED <<produced, redelivered>>

GiveUp(j) ==
  /\ status[j] = "processing"
  /\ status' = [status EXCEPT ![j] = "failed"]
  /\ UNCHANGED <<produced, redelivered>>

\* An administrator deletes the job, and the file of an export with it.
Remove(j) ==
  /\ status[j] # "absent"
  /\ status' = [status EXCEPT ![j] = "deleted"]
  /\ produced' = [produced EXCEPT ![j] = FALSE]
  /\ UNCHANGED redelivered

\* Jobs that were running are handed out again, ended or not.
Redeliver ==
  /\ redelivered' = TRUE
  /\ UNCHANGED <<status, produced>>

Init == /\ status = [j \in Jobs |-> "absent"]
        /\ produced = [j \in Jobs |-> FALSE]
        /\ redelivered = FALSE

Next == \/ \E j \in Jobs : \/ Submit(j)
                           \/ Begin(j)
                           \/ Work(j)
                           \/ Complete(j)
                           \/ GiveUp(j)
                           \/ Remove(j)
        \/ Redeliver

Spec == Init /\ [][Next]_shown
=============================================================================
