---------------------------- MODULE SyncLifecycle ----------------------------
(***************************************************************************)
(* What the ingestion pipeline promises about a sync_job, without tasks,   *)
(* retries or handlers: a run of the job is settled only while none of its *)
(* open import jobs is outstanding, each completion yields one notice, and *)
(* a recalculation is requested only by consuming a notice.                *)
(***************************************************************************)
CONSTANTS
  SyncJobs,  \* ids of sync_jobs
  Imports    \* ids of import_jobs

VARIABLES
  status,     \* the sync_job's status, "none" before it is requested
  open,       \* per sync_job: import jobs that have not reached a terminal status
  failed,     \* per sync_job: import jobs whose last outcome is a failure
  notices,    \* per sync_job: completions not yet answered, by the import that completed it
  requested   \* sync_jobs whose recalculation is requested and not yet processed

vars == <<status, open, failed, notices, requested>>

Init ==
  /\ status = [j \in SyncJobs |-> "none"]
  /\ open = [j \in SyncJobs |-> {}]
  /\ failed = [j \in SyncJobs |-> {}]
  /\ notices = [j \in SyncJobs |-> {}]
  /\ requested = {}

Unsettled(j) == status[j] \in {"pending", "running"}

Request(j) ==
  /\ status[j] = "none"
  /\ status' = [status EXCEPT ![j] = "pending"]
  /\ UNCHANGED <<open, failed, notices, requested>>

\* A (re)started coordinator puts the job back to running, whatever it was.
Start(j) ==
  /\ status[j] # "none"
  /\ status' = [status EXCEPT ![j] = "running"]
  /\ UNCHANGED <<open, failed, notices, requested>>

\* An import job is created, or delivered again.
Open(j, i) ==
  /\ open' = [open EXCEPT ![j] = @ \cup {i}]
  /\ failed' = [failed EXCEPT ![j] = @ \ {i}]
  /\ UNCHANGED <<status, notices, requested>>

CloseAsCompleted(j, i) ==
  /\ open' = [open EXCEPT ![j] = @ \ {i}]
  /\ failed' = [failed EXCEPT ![j] = @ \ {i}]
  /\ UNCHANGED <<status, notices, requested>>

CloseAsFailed(j, i) ==
  /\ open' = [open EXCEPT ![j] = @ \ {i}]
  /\ failed' = [failed EXCEPT ![j] = @ \cup {i}]
  /\ UNCHANGED <<status, notices, requested>>

SettleAsFailed(j) ==
  /\ Unsettled(j)
  /\ open[j] = {}
  /\ failed[j] # {}
  /\ status' = [status EXCEPT ![j] = "failed"]
  /\ UNCHANGED <<open, failed, notices, requested>>

SettleAsCompleted(j, i) ==
  /\ Unsettled(j)
  /\ open[j] = {}
  /\ failed[j] = {}
  /\ status' = [status EXCEPT ![j] = "completed"]
  /\ notices' = [notices EXCEPT ![j] = @ \cup {i}]
  /\ UNCHANGED <<open, failed, requested>>

\* Several notices of one job may be answered by one request.
RequestRecalc(j, i) ==
  /\ i \in notices[j]
  /\ notices' = [notices EXCEPT ![j] = @ \ {i}]
  /\ requested' = requested \cup {j}
  /\ UNCHANGED <<status, open, failed>>

\* The notice is consumed and asks for nothing: a fault, or a duplicate.
DropNotice(j, i) ==
  /\ i \in notices[j]
  /\ notices' = [notices EXCEPT ![j] = @ \ {i}]
  /\ UNCHANGED <<status, open, failed, requested>>

ProcessRecalc(j) ==
  /\ j \in requested
  /\ requested' = requested \ {j}
  /\ UNCHANGED <<status, open, failed, notices>>

Next ==
  \E j \in SyncJobs :
    \/ Request(j)
    \/ Start(j)
    \/ SettleAsFailed(j)
    \/ ProcessRecalc(j)
    \/ \E i \in Imports :
         \/ Open(j, i)
         \/ CloseAsCompleted(j, i)
         \/ CloseAsFailed(j, i)
         \/ SettleAsCompleted(j, i)
         \/ RequestRecalc(j, i)
         \/ DropNotice(j, i)

Spec == Init /\ [][Next]_vars
==============================================================================
