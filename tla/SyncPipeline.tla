---------------------------- MODULE SyncPipeline ----------------------------
(***************************************************************************)
(* The ingestion pipeline of one seller account: a sync_job is created by  *)
(* the HTTP API (ingestion/orchestration_service.go), a coordinator task   *)
(* dispatches one import_job per domain (jobs/ozon_sync_coordinator.go),   *)
(* import tasks run concurrently (jobs/ozon_import_handlers.go), each one  *)
(* tries to finalize the parent sync_job (jobs/sync_job_finalize.go), and  *)
(* the completion of the parent enqueues a post-sync recalculation         *)
(* (cmd/worker/main.go, jobs/recalculate_after_sync.go).                   *)
(*                                                                         *)
(* One step is one SQL statement or one asynq call: these are the points   *)
(* at which the handlers of different tasks interleave.  Tasks live in     *)
(* asynq (Redis), which redelivers a task whose handler returned an error  *)
(* or whose worker died, and archives it after its last attempt.           *)
(***************************************************************************)
EXTENDS Naturals

CONSTANTS
  SyncJobs,     \* ids of the sync_jobs that may be requested
  NumDomains,   \* length of the coordinator's list: products, orders, stocks, ads
  MaxAttempts,  \* deliveries of one task: asynq's MaxRetry + 1
  FaultKinds,   \* the faults the environment may inject
  MaxFaults     \* bound on the number of injected faults

AllFaultKinds ==
  {"start", "coordinator", "import", "crash", "hook", "crashAtHook", "recalc", "expiry"}

ASSUME ConstantsAssumption ==
  /\ NumDomains \in Nat \ {0}
  /\ MaxAttempts \in Nat \ {0}
  /\ MaxFaults \in Nat
  /\ FaultKinds \subseteq AllFaultKinds

Domains  == 1 .. NumDomains
Attempts == 1 .. MaxAttempts

\* An import_jobs row: the coordinator inserts at most one per domain in each
\* of its attempts, and nothing makes (sync_job_id, domain) unique.
Imports == SyncJobs \X Attempts \X Domains
JobOf(i) == i[1]

VARIABLES
  syncStatus,    \* sync_jobs.status, "none" before the row exists
  importStatus,  \* import_jobs.status, "none" before the row exists
  coordPc,       \* where the coordinator task of a sync_job is
  coordTry,      \* deliveries of the coordinator task so far
  coordDomain,   \* the loop variable of the coordinator
  importPc,      \* where the import task of an import_job is
  importTry,     \* deliveries of the import task so far
  failing,       \* import handlers that are inside failImport
  recalcPc,      \* where the recalculation task of a sync_job is
  recalcTry,     \* deliveries of the recalculation task so far
  uniqueLock,    \* sync_jobs whose asynq.Unique lock is held
  derived,       \* downstream stages rebuilt since the sync_job last completed
  faults         \* injected faults so far

syncVars   == <<syncStatus, importStatus>>
coordVars  == <<coordPc, coordTry, coordDomain>>
importVars == <<importPc, importTry, failing>>
recalcVars == <<recalcPc, recalcTry, uniqueLock, derived>>
vars == <<syncVars, coordVars, importVars, recalcVars, faults>>

-----------------------------------------------------------------------------
SyncStatuses == {"none", "pending", "running", "completed", "failed"}
ImportStatuses ==
  {"none", "pending", "fetching", "importing", "completed", "failed"}

\* "starting": the HTTP handler holds the new row and has not enqueued yet;
\* "lost": the enqueue failed and no task exists.
CoordSteps == {"toRunning", "create", "enqueue", "return"}
CoordPcs == CoordSteps \cup
  {"none", "starting", "lost", "queued", "done", "archived"}

\* The statements of an import handler that can return an error.
ImportStatements ==
  {"toFetching", "toImporting", "run", "toCompleted", "toFailed",
   "tryFailed", "tryCompleted"}
ImportSteps == ImportStatements \cup {"hook", "return"}
ImportPcs == ImportSteps \cup {"none", "queued", "done", "archived"}

Stages == {"account", "sku", "alerts"}
RecalcPcs == Stages \cup {"none", "queued", "return", "archived"}

TypeOK ==
  /\ syncStatus \in [SyncJobs -> SyncStatuses]
  /\ importStatus \in [Imports -> ImportStatuses]
  /\ coordPc \in [SyncJobs -> CoordPcs]
  /\ coordTry \in [SyncJobs -> 0 .. MaxAttempts]
  /\ coordDomain \in [SyncJobs -> Domains]
  /\ importPc \in [Imports -> ImportPcs]
  /\ importTry \in [Imports -> 0 .. MaxAttempts]
  /\ failing \subseteq Imports
  /\ recalcPc \in [SyncJobs -> RecalcPcs]
  /\ recalcTry \in [SyncJobs -> 0 .. MaxAttempts]
  /\ uniqueLock \subseteq SyncJobs
  /\ derived \in [SyncJobs -> SUBSET Stages]
  /\ faults \in 0 .. MaxFaults

Init ==
  /\ syncStatus = [j \in SyncJobs |-> "none"]
  /\ importStatus = [i \in Imports |-> "none"]
  /\ coordPc = [j \in SyncJobs |-> "none"]
  /\ coordTry = [j \in SyncJobs |-> 0]
  /\ coordDomain = [j \in SyncJobs |-> 1]
  /\ importPc = [i \in Imports |-> "none"]
  /\ importTry = [i \in Imports |-> 0]
  /\ failing = {}
  /\ recalcPc = [j \in SyncJobs |-> "none"]
  /\ recalcTry = [j \in SyncJobs |-> 0]
  /\ uniqueLock = {}
  /\ derived = [j \in SyncJobs |-> {}]
  /\ faults = 0

\* The environment may inject a fault of this kind now, and does.
Fault(kind) ==
  /\ kind \in FaultKinds
  /\ faults < MaxFaults
  /\ faults' = faults + 1

\* asynq: a task whose delivery failed waits for the next one, or is archived.
AfterFailedDelivery(try) == IF try < MaxAttempts THEN "queued" ELSE "archived"

OpenStatuses == {"pending", "fetching", "importing"}
TerminalStatuses == {"completed", "failed"}
ImportsOf(j) == {i \in Imports : JobOf(i) = j /\ importStatus[i] # "none"}

-----------------------------------------------------------------------------
(* The HTTP request: insert the sync_job, then enqueue its coordinator.     *)

CreateSyncJob(j) ==
  /\ syncStatus[j] = "none"
  /\ syncStatus' = [syncStatus EXCEPT ![j] = "pending"]
  /\ coordPc' = [coordPc EXCEPT ![j] = "starting"]
  /\ UNCHANGED <<importStatus, coordTry, coordDomain, importVars, recalcVars, faults>>

EnqueueCoordinator(j) ==
  /\ coordPc[j] = "starting"
  /\ coordPc' = [coordPc EXCEPT ![j] = "queued"]
  /\ UNCHANGED <<syncVars, coordTry, coordDomain, importVars, recalcVars, faults>>

\* The enqueue fails: StartInitialSync returns the error and leaves the row.
LoseCoordinator(j) ==
  /\ coordPc[j] = "starting"
  /\ Fault("start")
  /\ coordPc' = [coordPc EXCEPT ![j] = "lost"]
  /\ UNCHANGED <<syncVars, coordTry, coordDomain, importVars, recalcVars>>

-----------------------------------------------------------------------------
(* The coordinator task.                                                    *)

DeliverCoordinator(j) ==
  /\ coordPc[j] = "queued"
  /\ coordPc' = [coordPc EXCEPT ![j] = "toRunning"]
  /\ coordTry' = [coordTry EXCEPT ![j] = @ + 1]
  /\ UNCHANGED <<syncVars, coordDomain, importVars, recalcVars, faults>>

\* UpdateSyncJobToRunning has no condition on the old status.
MarkRunning(j) ==
  /\ coordPc[j] = "toRunning"
  /\ syncStatus' = [syncStatus EXCEPT ![j] = "running"]
  /\ coordPc' = [coordPc EXCEPT ![j] = "create"]
  /\ coordDomain' = [coordDomain EXCEPT ![j] = 1]
  /\ UNCHANGED <<importStatus, coordTry, importVars, recalcVars, faults>>

CurrentImport(j) == <<j, coordTry[j], coordDomain[j]>>

CreateImportJob(j) ==
  /\ coordPc[j] = "create"
  /\ importStatus' = [importStatus EXCEPT ![CurrentImport(j)] = "pending"]
  /\ coordPc' = [coordPc EXCEPT ![j] = "enqueue"]
  /\ UNCHANGED <<syncStatus, coordTry, coordDomain, importVars, recalcVars, faults>>

\* Mutant: the loop runs once more than there are domains.
EnqueueImportPastTheEnd(j) ==
  /\ coordPc[j] = "enqueue"
  /\ importPc' = [importPc EXCEPT ![CurrentImport(j)] = "queued"]
  /\ importTry' = [importTry EXCEPT ![CurrentImport(j)] = 0]
  /\ coordDomain' = [coordDomain EXCEPT ![j] = @ + 1]
  /\ coordPc' = [coordPc EXCEPT ![j] = IF coordDomain[j] <= NumDomains THEN "create" ELSE "return"]
  /\ UNCHANGED <<syncVars, coordTry, failing, recalcVars, faults>>

EnqueueImport(j) ==
  /\ coordPc[j] = "enqueue"
  /\ importPc' = [importPc EXCEPT ![CurrentImport(j)] = "queued"]
  /\ importTry' = [importTry EXCEPT ![CurrentImport(j)] = 0]
  /\ \/ /\ coordDomain[j] < NumDomains
        /\ coordDomain' = [coordDomain EXCEPT ![j] = @ + 1]
        /\ coordPc' = [coordPc EXCEPT ![j] = "create"]
     \/ /\ coordDomain[j] = NumDomains
        /\ coordPc' = [coordPc EXCEPT ![j] = "return"]
        /\ UNCHANGED coordDomain
  /\ UNCHANGED <<syncVars, coordTry, failing, recalcVars, faults>>

CoordinatorDone(j) ==
  /\ coordPc[j] = "return"
  /\ coordPc' = [coordPc EXCEPT ![j] = "done"]
  /\ UNCHANGED <<syncVars, coordTry, coordDomain, importVars, recalcVars, faults>>

\* A statement or an enqueue fails, or the worker dies: nothing is undone.
CoordinatorFails(j) ==
  /\ coordPc[j] \in CoordSteps
  /\ Fault("coordinator")
  /\ coordPc' = [coordPc EXCEPT ![j] = AfterFailedDelivery(coordTry[j])]
  /\ UNCHANGED <<syncVars, coordTry, coordDomain, importVars, recalcVars>>

-----------------------------------------------------------------------------
(* The import task.                                                         *)

ImportGoes(i, pc) == importPc' = [importPc EXCEPT ![i] = pc]

\* The handler returned an error, or its worker died.
ImportGivesUp(i) ==
  /\ ImportGoes(i, AfterFailedDelivery(importTry[i]))
  /\ failing' = failing \ {i}

DeliverImport(i) ==
  /\ importPc[i] = "queued"
  /\ ImportGoes(i, "toFetching")
  /\ importTry' = [importTry EXCEPT ![i] = @ + 1]
  /\ UNCHANGED <<syncVars, coordVars, failing, recalcVars, faults>>

MarkFetching(i) ==
  /\ importPc[i] = "toFetching"
  /\ importStatus' = [importStatus EXCEPT ![i] = "fetching"]
  /\ ImportGoes(i, "toImporting")
  /\ UNCHANGED <<syncStatus, coordVars, importTry, failing, recalcVars, faults>>

MarkImporting(i) ==
  /\ importPc[i] = "toImporting"
  /\ importStatus' = [importStatus EXCEPT ![i] = "importing"]
  /\ ImportGoes(i, "run")
  /\ UNCHANGED <<syncStatus, coordVars, importTry, failing, recalcVars, faults>>

\* The importer's Run and the AdvanceCursor that follows it: what they write
\* (data rows and sync_cursors) is disjoint from the state of this module.
RunImporter(i) ==
  /\ importPc[i] = "run"
  /\ ImportGoes(i, "toCompleted")
  /\ UNCHANGED <<syncVars, coordVars, importTry, failing, recalcVars, faults>>

\* Mutant: completeImport returns without finalizing the parent.
MarkCompletedOnly(i) ==
  /\ importPc[i] = "toCompleted"
  /\ importStatus' = [importStatus EXCEPT ![i] = "completed"]
  /\ ImportGoes(i, "return")
  /\ UNCHANGED <<syncStatus, coordVars, importTry, failing, recalcVars, faults>>

MarkCompleted(i) ==
  /\ importPc[i] = "toCompleted"
  /\ importStatus' = [importStatus EXCEPT ![i] = "completed"]
  /\ ImportGoes(i, "tryFailed")
  /\ UNCHANGED <<syncStatus, coordVars, importTry, failing, recalcVars, faults>>

MarkFailed(i) ==
  /\ importPc[i] = "toFailed"
  /\ importStatus' = [importStatus EXCEPT ![i] = "failed"]
  /\ ImportGoes(i, "tryFailed")
  /\ UNCHANGED <<syncStatus, coordVars, importTry, failing, recalcVars, faults>>

\* Mutant: sync_jobs.sql without "status NOT IN ('completed', 'failed')".
FinalizableAsFailedAgain(j) ==
  /\ \E k \in ImportsOf(j) : importStatus[k] = "failed"
  /\ \A k \in ImportsOf(j) : importStatus[k] \notin OpenStatuses

FinalizableAsFailed(j) ==
  /\ syncStatus[j] \notin TerminalStatuses
  /\ \E k \in ImportsOf(j) : importStatus[k] = "failed"
  /\ \A k \in ImportsOf(j) : importStatus[k] \notin OpenStatuses

\* Mutant: the completing update without its guard on the old status.
FinalizableAsCompletedAgain(j) ==
  /\ ImportsOf(j) # {}
  /\ \A k \in ImportsOf(j) : importStatus[k] = "completed"

\* Mutant: a row that is still open does not hold the completion back.
FinalizableAsCompletedEarly(j) ==
  /\ syncStatus[j] \notin TerminalStatuses
  /\ ImportsOf(j) # {}
  /\ \A k \in ImportsOf(j) : importStatus[k] # "failed"

FinalizableAsCompleted(j) ==
  /\ syncStatus[j] \notin TerminalStatuses
  /\ ImportsOf(j) # {}
  /\ \A k \in ImportsOf(j) : importStatus[k] = "completed"

TryFinalizeFailed(i) ==
  /\ importPc[i] = "tryFailed"
  /\ syncStatus' = IF FinalizableAsFailed(JobOf(i))
                   THEN [syncStatus EXCEPT ![JobOf(i)] = "failed"]
                   ELSE syncStatus
  /\ ImportGoes(i, "tryCompleted")
  /\ UNCHANGED <<importStatus, coordVars, importTry, failing, recalcVars, faults>>

\* completeImport returns nil; failImport is followed by "return err".
ImportReturns(i) ==
  \/ /\ i \notin failing
     /\ ImportGoes(i, "return")
     /\ UNCHANGED failing
  \/ /\ i \in failing
     /\ ImportGivesUp(i)

TryFinalizeCompleted(i) ==
  /\ importPc[i] = "tryCompleted"
  /\ IF FinalizableAsCompleted(JobOf(i))
     THEN /\ syncStatus' = [syncStatus EXCEPT ![JobOf(i)] = "completed"]
          /\ derived' = [derived EXCEPT ![JobOf(i)] = {}]
          /\ ImportGoes(i, "hook")
          /\ UNCHANGED failing
     ELSE /\ UNCHANGED <<syncStatus, derived>>
          /\ ImportReturns(i)
  /\ UNCHANGED <<importStatus, coordVars, importTry, recalcPc, recalcTry, uniqueLock, faults>>

\* Mutant: failImport's caller swallows the error after it is recorded.
ImportRaisesQuietly(i) ==
  IF importPc[i] = "toFetching" \/ i \in failing
  THEN ImportGivesUp(i)
  ELSE /\ ImportGoes(i, "toFailed")
       /\ UNCHANGED failing

\* An error on the completing path is answered by failImport; an error of the
\* first statement, or inside failImport, ends the delivery at once.
ImportRaises(i) ==
  IF importPc[i] = "toFetching" \/ i \in failing
  THEN ImportGivesUp(i)
  ELSE /\ ImportGoes(i, "toFailed")
       /\ failing' = failing \cup {i}

\* enqueuePostSyncRecalc: asynq takes the unique lock, then refuses a task id
\* that exists; only the refused lock is tolerated by the hook.
EnqueueRecalc(i) ==
  LET j == JobOf(i) IN
  /\ importPc[i] = "hook"
  /\ uniqueLock' = uniqueLock \cup {j}
  /\ \/ /\ j \in uniqueLock
        /\ ImportReturns(i)
        /\ UNCHANGED <<recalcPc, recalcTry>>
     \/ /\ j \notin uniqueLock
        /\ recalcPc[j] = "none"
        /\ recalcPc' = [recalcPc EXCEPT ![j] = "queued"]
        /\ recalcTry' = [recalcTry EXCEPT ![j] = 0]
        /\ ImportReturns(i)
     \/ /\ j \notin uniqueLock
        /\ recalcPc[j] # "none"
        /\ ImportRaises(i)
        /\ UNCHANGED <<recalcPc, recalcTry>>
  /\ UNCHANGED <<syncVars, coordVars, importTry, derived, faults>>

ImportDone(i) ==
  /\ importPc[i] = "return"
  /\ ImportGoes(i, "done")
  /\ UNCHANGED <<syncVars, coordVars, importTry, failing, recalcVars, faults>>

ImportError(i) ==
  /\ \/ importPc[i] \in ImportStatements /\ Fault("import")
     \/ importPc[i] = "hook" /\ Fault("hook")
  /\ ImportRaises(i)
  /\ UNCHANGED <<syncVars, coordVars, importTry, recalcVars>>

\* The worker dies inside the handler: asynq's recoverer redelivers the task.
ImportCrash(i) ==
  /\ importPc[i] \in ImportSteps
  /\ Fault(IF importPc[i] = "hook" THEN "crashAtHook" ELSE "crash")
  /\ ImportGivesUp(i)
  /\ UNCHANGED <<syncVars, coordVars, importTry, recalcVars>>

-----------------------------------------------------------------------------
(* The post-sync recalculation task.                                        *)

DeliverRecalc(j) ==
  /\ recalcPc[j] = "queued"
  /\ recalcPc' = [recalcPc EXCEPT ![j] = "account"]
  /\ recalcTry' = [recalcTry EXCEPT ![j] = @ + 1]
  /\ UNCHANGED <<syncVars, coordVars, importVars, uniqueLock, derived, faults>>

\* Mutant: the handler returns after the SKU metrics.
NextStageWithoutAlerts(s) ==
  CASE s = "account" -> "sku" [] s \in {"sku", "alerts"} -> "return"

NextStage(s) ==
  CASE s = "account" -> "sku" [] s = "sku" -> "alerts" [] s = "alerts" -> "return"

RunStage(j) ==
  /\ recalcPc[j] \in Stages
  /\ derived' = [derived EXCEPT ![j] = @ \cup {recalcPc[j]}]
  /\ recalcPc' = [recalcPc EXCEPT ![j] = NextStage(@)]
  /\ UNCHANGED <<syncVars, coordVars, importVars, recalcTry, uniqueLock, faults>>

\* asynq forgets a processed task and releases its lock.
RecalcDone(j) ==
  /\ recalcPc[j] = "return"
  /\ recalcPc' = [recalcPc EXCEPT ![j] = "none"]
  /\ uniqueLock' = uniqueLock \ {j}
  /\ UNCHANGED <<syncVars, coordVars, importVars, recalcTry, derived, faults>>

RecalcFails(j) ==
  /\ recalcPc[j] \in Stages \cup {"return"}
  /\ Fault("recalc")
  /\ recalcPc' = [recalcPc EXCEPT ![j] = AfterFailedDelivery(recalcTry[j])]
  /\ UNCHANGED <<syncVars, coordVars, importVars, recalcTry, uniqueLock, derived>>

\* 48 hours pass with the task unprocessed.
LockExpires(j) ==
  /\ j \in uniqueLock
  /\ Fault("expiry")
  /\ uniqueLock' = uniqueLock \ {j}
  /\ UNCHANGED <<syncVars, coordVars, importVars, recalcPc, recalcTry, derived>>

-----------------------------------------------------------------------------
HttpNext(j) == CreateSyncJob(j) \/ EnqueueCoordinator(j) \/ LoseCoordinator(j)

CoordinatorStep(j) ==
  \/ DeliverCoordinator(j)
  \/ MarkRunning(j)
  \/ CreateImportJob(j)
  \/ EnqueueImport(j)
  \/ CoordinatorDone(j)

ImportStep(i) ==
  \/ DeliverImport(i)
  \/ MarkFetching(i)
  \/ MarkImporting(i)
  \/ RunImporter(i)
  \/ MarkCompleted(i)
  \/ MarkFailed(i)
  \/ TryFinalizeFailed(i)
  \/ TryFinalizeCompleted(i)
  \/ EnqueueRecalc(i)
  \/ ImportDone(i)

RecalcStep(j) == DeliverRecalc(j) \/ RunStage(j) \/ RecalcDone(j)

Next ==
  \/ \E j \in SyncJobs :
       \/ HttpNext(j)
       \/ CoordinatorStep(j)
       \/ CoordinatorFails(j)
       \/ RecalcStep(j)
       \/ RecalcFails(j)
       \/ LockExpires(j)
  \/ \E i \in Imports :
       \/ ImportStep(i)
       \/ ImportError(i)
       \/ ImportCrash(i)

Spec == Init /\ [][Next]_vars

\* The asynq server keeps delivering and a handler keeps running; a request
\* may never come, and a fault need not happen.
Fairness ==
  /\ \A j \in SyncJobs : WF_vars(EnqueueCoordinator(j))
                         /\ WF_vars(CoordinatorStep(j))
                         /\ WF_vars(RecalcStep(j))
  /\ \A i \in Imports : WF_vars(ImportStep(i))

FairSpec == Spec /\ Fairness

-----------------------------------------------------------------------------
(* Properties.                                                              *)

Terminal(j) == syncStatus[j] \in TerminalStatuses

\* Deliveries of the task are over: it never existed, succeeded or is archived.
AtRest(i) == importPc[i] \in {"none", "done", "archived"}

\* A sync_job that is still open although the coordinator and every import
\* task are at rest has one of two causes: an import task ran out of attempts,
\* or a retried coordinator left behind a row that no task was enqueued for.
\* Finalization by whichever import comes last (sync_job_finalize.go) loses
\* no sync_job to the interleaving of the import handlers.
StuckSyncIsExplained ==
  \A j \in SyncJobs :
    /\ coordPc[j] = "done"
    /\ ~ Terminal(j)
    /\ \A i \in ImportsOf(j) : AtRest(i)
    => \E i \in ImportsOf(j) :
         \/ importPc[i] = "archived"
         \/ importPc[i] = "none" /\ coordTry[j] > 1

\* "invoked once when a parent sync_job transitions to completed"
\* (ozon_import_handlers.go): unless the coordinator was retried, at most one
\* import handler is ever about to call the hook, and a recalculation exists
\* only for a sync_job that is completed and stays so.
CompletionIsUnique ==
  \A j \in SyncJobs : coordTry[j] <= 1 =>
    /\ recalcPc[j] # "none" => syncStatus[j] = "completed"
    /\ \A i \in ImportsOf(j) : importPc[i] = "hook" =>
         /\ syncStatus[j] = "completed"
         /\ \A k \in ImportsOf(j) : importPc[k] = "hook" => k = i

\* "idempotent for terminal sync_jobs" (sync_job_finalize.go): finalization
\* never changes a terminal status; only a retried coordinator, whose
\* UpdateSyncJobToRunning is unconditional, takes a sync_job back to running.
TerminalStatusIsSticky ==
  [][\A j \in SyncJobs :
       Terminal(j) /\ syncStatus'[j] # syncStatus[j]
         => coordTry[j] > 1 /\ MarkRunning(j)]_vars

\* While a handler is on its completing path after MarkCompleted, nobody else
\* rewrites its import_jobs row, so the counters and the status it finalizes
\* the parent with are its own.
SettledImportIsCompleted ==
  \A i \in Imports :
    /\ importPc[i] \in {"tryFailed", "tryCompleted", "hook", "return", "done"}
    /\ i \notin failing
    => importStatus[i] = "completed"

\* The comment over runParentSyncJobFinalization: the parent is terminal when
\* every import_job of the sync has reached a terminal state.
TerminalSyncHasNoOpenImport ==
  \A j \in SyncJobs : Terminal(j) =>
    \A i \in ImportsOf(j) : importStatus[i] \notin OpenStatuses

\* Every requested sync ends, when workers keep running and no task exhausts
\* its attempts.
SyncSettles ==
  \A j \in SyncJobs : syncStatus[j] = "pending" ~> Terminal(j)

\* After the sync_job transitions to completed, account metrics, SKU metrics
\* and alerts are all rebuilt (the recalculation task is enqueued, and each
\* failed delivery of it is retried from its first stage).
CompletedSyncIsRecalculated ==
  \A j \in SyncJobs : syncStatus[j] = "completed" ~> derived[j] = Stages

\* The pipeline implements the sync_job lifecycle: a parent is finalized only
\* when no import is open, as failed only if one failed, and what follows a
\* completion follows from the import that completed it.
OpenImports    == [j \in SyncJobs |-> {i \in ImportsOf(j) : importStatus[i] \in OpenStatuses}]
FailedImports  == [j \in SyncJobs |-> {i \in ImportsOf(j) : importStatus[i] = "failed"}]
Notices        == [j \in SyncJobs |-> {i \in ImportsOf(j) : importPc[i] = "hook"}]
Requested      == {j \in SyncJobs : recalcPc[j] # "none"}

Lifecycle == INSTANCE SyncLifecycle WITH
  status    <- syncStatus,
  open      <- OpenImports,
  failed    <- FailedImports,
  notices   <- Notices,
  requested <- Requested

ImplementsLifecycle == Lifecycle!Spec
=============================================================================
