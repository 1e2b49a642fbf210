-------------------------- MODULE SyncPipelineProofs --------------------------
(***************************************************************************)
(* Proofs about SyncPipeline, for every set of sync_jobs, every number of  *)
(* domains, of attempts and of faults.                                     *)
(***************************************************************************)
EXTENDS SyncPipelineInv, TLAPS

-----------------------------------------------------------------------------
(* Type correctness.  A delivery increments the counter of its task, so the *)
(* bounds on the counters need AttemptsLeft and CoordinatorStarted.         *)

Typed == TypeOK /\ AttemptsLeft /\ CoordinatorStarted

LEMMA UpdateTyped ==
  ASSUME NEW S, NEW T, NEW f \in [S -> T], NEW x, NEW v \in T
  PROVE  [f EXCEPT ![x] = v] \in [S -> T]
  OBVIOUS

LEMMA FailedDelivery ==
  ASSUME NEW try \in 0 .. MaxAttempts
  PROVE  /\ AfterFailedDelivery(try) \in {"queued", "archived"}
         /\ AfterFailedDelivery(try) = "queued" => try < MaxAttempts
  BY DEF AfterFailedDelivery

LEMMA StageAdvances ==
  ASSUME NEW s \in Stages
  PROVE  NextStage(s) \in {"sku", "alerts", "return"}
  BY DEF NextStage, Stages

LEMMA InitTyped == Init => Typed
  BY ConstantsAssumption
     DEF Init, Typed, TypeOK, AttemptsLeft, CoordinatorStarted, Domains,
         SyncStatuses, ImportStatuses, CoordPcs, CoordSteps, ImportPcs,
         ImportSteps, ImportStatements, RecalcPcs

LEMMA HttpTyped ==
  ASSUME Typed, NEW j \in SyncJobs, HttpNext(j)
  PROVE  Typed'
<1> USE ConstantsAssumption
    DEF Typed, TypeOK, AttemptsLeft, CoordinatorStarted, SyncStatuses,
        CoordPcs, CoordSteps, syncVars, coordVars, importVars, recalcVars
<1>1. CASE CreateSyncJob(j)
  BY <1>1 DEF CreateSyncJob
<1>2. CASE EnqueueCoordinator(j)
  BY <1>2 DEF EnqueueCoordinator
<1>3. CASE LoseCoordinator(j)
  BY <1>3 DEF LoseCoordinator, Fault
<1> QED
  BY <1>1, <1>2, <1>3 DEF HttpNext

\* What a coordinator inserts or enqueues is a row of this attempt.
LEMMA CurrentIsImport ==
  ASSUME Typed, NEW j \in SyncJobs, coordPc[j] \in CoordSteps
  PROVE  CurrentImport(j) \in Imports
  BY ConstantsAssumption
     DEF Typed, TypeOK, CoordinatorStarted, CurrentImport, Imports, Attempts

LEMMA CoordinatorTyped ==
  ASSUME Typed, NEW j \in SyncJobs, CoordinatorStep(j) \/ CoordinatorFails(j)
  PROVE  Typed'
<1> USE ConstantsAssumption
    DEF Typed, TypeOK, AttemptsLeft, CoordinatorStarted, SyncStatuses,
        ImportStatuses, CoordPcs, CoordSteps, ImportPcs, ImportSteps, Domains,
        syncVars, coordVars, importVars, recalcVars
<1>1. CASE DeliverCoordinator(j)
  BY <1>1 DEF DeliverCoordinator
<1>2. CASE MarkRunning(j)
  BY <1>2 DEF MarkRunning
<1>3. CASE CreateImportJob(j)
  BY <1>3 DEF CreateImportJob
<1>4. CASE EnqueueImport(j)
  <2>0. CurrentImport(j) \in Imports
    BY <1>4, CurrentIsImport DEF EnqueueImport
  <2>1. /\ importPc' \in [Imports -> ImportPcs]
        /\ importTry' \in [Imports -> 0 .. MaxAttempts]
    <3>1. "queued" \in ImportPcs /\ 0 \in 0 .. MaxAttempts
      OBVIOUS
    <3> HIDE DEF ImportPcs
    <3> QED
      BY <1>4, <3>1, UpdateTyped DEF EnqueueImport
  <2>3. ASSUME NEW i \in Imports, importPc'[i] = "queued"
        PROVE  importTry'[i] < MaxAttempts
    <3>1. CASE i = CurrentImport(j)
      BY <1>4, <2>0, <3>1 DEF EnqueueImport
    <3>2. CASE i # CurrentImport(j)
      BY <1>4, <2>0, <2>3, <3>2 DEF EnqueueImport
    <3> QED
      BY <3>1, <3>2
  <2>2. /\ coordPc' \in [SyncJobs -> CoordPcs]
        /\ coordDomain' \in [SyncJobs -> Domains]
        /\ coordPc'[j] \in {"create", "return"}
        /\ \A k \in SyncJobs \ {j} : coordPc'[k] = coordPc[k]
    BY <1>4 DEF EnqueueImport
  <2> QED
    BY <1>4, <2>1, <2>2, <2>3 DEF EnqueueImport
<1>5. CASE CoordinatorDone(j)
  BY <1>5 DEF CoordinatorDone
<1>6. CASE CoordinatorFails(j)
  BY <1>6, FailedDelivery DEF CoordinatorFails, Fault
<1> QED
  BY <1>1, <1>2, <1>3, <1>4, <1>5, <1>6 DEF CoordinatorStep

\* Where an import goes when its delivery ends or its handler raises.
LEMMA ImportGoesOn ==
  ASSUME Typed, NEW i \in Imports,
         ImportGivesUp(i) \/ ImportRaises(i) \/ ImportReturns(i)
  PROVE  /\ importPc' \in [Imports -> ImportPcs]
         /\ failing' \subseteq Imports
         /\ importPc'[i] = "queued" => importTry[i] < MaxAttempts
         /\ \A k \in Imports \ {i} : importPc'[k] = importPc[k]
<1> USE FailedDelivery
    DEF Typed, TypeOK, ImportGoes, ImportPcs, ImportSteps, ImportStatements
<1>1. CASE ImportGivesUp(i)
  BY <1>1 DEF ImportGivesUp
<1>2. CASE ImportRaises(i)
  BY <1>1, <1>2 DEF ImportRaises
<1>3. CASE ImportReturns(i)
  BY <1>1, <1>3 DEF ImportReturns
<1> QED
  BY <1>1, <1>2, <1>3

LEMMA ImportTyped ==
  ASSUME Typed, NEW i \in Imports,
         ImportStep(i) \/ ImportError(i) \/ ImportCrash(i)
  PROVE  Typed'
<1>0. JobOf(i) \in SyncJobs
  BY DEF JobOf, Imports
<1> USE ConstantsAssumption, <1>0
    DEF Typed, TypeOK, AttemptsLeft, CoordinatorStarted, SyncStatuses,
        ImportStatuses, ImportPcs, ImportSteps, ImportStatements, RecalcPcs,
        ImportGoes, syncVars, coordVars, importVars, recalcVars
<1>1. CASE DeliverImport(i)
  BY <1>1 DEF DeliverImport
<1>2. CASE MarkFetching(i)
  BY <1>2 DEF MarkFetching
<1>3. CASE MarkImporting(i)
  BY <1>3 DEF MarkImporting
<1>4. CASE RunImporter(i)
  BY <1>4 DEF RunImporter
<1>5. CASE MarkCompleted(i)
  BY <1>5 DEF MarkCompleted
<1>6. CASE MarkFailed(i)
  BY <1>6 DEF MarkFailed
<1>7. CASE TryFinalizeFailed(i)
  BY <1>7 DEF TryFinalizeFailed
<1>8. CASE TryFinalizeCompleted(i)
  <2>1. CASE FinalizableAsCompleted(JobOf(i))
    BY <1>8, <2>1 DEF TryFinalizeCompleted
  <2>2. CASE ~ FinalizableAsCompleted(JobOf(i))
    BY <1>8, <2>2, ImportGoesOn DEF TryFinalizeCompleted
  <2> QED
    BY <2>1, <2>2
<1>9. CASE EnqueueRecalc(i)
  <2>1. /\ importPc' \in [Imports -> ImportPcs]
        /\ failing' \subseteq Imports
        /\ \A k \in Imports : importPc'[k] = "queued" => importTry[k] < MaxAttempts
    BY <1>9, ImportGoesOn DEF EnqueueRecalc
  <2>2. /\ recalcPc' \in [SyncJobs -> RecalcPcs]
        /\ recalcTry' \in [SyncJobs -> 0 .. MaxAttempts]
        /\ \A j \in SyncJobs : recalcPc'[j] = "queued" => recalcTry'[j] < MaxAttempts
    BY <1>9 DEF EnqueueRecalc
  <2> QED
    BY <1>9, <2>1, <2>2 DEF EnqueueRecalc
<1>10. CASE ImportDone(i)
  BY <1>10 DEF ImportDone
<1>11. CASE ImportError(i)
  BY <1>11, ImportGoesOn DEF ImportError, Fault
<1>12. CASE ImportCrash(i)
  BY <1>12, ImportGoesOn DEF ImportCrash, Fault
<1> QED
  BY <1>1, <1>2, <1>3, <1>4, <1>5, <1>6, <1>7, <1>8, <1>9, <1>10, <1>11, <1>12
     DEF ImportStep

LEMMA RecalcTyped ==
  ASSUME Typed, NEW j \in SyncJobs,
         RecalcStep(j) \/ RecalcFails(j) \/ LockExpires(j)
  PROVE  Typed'
<1> USE ConstantsAssumption
    DEF Typed, TypeOK, AttemptsLeft, CoordinatorStarted, RecalcPcs, Stages,
        syncVars, coordVars, importVars, recalcVars
<1>1. CASE DeliverRecalc(j)
  BY <1>1 DEF DeliverRecalc
<1>2. CASE RunStage(j)
  BY <1>2, StageAdvances DEF RunStage
<1>3. CASE RecalcDone(j)
  BY <1>3 DEF RecalcDone
<1>4. CASE RecalcFails(j)
  BY <1>4, FailedDelivery DEF RecalcFails, Fault
<1>5. CASE LockExpires(j)
  BY <1>5 DEF LockExpires, Fault
<1> QED
  BY <1>1, <1>2, <1>3, <1>4, <1>5 DEF RecalcStep

LEMMA NextTyped == Typed /\ [Next]_vars => Typed'
<1>1. Typed /\ UNCHANGED vars => Typed'
  BY DEF Typed, TypeOK, AttemptsLeft, CoordinatorStarted, vars, syncVars,
         coordVars, importVars, recalcVars
<1> QED
  BY <1>1, HttpTyped, CoordinatorTyped, ImportTyped, RecalcTyped DEF Next

\* Every state of the pipeline has its type, and no task is delivered more
\* often than asynq allows.
THEOREM TypeCorrect == Spec => []TypeOK
<1>1. Typed => TypeOK
  BY DEF Typed
<1> QED
  BY <1>1, InitTyped, NextTyped, PTL DEF Spec

-----------------------------------------------------------------------------
(* Rows, tasks and handlers.                                                *)

Rows == RowsAreDispatched /\ TasksHaveRows /\ RowsHaveTasks /\ EnqueuingHasRow

Handlers == FailingHandlers /\ SettledImportIsCompleted

Shape == Typed /\ Rows /\ Handlers

ImportAction(i) == ImportStep(i) \/ ImportError(i) \/ ImportCrash(i)

\* What a step of an import task leaves true of that import, and alone.
ImportEffect(i) ==
  /\ coordVars' = coordVars
  /\ importPc[i] # "none" /\ importPc'[i] # "none"
  /\ importStatus[i] # "none" /\ importStatus'[i] # "none"
  /\ \A k \in Imports \ {i} :
       /\ importPc'[k] = importPc[k]
       /\ importStatus'[k] = importStatus[k]
       /\ (k \in failing') = (k \in failing)
  /\ i \in failing' => importPc'[i] \in {"toFailed", "tryFailed", "tryCompleted", "hook"}
  /\ importPc'[i] = "toFailed" => i \in failing'
  /\ i \notin failing'
       /\ importPc'[i] \in {"tryFailed", "tryCompleted", "hook", "return", "done"}
     => importStatus'[i] = "completed"
  /\ Settled(i)' => Settled(i) \/ TryFinalizeCompleted(i)

\* A raise or a return leads to none of the steps that finalization follows,
\* except the return of a handler that has finalized.
LEMMA ImportLeaves ==
  ASSUME Shape, NEW i \in Imports, importPc[i] # "none",
         ImportGivesUp(i) \/ ImportRaises(i) \/ ImportReturns(i)
  PROVE  /\ importPc'[i] \in {"queued", "archived", "toFailed", "return"}
         /\ importPc'[i] = "return" => i \notin failing
         /\ ImportGivesUp(i) \/ ImportRaises(i) => importPc'[i] # "return"
         /\ i \in failing' <=> importPc'[i] = "toFailed"
         /\ \A k \in Imports \ {i} : /\ importPc'[k] = importPc[k]
                                   /\ (k \in failing') = (k \in failing)
<1> USE FailedDelivery DEF Shape, Typed, TypeOK, ImportGoes
<1>1. importPc[i] = "toFailed" => i \in failing
  BY DEF Shape, Handlers, FailingHandlers
<1>2. CASE ImportGivesUp(i)
  BY <1>2 DEF ImportGivesUp
<1>3. CASE ImportRaises(i)
  BY <1>2, <1>3 DEF ImportRaises
<1>4. CASE ImportReturns(i)
  BY <1>2, <1>4 DEF ImportReturns, ImportRaises, ImportGivesUp
<1> QED
  BY <1>2, <1>3, <1>4

LEMMA ImportStepEffect ==
  ASSUME Shape, NEW i \in Imports, ImportAction(i)
  PROVE  ImportEffect(i)
<1>0. importPc[i] # "none" => importStatus[i] # "none"
  BY DEF Shape, Rows, TasksHaveRows
<1>a. /\ i \in failing => importPc[i] \in {"toFailed", "tryFailed", "tryCompleted", "hook"}
      /\ importPc[i] = "toFailed" => i \in failing
      /\ i \notin failing
           /\ importPc[i] \in {"tryFailed", "tryCompleted", "hook", "return", "done"}
         => importStatus[i] = "completed"
  BY DEF Shape, Handlers, FailingHandlers, SettledImportIsCompleted
<1>b. /\ importPc \in [Imports -> ImportPcs]
      /\ importStatus \in [Imports -> ImportStatuses]
  BY DEF Shape, Typed, TypeOK
<1> USE <1>0, <1>a, <1>b
    DEF ImportEffect, ImportGoes, Settled, syncVars, coordVars, importVars, recalcVars
<1>1. CASE DeliverImport(i)
  BY <1>1 DEF DeliverImport
<1>2. CASE MarkFetching(i)
  BY <1>2 DEF MarkFetching
<1>3. CASE MarkImporting(i)
  BY <1>3 DEF MarkImporting
<1>4. CASE RunImporter(i)
  BY <1>4 DEF RunImporter
<1>5. CASE MarkCompleted(i)
  BY <1>5 DEF MarkCompleted
<1>6. CASE MarkFailed(i)
  BY <1>6 DEF MarkFailed
<1>7. CASE TryFinalizeFailed(i)
  BY <1>7 DEF TryFinalizeFailed
<1>8. CASE TryFinalizeCompleted(i)
  <2>1. CASE FinalizableAsCompleted(JobOf(i))
    <3>1. importStatus[i] = "completed"
      BY <1>8, <2>1
         DEF TryFinalizeCompleted, FinalizableAsCompleted, ImportsOf
    <3> QED
      BY <1>8, <2>1, <3>1 DEF TryFinalizeCompleted
  <2>2. CASE ~ FinalizableAsCompleted(JobOf(i))
    BY <1>8, <2>2, ImportLeaves DEF TryFinalizeCompleted
  <2> QED
    BY <2>1, <2>2
<1>9. CASE EnqueueRecalc(i)
  BY <1>9, ImportLeaves DEF EnqueueRecalc
<1>10. CASE ImportDone(i)
  BY <1>10 DEF ImportDone
<1>11. CASE ImportError(i)
  <2>1. importPc[i] \notin {"none", "return", "done"} /\ ImportRaises(i)
    BY <1>11 DEF ImportError, ImportStatements
  <2> QED
    BY <1>11, <2>1, ImportLeaves DEF ImportError
<1>12. CASE ImportCrash(i)
  <2>1. importPc[i] \notin {"none", "done"} /\ ImportGivesUp(i)
    BY <1>12 DEF ImportCrash, ImportSteps, ImportStatements
  <2> QED
    BY <1>12, <2>1, ImportLeaves DEF ImportCrash
<1> QED
  BY <1>1, <1>2, <1>3, <1>4, <1>5, <1>6, <1>7, <1>8, <1>9, <1>10, <1>11, <1>12
     DEF ImportAction, ImportStep

LEMMA JobOfImport == ASSUME NEW i \in Imports PROVE JobOf(i) \in SyncJobs
  BY DEF JobOf, Imports

\* Before the first attempt has created anything there are no rows.
LEMMA NoRowsYet ==
  ASSUME Shape, NEW j \in SyncJobs,
         coordTry[j] = 0 \/ (coordTry[j] = 1 /\ coordPc[j] = "toRunning"),
         NEW i \in Imports, JobOf(i) = j
  PROVE  importStatus[i] = "none"
<1>1. i[2] \in Nat /\ i[2] >= 1
  BY ConstantsAssumption DEF Imports, Attempts
<1> QED
  BY <1>1 DEF Shape, Rows, RowsAreDispatched

LEMMA RowsComeFromAnAttempt ==
  ASSUME Shape, NEW i \in Imports, importStatus[i] # "none"
  PROVE  coordTry[JobOf(i)] \in Nat /\ coordTry[JobOf(i)] >= 1
<1>1. coordTry[JobOf(i)] \in Nat
  BY JobOfImport, ConstantsAssumption DEF Shape, Typed, TypeOK
<1>2. i[2] \in Nat /\ i[2] >= 1
  BY ConstantsAssumption DEF Imports, Attempts
<1> QED
  BY <1>1, <1>2 DEF Shape, Rows, RowsAreDispatched

\* Steps of the HTTP handler and of the recalculation touch no import.
LEMMA RowsApart ==
  ASSUME Shape, importStatus' = importStatus, importVars' = importVars,
         \/ \E j \in SyncJobs : HttpNext(j)
         \/ coordVars' = coordVars
  PROVE  (Rows /\ Handlers)'
<1> USE DEF Shape, Rows, Handlers, RowsAreDispatched, TasksHaveRows, RowsHaveTasks,
            EnqueuingHasRow, FailingHandlers, SettledImportIsCompleted,
            coordVars, importVars, CurrentImport
<1>1. CASE coordVars' = coordVars
  BY <1>1
<1>2. ASSUME NEW j \in SyncJobs, HttpNext(j)
      PROVE  (Rows /\ Handlers)'
  <2>1. coordTry[j] = 0
    <3>1. coordPc[j] \in {"none", "starting"}
      BY <1>2
         DEF HttpNext, CreateSyncJob, EnqueueCoordinator, LoseCoordinator, Typed,
             CoordinatorStarted
    <3> QED
      BY <3>1 DEF Typed, CoordinatorStarted
  <2>2. \A i \in Imports : importStatus[i] # "none" => JobOf(i) # j
    <3> HIDE DEF Shape
    <3> QED
      BY <2>1, RowsComeFromAnAttempt
  <2>3. /\ coordTry' = coordTry /\ coordDomain' = coordDomain
        /\ \A k \in SyncJobs \ {j} : coordPc'[k] = coordPc[k]
        /\ coordPc'[j] \in {"starting", "queued", "lost"}
    BY <1>2
       DEF HttpNext, CreateSyncJob, EnqueueCoordinator, LoseCoordinator, Typed, TypeOK
  <2>4. /\ RowsAreDispatched'
        /\ TasksHaveRows'
        /\ RowsHaveTasks'
    BY <2>2, <2>3, JobOfImport
  <2>5. EnqueuingHasRow'
    BY <2>3
  <2>6. Handlers'
    OBVIOUS
  <2> QED
    BY <2>4, <2>5, <2>6
<1> QED
  BY <1>1, <1>2

LEMMA CoordinatorKeepsRows ==
  ASSUME Shape, NEW j \in SyncJobs, CoordinatorStep(j) \/ CoordinatorFails(j)
  PROVE  (Rows /\ Handlers)'
<1> USE DEF Shape, Typed, TypeOK, syncVars, coordVars, importVars, recalcVars
<1>r. /\ RowsAreDispatched /\ TasksHaveRows /\ RowsHaveTasks /\ EnqueuingHasRow
      /\ FailingHandlers /\ SettledImportIsCompleted
  BY DEF Rows, Handlers
<1>1. CASE DeliverCoordinator(j)
  <2>1. /\ coordTry'[j] = coordTry[j] + 1 /\ coordPc'[j] = "toRunning"
        /\ \A k \in SyncJobs \ {j} : /\ coordTry'[k] = coordTry[k]
                                  /\ coordPc'[k] = coordPc[k]
        /\ coordDomain' = coordDomain
        /\ UNCHANGED <<importStatus, importPc, failing>>
    BY <1>1 DEF DeliverCoordinator
  <2>2. RowsAreDispatched'
    <3> SUFFICES ASSUME NEW i \in Imports, importStatus[i] # "none", JobOf(i) = j
                 PROVE  i[2] < coordTry[j] + 1
      BY <1>r, <2>1, JobOfImport DEF RowsAreDispatched
    <3> QED
      BY <1>r, ConstantsAssumption DEF RowsAreDispatched, Imports, Attempts
  <2>3. RowsHaveTasks'
    <3> SUFFICES ASSUME NEW i \in Imports, importStatus[i] # "none", JobOf(i) = j
                 PROVE  coordTry[j] + 1 > 1
      BY <1>r, <2>1, JobOfImport DEF RowsHaveTasks, CurrentImport
    <3> HIDE DEF Shape
    <3> QED
      BY RowsComeFromAnAttempt
  <2>4. (TasksHaveRows /\ FailingHandlers /\ SettledImportIsCompleted)'
    BY <1>r, <2>1 DEF TasksHaveRows, FailingHandlers, SettledImportIsCompleted
  <2>5. EnqueuingHasRow'
    BY <1>r, <2>1 DEF EnqueuingHasRow, CurrentImport
  <2> QED
    BY <2>2, <2>3, <2>4, <2>5 DEF Rows, Handlers
<1>2. CASE MarkRunning(j)
  <2>1. /\ coordPc[j] = "toRunning" /\ coordPc'[j] = "create" /\ coordTry' = coordTry
        /\ \A k \in SyncJobs \ {j} : /\ coordDomain'[k] = coordDomain[k]
                                  /\ coordPc'[k] = coordPc[k]
        /\ UNCHANGED <<importStatus, importPc, failing>>
    BY <1>2 DEF MarkRunning
  <2>2. (RowsAreDispatched /\ RowsHaveTasks /\ EnqueuingHasRow)'
    BY <1>r, <2>1, JobOfImport
       DEF RowsAreDispatched, RowsHaveTasks, EnqueuingHasRow, CurrentImport
  <2>3. (TasksHaveRows /\ FailingHandlers /\ SettledImportIsCompleted)'
    BY <1>r, <2>1 DEF TasksHaveRows, FailingHandlers, SettledImportIsCompleted
  <2> QED
    BY <2>2, <2>3 DEF Rows, Handlers
<1>3. CASE CreateImportJob(j)
  <2>0. /\ CurrentImport(j) \in Imports /\ JobOf(CurrentImport(j)) = j
        /\ CurrentImport(j)[2] = coordTry[j] /\ CurrentImport(j)[3] = coordDomain[j]
        /\ coordTry[j] \in Nat /\ coordDomain[j] \in Nat
    BY <1>3, CurrentIsImport
       DEF CreateImportJob, CoordSteps, CurrentImport, JobOf, Domains
  <2>1. /\ coordPc[j] = "create" /\ coordPc'[j] = "enqueue"
        /\ \A k \in SyncJobs \ {j} : coordPc'[k] = coordPc[k]
        /\ importStatus'[CurrentImport(j)] = "pending"
        /\ \A i \in Imports \ {CurrentImport(j)} : importStatus'[i] = importStatus[i]
        /\ UNCHANGED <<coordTry, coordDomain, importPc, failing>>
    BY <1>3, <2>0 DEF CreateImportJob
  <2>2. importStatus[CurrentImport(j)] = "none" /\ importPc[CurrentImport(j)] = "none"
    BY <1>r, <2>0, <2>1 DEF RowsAreDispatched, TasksHaveRows
  <2>3. RowsAreDispatched'
    <3> SUFFICES ASSUME NEW i \in Imports, importStatus'[i] # "none", JobOf(i) = j
                 PROVE  \/ i[2] < coordTry[j]
                        \/ i[2] = coordTry[j] /\ i[3] <= coordDomain[j]
      BY <1>r, <2>0, <2>1, JobOfImport DEF RowsAreDispatched
    <3>1. CASE i = CurrentImport(j)
      BY <2>0, <3>1
    <3>2. CASE i # CurrentImport(j)
      BY <1>r, <2>1, <3>2 DEF RowsAreDispatched, Imports, Domains
    <3> QED
      BY <3>1, <3>2
  <2>4. RowsHaveTasks'
    <3> SUFFICES ASSUME NEW i \in Imports, i # CurrentImport(j),
                        importStatus[i] # "none", importPc[i] = "none"
                 PROVE  \/ coordTry[JobOf(i)] > 1
                        \/ coordPc'[JobOf(i)] \in {"queued", "archived"}
                        \/ /\ coordPc'[JobOf(i)] = "enqueue"
                           /\ i = CurrentImport(JobOf(i))
      BY <2>0, <2>1 DEF RowsHaveTasks, CurrentImport
    <3> QED
      BY <1>r, <2>1, JobOfImport DEF RowsHaveTasks
  <2>5. (TasksHaveRows /\ FailingHandlers /\ SettledImportIsCompleted)'
    BY <1>r, <2>1, <2>2 DEF TasksHaveRows, FailingHandlers, SettledImportIsCompleted
  <2>6. EnqueuingHasRow'
    <3> SUFFICES ASSUME NEW k \in SyncJobs, coordPc'[k] = "enqueue"
                 PROVE  /\ importStatus'[CurrentImport(k)] # "none"
                        /\ importPc[CurrentImport(k)] = "none"
      BY <2>1 DEF EnqueuingHasRow, CurrentImport
    <3>1. CASE k = j
      BY <2>1, <2>2, <3>1
    <3>2. CASE k # j
      <4>1. CurrentImport(k) \in Imports
        BY <2>1, <3>2, CurrentIsImport DEF CoordSteps
      <4> QED
        BY <1>r, <2>0, <2>1, <3>2, <4>1 DEF EnqueuingHasRow
    <3> QED
      BY <3>1, <3>2
  <2> QED
    BY <2>3, <2>4, <2>5, <2>6 DEF Rows, Handlers
<1>4. CASE EnqueueImport(j)
  <2>0. CurrentImport(j) \in Imports /\ JobOf(CurrentImport(j)) = j
    BY <1>4, CurrentIsImport DEF EnqueueImport, CoordSteps, CurrentImport, JobOf
  <2>1. /\ coordPc[j] = "enqueue"
        /\ importPc'[CurrentImport(j)] = "queued"
        /\ \A i \in Imports \ {CurrentImport(j)} : importPc'[i] = importPc[i]
        /\ UNCHANGED <<coordTry, importStatus, failing>>
    BY <1>4, <2>0 DEF EnqueueImport
  <2>2. \/ coordPc'[j] = "create" /\ coordDomain'[j] = coordDomain[j] + 1
        \/ coordPc'[j] = "return" /\ coordDomain'[j] = coordDomain[j]
    BY <1>4 DEF EnqueueImport
  <2>3. \A k \in SyncJobs \ {j} : coordPc'[k] = coordPc[k] /\ coordDomain'[k] = coordDomain[k]
    BY <1>4 DEF EnqueueImport
  <2>4. RowsAreDispatched'
    <3>1. \A i \in Imports : i[3] \in Nat
      BY DEF Imports, Domains
    <3>2. coordDomain[j] \in Nat
      BY DEF Domains
    <3> QED
      BY <1>r, <2>1, <2>2, <2>3, <3>1, <3>2, JobOfImport DEF RowsAreDispatched
  <2>5. RowsHaveTasks'
    <3>1. \A i \in Imports : importPc'[i] = "none" => importPc[i] = "none" /\ i # CurrentImport(j)
      BY <2>0, <2>1
    <3> QED
      BY <1>r, <2>1, <2>3, <3>1, JobOfImport DEF RowsHaveTasks, CurrentImport
  <2>6. TasksHaveRows'
    BY <1>r, <2>0, <2>1 DEF TasksHaveRows, EnqueuingHasRow
  <2>7. EnqueuingHasRow'
    <3> SUFFICES ASSUME NEW k \in SyncJobs, k # j, coordPc[k] = "enqueue"
                 PROVE  /\ importStatus[CurrentImport(k)] # "none"
                        /\ importPc'[CurrentImport(k)] = "none"
      BY <2>1, <2>2, <2>3 DEF EnqueuingHasRow, CurrentImport
    <3>1. CurrentImport(k) \in Imports /\ CurrentImport(k) # CurrentImport(j)
      BY CurrentIsImport DEF CoordSteps, CurrentImport
    <3> QED
      BY <1>r, <2>1, <3>1 DEF EnqueuingHasRow
  <2>8. importPc[CurrentImport(j)] = "none"
    BY <1>r, <2>1 DEF EnqueuingHasRow
  <2>9. FailingHandlers' /\ SettledImportIsCompleted'
    BY <1>r, <2>0, <2>1, <2>8 DEF FailingHandlers, SettledImportIsCompleted
  <2> QED
    BY <2>4, <2>5, <2>6, <2>7, <2>9 DEF Rows, Handlers
<1>5. CASE CoordinatorDone(j) \/ CoordinatorFails(j)
  <2>1. /\ coordPc'[j] \in {"done", "queued", "archived"}
        /\ coordPc'[j] = "done" => coordPc[j] = "return"
        /\ coordPc[j] \in CoordSteps
        /\ \A k \in SyncJobs \ {j} : coordPc'[k] = coordPc[k]
        /\ UNCHANGED <<coordTry, coordDomain, importStatus, importPc, failing>>
    BY <1>5, FailedDelivery DEF CoordinatorDone, CoordinatorFails, CoordSteps
  <2>2. RowsAreDispatched'
    BY <1>r, <2>1, JobOfImport DEF RowsAreDispatched
  <2>3. RowsHaveTasks'
    BY <1>r, <2>1, JobOfImport DEF RowsHaveTasks, CurrentImport
  <2>4. EnqueuingHasRow'
    BY <1>r, <2>1 DEF EnqueuingHasRow, CurrentImport
  <2>5. (TasksHaveRows /\ FailingHandlers /\ SettledImportIsCompleted)'
    BY <1>r, <2>1 DEF TasksHaveRows, FailingHandlers, SettledImportIsCompleted
  <2> QED
    BY <2>2, <2>3, <2>4, <2>5 DEF Rows, Handlers
<1> QED
  BY <1>1, <1>2, <1>3, <1>4, <1>5 DEF CoordinatorStep

LEMMA ImportKeepsRows ==
  ASSUME Shape, NEW i \in Imports, ImportAction(i)
  PROVE  (Rows /\ Handlers)'
<1>1. ImportEffect(i)
  BY ImportStepEffect
<1>2. /\ \A k \in Imports : importStatus[k] # "none" <=> importStatus'[k] # "none"
      /\ \A k \in Imports : importPc[k] # "none" <=> importPc'[k] # "none"
      /\ UNCHANGED <<coordPc, coordTry, coordDomain>>
  BY <1>1 DEF ImportEffect, coordVars
<1>3. failing' \subseteq Imports
  BY ImportTyped DEF Shape, Typed, TypeOK, ImportAction
<1>4. Handlers'
  BY <1>1, <1>3
     DEF Shape, Handlers, FailingHandlers, SettledImportIsCompleted, ImportEffect
<1>5. (RowsAreDispatched /\ TasksHaveRows /\ RowsHaveTasks)'
  BY <1>2
     DEF Shape, Rows, RowsAreDispatched, TasksHaveRows, RowsHaveTasks, CurrentImport
<1>6. EnqueuingHasRow'
  <2> SUFFICES ASSUME NEW j \in SyncJobs, coordPc[j] = "enqueue"
               PROVE  /\ importStatus'[CurrentImport(j)] # "none"
                      /\ importPc'[CurrentImport(j)] = "none"
    BY <1>2 DEF EnqueuingHasRow, CurrentImport
  <2> QED
    BY <1>2, CurrentIsImport DEF Shape, Rows, EnqueuingHasRow, CoordSteps
<1> QED
  BY <1>4, <1>5, <1>6 DEF Rows

LEMMA ShapeInductive == Shape /\ [Next]_vars => Shape'
<1> SUFFICES ASSUME Shape, [Next]_vars
             PROVE  Shape'
  OBVIOUS
<1>1. Typed'
  BY NextTyped DEF Shape
<1>2. (Rows /\ Handlers)'
  <2>1. CASE UNCHANGED vars
    BY <2>1, RowsApart DEF vars, syncVars, coordVars, importVars
  <2>2. ASSUME NEW j \in SyncJobs, HttpNext(j)
        PROVE  (Rows /\ Handlers)'
    <3>1. importStatus' = importStatus /\ importVars' = importVars
      BY <2>2
         DEF HttpNext, CreateSyncJob, EnqueueCoordinator, LoseCoordinator, syncVars, importVars
    <3> QED
      BY <2>2, <3>1, RowsApart
  <2>3. ASSUME NEW j \in SyncJobs, CoordinatorStep(j) \/ CoordinatorFails(j)
        PROVE  (Rows /\ Handlers)'
    BY <2>3, CoordinatorKeepsRows
  <2>4. ASSUME NEW j \in SyncJobs, RecalcStep(j) \/ RecalcFails(j) \/ LockExpires(j)
        PROVE  (Rows /\ Handlers)'
    <3>1. UNCHANGED <<importStatus, importVars, coordVars>>
      BY <2>4
         DEF RecalcStep, DeliverRecalc, RunStage, RecalcDone, RecalcFails, LockExpires,
             syncVars
    <3> QED
      BY <3>1, RowsApart
  <2>5. ASSUME NEW i \in Imports, ImportAction(i)
        PROVE  (Rows /\ Handlers)'
    BY <2>5, ImportKeepsRows
  <2> QED
    BY <2>1, <2>2, <2>3, <2>4, <2>5 DEF Next, ImportAction
<1> QED
  BY <1>1, <1>2 DEF Shape

-----------------------------------------------------------------------------
(* The parent sync_job.                                                     *)

Parent == OpenSyncIsOwed /\ FinalizedHasImports /\ CompletionIsUnique

\* What a step of an import task may do to its parent and to the
\* recalculation: finalize an open parent, or call the hook.
ParentEffect(i) ==
  LET j == JobOf(i) IN
  /\ \A k \in SyncJobs \ {j} : syncStatus'[k] = syncStatus[k] /\ recalcPc'[k] = recalcPc[k]
  /\ \/ /\ importPc'[i] # "hook"
        /\ UNCHANGED <<syncStatus, recalcPc>>
     \/ /\ importPc'[i] # "hook" /\ importPc[i] = "hook"
        /\ UNCHANGED syncStatus
     \/ /\ importPc'[i] # "hook"
        /\ ~ Terminal(j) /\ syncStatus'[j] = "failed"
        /\ UNCHANGED recalcPc
     \/ /\ ~ Terminal(j) /\ syncStatus'[j] = "completed"
        /\ UNCHANGED recalcPc

LEMMA ImportParentEffect ==
  ASSUME Shape, NEW i \in Imports, ImportAction(i)
  PROVE  ParentEffect(i)
<1>a. /\ importPc \in [Imports -> ImportPcs]
      /\ syncStatus \in [SyncJobs -> SyncStatuses]
      /\ recalcPc \in [SyncJobs -> RecalcPcs]
      /\ JobOf(i) \in SyncJobs
  BY JobOfImport DEF Shape, Typed, TypeOK
<1> USE <1>a DEF ParentEffect, ImportGoes, syncVars, recalcVars
<1>1. CASE DeliverImport(i)
  BY <1>1 DEF DeliverImport
<1>2. CASE MarkFetching(i)
  BY <1>2 DEF MarkFetching
<1>3. CASE MarkImporting(i)
  BY <1>3 DEF MarkImporting
<1>4. CASE RunImporter(i)
  BY <1>4 DEF RunImporter
<1>5. CASE MarkCompleted(i)
  BY <1>5 DEF MarkCompleted
<1>6. CASE MarkFailed(i)
  BY <1>6 DEF MarkFailed
<1>7. CASE TryFinalizeFailed(i)
  BY <1>7 DEF TryFinalizeFailed, FinalizableAsFailed, Terminal
<1>8. CASE TryFinalizeCompleted(i)
  <2>1. CASE FinalizableAsCompleted(JobOf(i))
    BY <1>8, <2>1 DEF TryFinalizeCompleted, FinalizableAsCompleted, Terminal
  <2>2. CASE ~ FinalizableAsCompleted(JobOf(i))
    BY <1>8, <2>2, ImportLeaves DEF TryFinalizeCompleted
  <2> QED
    BY <2>1, <2>2
<1>9. CASE EnqueueRecalc(i)
  BY <1>9, ImportLeaves DEF EnqueueRecalc
<1>10. CASE ImportDone(i)
  BY <1>10 DEF ImportDone
<1>11. CASE ImportError(i)
  <2>1. importPc[i] # "none" /\ ImportRaises(i)
    BY <1>11 DEF ImportError, ImportStatements
  <2> QED
    BY <1>11, <2>1, ImportLeaves DEF ImportError
<1>12. CASE ImportCrash(i)
  <2>1. importPc[i] # "none" /\ ImportGivesUp(i)
    BY <1>12 DEF ImportCrash, ImportSteps, ImportStatements
  <2> QED
    BY <1>12, <2>1, ImportLeaves DEF ImportCrash
<1> QED
  BY <1>1, <1>2, <1>3, <1>4, <1>5, <1>6, <1>7, <1>8, <1>9, <1>10, <1>11, <1>12
     DEF ImportAction, ImportStep

LEMMA ImportKeepsParent ==
  ASSUME Shape, Parent, NEW i \in Imports, ImportAction(i)
  PROVE  Parent'
<1> DEFINE j == JobOf(i)
<1>1. ImportEffect(i) /\ ParentEffect(i)
  BY ImportStepEffect, ImportParentEffect
<1>2. j \in SyncJobs
  BY JobOfImport
<1>3. \A k \in SyncJobs : ImportsOf(k)' = ImportsOf(k)
  <2>1. \A m \in Imports : (importStatus'[m] # "none") = (importStatus[m] # "none")
    BY <1>1 DEF ImportEffect
  <2> QED
    BY <2>1 DEF ImportsOf
<1>4. i \in ImportsOf(j)
  BY <1>1 DEF ImportEffect, ImportsOf
<1>5. \A m \in Imports \ {i} : importPc'[m] = importPc[m] /\ Settled(m)' = Settled(m)
  BY <1>1 DEF ImportEffect, Settled
<1>6. \A k \in SyncJobs : Terminal(k) => Terminal(k)'
  BY <1>1 DEF ParentEffect, Terminal
<1>7. /\ coordTry' = coordTry
      /\ \A k \in SyncJobs : Dispatched(k)' = Dispatched(k)
  BY <1>1 DEF ImportEffect, coordVars, Dispatched
<1>8. OpenSyncIsOwed'
  <2> SUFFICES ASSUME NEW k \in SyncJobs, Dispatched(k), ~ Terminal(k)'
               PROVE  \E m \in ImportsOf(k) : ~ Settled(m)'
    BY <1>3, <1>7 DEF OpenSyncIsOwed
  <2>1. PICK w \in ImportsOf(k) : ~ Settled(w)
    BY <1>6 DEF Parent, OpenSyncIsOwed
  <2>2. CASE w # i \/ ~ Settled(i)'
    BY <1>5, <2>1, <2>2 DEF ImportsOf
  <2>3. CASE w = i /\ Settled(i)'
    <3>1. TryFinalizeCompleted(i) /\ k = j
      BY <1>1, <2>1, <2>3 DEF ImportEffect, ImportsOf
    <3>2. ~ FinalizableAsCompleted(j)
      BY <1>2, <3>1 DEF TryFinalizeCompleted, Terminal, TerminalStatuses, Shape, Typed, TypeOK
    <3>3. PICK m \in ImportsOf(j) : importStatus[m] # "completed"
      BY <1>4, <1>6, <3>1, <3>2 DEF FinalizableAsCompleted, Terminal
    <3>4. importStatus[i] = "completed"
      <4>1. i \notin failing
        BY <2>3, <3>1, <3>2
           DEF TryFinalizeCompleted, ImportReturns, ImportGivesUp, ImportGoes, Settled,
               AfterFailedDelivery, Shape, Typed, TypeOK
      <4> QED
        BY <3>1, <4>1
           DEF TryFinalizeCompleted, Shape, Handlers, SettledImportIsCompleted
    <3>5. ~ Settled(m)
      BY <3>3 DEF Settled, Shape, Handlers, SettledImportIsCompleted, ImportsOf
    <3> QED
      BY <1>5, <3>1, <3>3, <3>4, <3>5 DEF ImportsOf
  <2> QED
    BY <2>2, <2>3
<1>9. FinalizedHasImports'
  BY <1>1, <1>3, <1>4 DEF FinalizedHasImports, ParentEffect, Parent, Terminal
<1>10. CompletionIsUnique'
  <2> SUFFICES ASSUME NEW k \in SyncJobs, coordTry[k] <= 1
               PROVE  /\ recalcPc'[k] # "none" => syncStatus'[k] = "completed"
                      /\ \A m \in ImportsOf(k) : importPc'[m] = "hook" =>
                           /\ syncStatus'[k] = "completed"
                           /\ \A l \in ImportsOf(k) : importPc'[l] = "hook" => l = m
    BY <1>3, <1>7 DEF CompletionIsUnique
  <2>1. /\ recalcPc[k] # "none" => syncStatus[k] = "completed"
        /\ \A m \in ImportsOf(k) : importPc[m] = "hook" =>
             /\ syncStatus[k] = "completed"
             /\ \A l \in ImportsOf(k) : importPc[l] = "hook" => l = m
    BY DEF Parent, CompletionIsUnique
  <2>2. CASE k # j
    BY <1>1, <1>5, <2>1, <2>2 DEF ParentEffect, ImportsOf
  <2>3. CASE k = j /\ Terminal(j)
    BY <1>1, <1>4, <1>5, <2>1, <2>3 DEF ParentEffect, ImportsOf
  <2>4. CASE k = j /\ ~ Terminal(j)
    <3>1. recalcPc[j] = "none" /\ \A m \in ImportsOf(j) : importPc[m] # "hook"
      BY <2>1, <2>4 DEF Terminal, TerminalStatuses
    <3> QED
      BY <1>1, <1>4, <1>5, <2>4, <3>1 DEF ParentEffect, ImportsOf
  <2> QED
    BY <2>2, <2>3, <2>4
<1> QED
  BY <1>8, <1>9, <1>10 DEF Parent

\* The HTTP handler owns a row that has no coordinator yet, so neither imports
\* nor a recalculation.
LEMMA HttpKeepsParent ==
  ASSUME Shape, Parent, NEW j \in SyncJobs, HttpNext(j)
  PROVE  Parent'
<1>1. /\ coordPc'[j] \in {"starting", "queued", "lost"}
      /\ \A k \in SyncJobs \ {j} : coordPc'[k] = coordPc[k] /\ syncStatus'[k] = syncStatus[k]
      /\ UNCHANGED <<importStatus, coordTry, coordDomain, importPc, failing, recalcPc>>
      /\ \/ syncStatus' = syncStatus
         \/ syncStatus[j] = "none" /\ syncStatus'[j] = "pending"
  BY DEF HttpNext, CreateSyncJob, EnqueueCoordinator, LoseCoordinator, syncVars,
         importVars, recalcVars, Shape, Typed, TypeOK
<1>2. OpenSyncIsOwed'
  BY <1>1
     DEF Parent, OpenSyncIsOwed, Dispatched, Terminal, ImportsOf, Settled
<1>3. FinalizedHasImports'
  BY <1>1
     DEF Parent, FinalizedHasImports, Terminal, TerminalStatuses, ImportsOf
<1>4. CompletionIsUnique'
  BY <1>1 DEF Parent, CompletionIsUnique, ImportsOf
<1> QED
  BY <1>2, <1>3, <1>4 DEF Parent

LEMMA CoordinatorKeepsParent ==
  ASSUME Shape, Parent, NEW j \in SyncJobs, CoordinatorStep(j) \/ CoordinatorFails(j)
  PROVE  Parent'
<1>t. /\ coordPc \in [SyncJobs -> CoordPcs] /\ coordTry \in [SyncJobs -> Nat]
      /\ coordDomain \in [SyncJobs -> Nat] /\ syncStatus \in [SyncJobs -> SyncStatuses]
      /\ importStatus \in [Imports -> ImportStatuses] /\ importPc \in [Imports -> ImportPcs]
  BY ConstantsAssumption DEF Shape, Typed, TypeOK, Domains
<1>p. OpenSyncIsOwed /\ FinalizedHasImports /\ CompletionIsUnique
  BY DEF Parent
<1>1. CASE DeliverCoordinator(j) \/ CoordinatorFails(j)
  <2>1. /\ coordPc'[j] \in {"toRunning", "queued", "archived"}
        /\ coordTry'[j] \in {coordTry[j], coordTry[j] + 1}
        /\ \A k \in SyncJobs \ {j} : coordPc'[k] = coordPc[k] /\ coordTry'[k] = coordTry[k]
        /\ UNCHANGED <<syncStatus, importStatus, coordDomain, importPc, failing, recalcPc>>
    BY <1>1, <1>t, FailedDelivery
       DEF DeliverCoordinator, CoordinatorFails, syncVars, importVars, recalcVars,
           Shape, Typed, TypeOK
  <2>2. OpenSyncIsOwed' /\ FinalizedHasImports'
    BY <1>p, <2>1
       DEF OpenSyncIsOwed, FinalizedHasImports, Dispatched, Terminal, ImportsOf, Settled
  <2>3. \A k \in SyncJobs : coordTry'[k] <= 1 => coordTry[k] <= 1
    BY <1>t, <2>1
  <2>4. CompletionIsUnique'
    BY <1>p, <2>1, <2>3 DEF CompletionIsUnique, ImportsOf
  <2> QED
    BY <2>2, <2>4 DEF Parent
<1>2. CASE MarkRunning(j)
  <2>1. /\ coordPc[j] = "toRunning" /\ coordPc'[j] = "create" /\ coordDomain'[j] = 1
        /\ syncStatus'[j] = "running"
        /\ \A k \in SyncJobs \ {j} : /\ coordPc'[k] = coordPc[k]
                                  /\ coordDomain'[k] = coordDomain[k]
                                  /\ syncStatus'[k] = syncStatus[k]
        /\ UNCHANGED <<importStatus, coordTry, importPc, failing, recalcPc>>
    BY <1>2, <1>t DEF MarkRunning, importVars, recalcVars
  <2>2. OpenSyncIsOwed' /\ FinalizedHasImports'
    BY <1>p, <2>1
       DEF OpenSyncIsOwed, FinalizedHasImports, Dispatched, Terminal, TerminalStatuses,
           ImportsOf, Settled
  <2>3. coordTry[j] <= 1 => ImportsOf(j) = {}
    <3>1. coordTry[j] <= 1 => coordTry[j] = 1
      BY <1>t, <2>1 DEF Shape, Typed, CoordinatorStarted, CoordSteps
    <3> QED
      BY <2>1, <3>1, NoRowsYet DEF ImportsOf
  <2>4. coordTry[j] <= 1 => recalcPc[j] = "none"
    BY <1>p, <2>3 DEF FinalizedHasImports
  <2>5. CompletionIsUnique'
    BY <1>p, <2>1, <2>3, <2>4 DEF CompletionIsUnique, ImportsOf
  <2> QED
    BY <2>2, <2>5 DEF Parent
<1>3. CASE CreateImportJob(j)
  <2>0. CurrentImport(j) \in Imports /\ JobOf(CurrentImport(j)) = j
    BY <1>3, CurrentIsImport
       DEF CreateImportJob, CoordSteps, CurrentImport, JobOf, Shape
  <2>1. /\ coordPc[j] = "create" /\ coordPc'[j] = "enqueue"
        /\ \A k \in SyncJobs \ {j} : coordPc'[k] = coordPc[k]
        /\ importStatus'[CurrentImport(j)] = "pending"
        /\ \A i \in Imports \ {CurrentImport(j)} : importStatus'[i] = importStatus[i]
        /\ UNCHANGED <<syncStatus, coordTry, coordDomain, importPc, failing, recalcPc>>
    BY <1>3, <1>t, <2>0 DEF CreateImportJob, importVars, recalcVars
  <2>2. importPc[CurrentImport(j)] = "none"
    BY <2>0, <2>1, CoordinatorKeepsRows
       DEF CoordinatorStep, Rows, EnqueuingHasRow, CurrentImport
  <2>3. /\ CurrentImport(j) \in ImportsOf(j)'
        /\ \A k \in SyncJobs : ImportsOf(k) \subseteq ImportsOf(k)'
        /\ \A k \in SyncJobs : ImportsOf(k)' \subseteq ImportsOf(k) \cup {CurrentImport(j)}
        /\ \A k \in SyncJobs \ {j} : ImportsOf(k)' = ImportsOf(k)
    BY <2>0, <2>1 DEF ImportsOf
  <2>4. \A i \in Imports : Settled(i)' = Settled(i)
    BY <2>1 DEF Settled
  <2>5. OpenSyncIsOwed'
    <3> SUFFICES ASSUME NEW k \in SyncJobs, Dispatched(k)', ~ Terminal(k)'
                 PROVE  \E i \in ImportsOf(k)' : ~ Settled(i)'
      BY DEF OpenSyncIsOwed
    <3>1. CASE k = j
      BY <2>0, <2>2, <2>3, <2>4, <3>1 DEF Settled
    <3>2. CASE k # j
      <4>1. Dispatched(k) /\ ~ Terminal(k)
        BY <2>1, <3>2 DEF Dispatched, Terminal
      <4> QED
        BY <1>p, <2>3, <2>4, <3>2, <4>1 DEF OpenSyncIsOwed, ImportsOf
    <3> QED
      BY <3>1, <3>2
  <2>6. FinalizedHasImports'
    BY <1>p, <2>1, <2>3 DEF FinalizedHasImports, Terminal
  <2>7. CompletionIsUnique'
    <3> SUFFICES ASSUME NEW k \in SyncJobs, coordTry[k] <= 1
                 PROVE  /\ recalcPc[k] # "none" => syncStatus[k] = "completed"
                        /\ \A m \in ImportsOf(k)' : importPc[m] = "hook" =>
                             /\ syncStatus[k] = "completed"
                             /\ \A l \in ImportsOf(k)' : importPc[l] = "hook" => l = m
      BY <2>1 DEF CompletionIsUnique
    <3> QED
      BY <1>p, <2>2, <2>3 DEF CompletionIsUnique
  <2> QED
    BY <2>5, <2>6, <2>7 DEF Parent
<1>4. CASE EnqueueImport(j)
  <2>0. CurrentImport(j) \in Imports /\ JobOf(CurrentImport(j)) = j
    BY <1>4, CurrentIsImport
       DEF EnqueueImport, CoordSteps, CurrentImport, JobOf, Shape
  <2>1. /\ coordPc[j] = "enqueue" /\ coordPc'[j] \in {"create", "return"}
        /\ \A k \in SyncJobs \ {j} : coordPc'[k] = coordPc[k] /\ coordDomain'[k] = coordDomain[k]
        /\ importPc'[CurrentImport(j)] = "queued"
        /\ \A i \in Imports \ {CurrentImport(j)} : importPc'[i] = importPc[i]
        /\ UNCHANGED <<syncStatus, coordTry, importStatus, failing, recalcPc>>
    BY <1>4, <1>t, <2>0 DEF EnqueueImport, syncVars, recalcVars
  <2>2. CurrentImport(j) \in ImportsOf(j)
    BY <2>0, <2>1 DEF Shape, Rows, EnqueuingHasRow, ImportsOf
  <2>3. \A k \in SyncJobs : ImportsOf(k)' = ImportsOf(k)
    BY <2>1 DEF ImportsOf
  <2>4. OpenSyncIsOwed'
    <3> SUFFICES ASSUME NEW k \in SyncJobs, Dispatched(k)', ~ Terminal(k)'
                 PROVE  \E i \in ImportsOf(k) : ~ Settled(i)'
      BY <2>3 DEF OpenSyncIsOwed
    <3>1. CASE k = j
      BY <2>1, <2>2, <3>1 DEF Settled
    <3>2. CASE k # j
      <4>1. Dispatched(k) /\ ~ Terminal(k)
        BY <2>1, <3>2 DEF Dispatched, Terminal
      <4>2. PICK i \in ImportsOf(k) : ~ Settled(i)
        BY <1>p, <4>1 DEF OpenSyncIsOwed
      <4>3. ~ Settled(i)'
        BY <2>0, <2>1, <3>2, <4>2 DEF ImportsOf, Settled
      <4> QED
        BY <4>3
    <3> QED
      BY <3>1, <3>2
  <2>5. FinalizedHasImports'
    BY <1>p, <2>1, <2>3 DEF FinalizedHasImports, Terminal
  <2>6. CompletionIsUnique'
    <3>1. \A i \in Imports : importPc'[i] = "hook" => importPc[i] = "hook"
      BY <2>0, <2>1
    <3> QED
      BY <1>p, <2>1, <2>3, <3>1 DEF CompletionIsUnique, ImportsOf
  <2> QED
    BY <2>4, <2>5, <2>6 DEF Parent
<1>5. CASE CoordinatorDone(j)
  <2>1. /\ coordPc[j] = "return" /\ coordPc'[j] = "done"
        /\ \A k \in SyncJobs \ {j} : coordPc'[k] = coordPc[k]
        /\ UNCHANGED <<syncStatus, importStatus, coordTry, coordDomain, importPc, failing, recalcPc>>
    BY <1>5, <1>t DEF CoordinatorDone, syncVars, importVars, recalcVars
  <2>2. OpenSyncIsOwed' /\ FinalizedHasImports'
    BY <1>p, <2>1
       DEF OpenSyncIsOwed, FinalizedHasImports, Dispatched, Terminal, ImportsOf, Settled
  <2>3. CompletionIsUnique'
    BY <1>p, <2>1 DEF CompletionIsUnique, ImportsOf
  <2> QED
    BY <2>2, <2>3 DEF Parent
<1> QED
  BY <1>1, <1>2, <1>3, <1>4, <1>5 DEF CoordinatorStep

LEMMA RecalcKeepsParent ==
  ASSUME Shape, Parent, NEW j \in SyncJobs,
         RecalcStep(j) \/ RecalcFails(j) \/ LockExpires(j)
  PROVE  Parent'
<1>1. /\ UNCHANGED <<syncStatus, importStatus, coordPc, coordTry, coordDomain, importPc, failing>>
      /\ \A k \in SyncJobs : recalcPc'[k] # "none" => recalcPc[k] # "none"
  BY DEF RecalcStep, DeliverRecalc, RunStage, RecalcDone, RecalcFails, LockExpires,
         Stages, Shape, Typed, TypeOK, syncVars, coordVars, importVars
<1>2. OpenSyncIsOwed' /\ FinalizedHasImports'
  BY <1>1
     DEF Parent, OpenSyncIsOwed, FinalizedHasImports, Dispatched, Terminal, ImportsOf,
         Settled
<1>3. CompletionIsUnique'
  BY <1>1 DEF Parent, CompletionIsUnique, ImportsOf
<1> QED
  BY <1>2, <1>3 DEF Parent

LEMMA InitShape == Init => Shape
  BY InitTyped
     DEF Init, Shape, Rows, Handlers, RowsAreDispatched, TasksHaveRows, RowsHaveTasks,
         EnqueuingHasRow, FailingHandlers, SettledImportIsCompleted

LEMMA InitParent == Init => Parent
  BY DEF Init, Parent, OpenSyncIsOwed, FinalizedHasImports, CompletionIsUnique,
         Dispatched, Terminal, TerminalStatuses, ImportsOf

LEMMA IInvShapeParent == IInv <=> Shape /\ Parent
  BY DEF IInv, Shape, Parent, Typed, Rows, Handlers

LEMMA ParentInductive == Shape /\ Parent /\ [Next]_vars => Parent'
<1>1. Parent /\ UNCHANGED vars => Parent'
  BY DEF Parent, OpenSyncIsOwed, FinalizedHasImports, CompletionIsUnique, Dispatched,
         Terminal, ImportsOf, Settled, vars, syncVars, coordVars, importVars, recalcVars
<1> QED
  BY <1>1, HttpKeepsParent, CoordinatorKeepsParent, ImportKeepsParent, RecalcKeepsParent
     DEF Next, ImportAction

-----------------------------------------------------------------------------
(* The theorems.                                                            *)

\* The strengthened invariant holds in every reachable state.
THEOREM InvariantHolds == Spec => []IInv
  BY InitShape, InitParent, IInvShapeParent, ShapeInductive, ParentInductive, PTL DEF Spec

\* Leaving finalization to whichever import comes last loses no sync_job: one
\* that stays open after all handlers are at rest has an archived import, or a
\* row that a failed coordinator never enqueued.
THEOREM NoSyncIsForgotten == Spec => []StuckSyncIsExplained
<1>1. IInv => StuckSyncIsExplained
  <2> SUFFICES ASSUME IInv, NEW j \in SyncJobs, coordPc[j] = "done", ~ Terminal(j),
                      \A i \in ImportsOf(j) : AtRest(i)
               PROVE  \E i \in ImportsOf(j) :
                        \/ importPc[i] = "archived"
                        \/ importPc[i] = "none" /\ coordTry[j] > 1
    BY DEF StuckSyncIsExplained
  <2>1. PICK i \in ImportsOf(j) : ~ Settled(i)
    BY DEF IInv, OpenSyncIsOwed, Dispatched
  <2>2. importPc[i] # "done"
    BY <2>1 DEF IInv, FailingHandlers, Settled
  <2>3. importPc[i] = "none" => coordTry[j] > 1
    BY DEF IInv, RowsHaveTasks, ImportsOf
  <2> QED
    BY <2>2, <2>3 DEF AtRest
<1> QED
  BY <1>1, InvariantHolds, PTL

\* Without a coordinator retry, at most one import is ever about to call the
\* completion hook, and a recalculation belongs to a completed sync_job.
THEOREM OneCompletion == Spec => []CompletionIsUnique
<1>1. IInv => CompletionIsUnique
  BY DEF IInv
<1> QED
  BY <1>1, InvariantHolds, PTL

\* Finalization never rewrites a terminal sync_job; only a coordinator that is
\* delivered again takes one back to running.
THEOREM TerminalIsFinal == Spec => TerminalStatusIsSticky
<1> DEFINE Sticky == \A j \in SyncJobs :
                       Terminal(j) /\ syncStatus'[j] # syncStatus[j]
                         => coordTry[j] > 1 /\ MarkRunning(j)
<1>1. ASSUME Shape, Parent, Next
      PROVE  Sticky
  <2> SUFFICES ASSUME NEW j \in SyncJobs, Terminal(j), syncStatus'[j] # syncStatus[j]
               PROVE  coordTry[j] > 1 /\ MarkRunning(j)
    OBVIOUS
  <2>t. /\ syncStatus \in [SyncJobs -> SyncStatuses]
        /\ coordTry[j] \in Nat
    BY <1>1, ConstantsAssumption DEF Shape, Typed, TypeOK
  <2>1. ASSUME NEW k \in SyncJobs, HttpNext(k)
        PROVE  FALSE
    BY <2>1, <2>t
       DEF HttpNext, CreateSyncJob, EnqueueCoordinator, LoseCoordinator, syncVars,
           Terminal, TerminalStatuses
  <2>2. ASSUME NEW k \in SyncJobs, CoordinatorStep(k) \/ CoordinatorFails(k)
        PROVE  MarkRunning(j)
    BY <2>2, <2>t
       DEF CoordinatorStep, DeliverCoordinator, MarkRunning, CreateImportJob,
           EnqueueImport, CoordinatorDone, CoordinatorFails, syncVars
  <2>3. ASSUME NEW k \in SyncJobs, RecalcStep(k) \/ RecalcFails(k) \/ LockExpires(k)
        PROVE  FALSE
    BY <2>3
       DEF RecalcStep, DeliverRecalc, RunStage, RecalcDone, RecalcFails, LockExpires,
           syncVars
  <2>4. ASSUME NEW i \in Imports, ImportAction(i)
        PROVE  FALSE
    BY <1>1, <2>4, ImportParentEffect DEF ParentEffect
  <2>5. MarkRunning(j)
    BY <1>1, <2>1, <2>2, <2>3, <2>4 DEF Next, ImportAction
  <2>6. PICK i \in ImportsOf(j) : TRUE
    BY <1>1 DEF Parent, FinalizedHasImports
  <2>7. coordTry[j] # 0 /\ coordTry[j] # 1
    BY <1>1, <2>5, <2>6, NoRowsYet DEF MarkRunning, ImportsOf
  <2> QED
    BY <2>t, <2>5, <2>7
<1>2. Shape /\ Parent /\ [Next]_vars => [Sticky]_vars
  BY <1>1
<1> QED
  BY <1>2, InvariantHolds, IInvShapeParent, PTL DEF Spec, TerminalStatusIsSticky

-----------------------------------------------------------------------------
(* The pipeline implements SyncLifecycle: every step of a handler is one    *)
(* step of the lifecycle, or changes nothing of it.                         *)

AbstractVars == <<syncStatus, OpenImports, FailedImports, Notices, Requested>>

LEMMA InitRefines == Init => Lifecycle!Init
  BY DEF Init, Lifecycle!Init, OpenImports, FailedImports, Notices, Requested, ImportsOf

\* The three sets of imports depend on rows and handlers only.
LEMMA SetsApart ==
  ASSUME importStatus' = importStatus,
         \A i \in Imports : (importPc'[i] = "hook") = (importPc[i] = "hook")
  PROVE  UNCHANGED <<OpenImports, FailedImports, Notices>>
<1>1. \A j \in SyncJobs : ImportsOf(j)' = ImportsOf(j)
  BY DEF ImportsOf
<1> QED
  BY <1>1 DEF OpenImports, FailedImports, Notices, ImportsOf

\* A row that changes its status, or is inserted, moves between the two sets.
LEMMA RowMoves ==
  ASSUME NEW i \in Imports, importStatus \in [Imports -> ImportStatuses],
         NEW s \in ImportStatuses \ {"none"},
         importStatus' = [importStatus EXCEPT ![i] = s],
         \A k \in Imports : (importPc'[k] = "hook") = (importPc[k] = "hook"),
         importPc[i] # "hook"
  PROVE  /\ UNCHANGED Notices
         /\ s \in OpenStatuses =>
              /\ OpenImports' = [OpenImports EXCEPT ![JobOf(i)] = @ \cup {i}]
              /\ FailedImports' = [FailedImports EXCEPT ![JobOf(i)] = @ \ {i}]
         /\ s = "completed" =>
              /\ OpenImports' = [OpenImports EXCEPT ![JobOf(i)] = @ \ {i}]
              /\ FailedImports' = [FailedImports EXCEPT ![JobOf(i)] = @ \ {i}]
         /\ s = "failed" =>
              /\ OpenImports' = [OpenImports EXCEPT ![JobOf(i)] = @ \ {i}]
              /\ FailedImports' = [FailedImports EXCEPT ![JobOf(i)] = @ \cup {i}]
<1>0. JobOf(i) \in SyncJobs
  BY JobOfImport
<1>1. /\ importStatus'[i] = s
      /\ \A k \in Imports \ {i} : importStatus'[k] = importStatus[k]
  OBVIOUS
<1>2. UNCHANGED Notices
  <2> SUFFICES ASSUME NEW j \in SyncJobs
               PROVE  {k \in ImportsOf(j)' : importPc'[k] = "hook"}
                        = {k \in ImportsOf(j) : importPc[k] = "hook"}
    BY DEF Notices
  <2>1. ASSUME NEW k \in Imports, importPc[k] = "hook"
        PROVE  k \in ImportsOf(j)' <=> k \in ImportsOf(j)
    BY <1>1, <2>1 DEF ImportsOf
  <2> QED
    BY <2>1 DEF ImportsOf
<1>3. ASSUME NEW j \in SyncJobs, NEW k \in Imports
      PROVE  /\ k # i => (k \in ImportsOf(j)' <=> k \in ImportsOf(j)) /\ importStatus'[k] = importStatus[k]
             /\ i \in ImportsOf(j)' <=> j = JobOf(i)
             /\ i \in ImportsOf(j) => j = JobOf(i)
  BY <1>1 DEF ImportsOf
<1>4. ASSUME NEW j \in SyncJobs
      PROVE  /\ OpenImports'[j] = IF j # JobOf(i) THEN OpenImports[j]
                                  ELSE IF s \in OpenStatuses THEN OpenImports[j] \cup {i}
                                  ELSE OpenImports[j] \ {i}
             /\ FailedImports'[j] = IF j # JobOf(i) THEN FailedImports[j]
                                    ELSE IF s = "failed" THEN FailedImports[j] \cup {i}
                                    ELSE FailedImports[j] \ {i}
  <2>1. ASSUME NEW k
        PROVE  /\ k \in OpenImports[j] <=> k \in ImportsOf(j) /\ importStatus[k] \in OpenStatuses
               /\ k \in OpenImports'[j] <=> k \in ImportsOf(j)' /\ importStatus'[k] \in OpenStatuses
               /\ k \in FailedImports[j] <=> k \in ImportsOf(j) /\ importStatus[k] = "failed"
               /\ k \in FailedImports'[j] <=> k \in ImportsOf(j)' /\ importStatus'[k] = "failed"
    BY DEF OpenImports, FailedImports
  <2>2. ImportsOf(j) \subseteq Imports /\ ImportsOf(j)' \subseteq Imports
    BY DEF ImportsOf
  <2>3. ASSUME NEW k, k # i
        PROVE  k \in OpenImports'[j] <=> k \in OpenImports[j]
    BY <1>3, <2>1, <2>2, <2>3
  <2>4. ASSUME NEW k, k # i
        PROVE  k \in FailedImports'[j] <=> k \in FailedImports[j]
    BY <1>3, <2>1, <2>2, <2>4
  <2>5. /\ i \in OpenImports'[j] <=> j = JobOf(i) /\ s \in OpenStatuses
        /\ i \in FailedImports'[j] <=> j = JobOf(i) /\ s = "failed"
        /\ i \in OpenImports[j] \/ i \in FailedImports[j] => j = JobOf(i)
    BY <1>1, <1>3, <2>1
  <2>6. CASE j # JobOf(i)
    <3>1. i \notin OpenImports[j] /\ i \notin OpenImports'[j]
      BY <2>5, <2>6
    <3>2. i \notin FailedImports[j] /\ i \notin FailedImports'[j]
      BY <2>5, <2>6
    <3>3. OpenImports'[j] = OpenImports[j]
      BY <2>3, <3>1
    <3>4. FailedImports'[j] = FailedImports[j]
      BY <2>4, <3>2
    <3> QED BY <2>6, <3>3, <3>4
  <2>7. CASE j = JobOf(i)
    <3>1. s \in OpenStatuses => OpenImports'[j] = OpenImports[j] \cup {i}
      BY <2>3, <2>5, <2>7
    <3>2. s \notin OpenStatuses => OpenImports'[j] = OpenImports[j] \ {i}
      BY <2>3, <2>5
    <3>3. s = "failed" => FailedImports'[j] = FailedImports[j] \cup {i}
      BY <2>4, <2>5, <2>7
    <3>4. s # "failed" => FailedImports'[j] = FailedImports[j] \ {i}
      BY <2>4, <2>5
    <3> QED BY <2>7, <3>1, <3>2, <3>3, <3>4
  <2> QED
    BY <2>6, <2>7
<1>5. /\ OpenImports = [j \in SyncJobs |-> OpenImports[j]]
      /\ OpenImports' = [j \in SyncJobs |-> OpenImports'[j]]
      /\ FailedImports = [j \in SyncJobs |-> FailedImports[j]]
      /\ FailedImports' = [j \in SyncJobs |-> FailedImports'[j]]
  BY DEF OpenImports, FailedImports
<1>6. /\ OpenImports' = [OpenImports EXCEPT ![JobOf(i)] =
                           IF s \in OpenStatuses THEN @ \cup {i} ELSE @ \ {i}]
      /\ FailedImports' = [FailedImports EXCEPT ![JobOf(i)] =
                             IF s = "failed" THEN @ \cup {i} ELSE @ \ {i}]
  BY <1>0, <1>4, <1>5
<1> QED
  BY <1>2, <1>6 DEF OpenStatuses

\* A handler that leaves the hook consumes its notice.
LEMMA NoticeConsumed ==
  ASSUME NEW i \in Imports, importStatus' = importStatus,
         \A k \in Imports \ {i} : importPc'[k] = importPc[k],
         importPc'[i] # "hook"
  PROVE  /\ UNCHANGED <<OpenImports, FailedImports>>
         /\ Notices' = [Notices EXCEPT ![JobOf(i)] = @ \ {i}]
<1>0. JobOf(i) \in SyncJobs
  BY JobOfImport
<1>1. \A j \in SyncJobs : ImportsOf(j)' = ImportsOf(j)
  BY DEF ImportsOf
<1>2. UNCHANGED <<OpenImports, FailedImports>>
  BY <1>1 DEF OpenImports, FailedImports, ImportsOf
<1>3. Notices' = [Notices EXCEPT ![JobOf(i)] = @ \ {i}]
  BY <1>0, <1>1 DEF Notices, ImportsOf
<1> QED
  BY <1>2, <1>3

-----------------------------------------------------------------------------
(* Every step maps to a step of the lifecycle or to a stutter.              *)

LifecycleStep == Lifecycle!Next \/ UNCHANGED AbstractVars

LEMMA HttpRefines ==
  ASSUME Shape, NEW j \in SyncJobs, HttpNext(j)
  PROVE  LifecycleStep
<1>1. importStatus' = importStatus /\ UNCHANGED <<importPc, recalcPc>>
  BY DEF HttpNext, CreateSyncJob, EnqueueCoordinator, LoseCoordinator, syncVars,
         importVars, recalcVars
<1>2. UNCHANGED <<OpenImports, FailedImports, Notices, Requested>>
  BY <1>1, SetsApart DEF Requested
<1>3. Lifecycle!Request(j) \/ UNCHANGED syncStatus
  BY <1>2
     DEF HttpNext, CreateSyncJob, EnqueueCoordinator, LoseCoordinator, syncVars,
         Lifecycle!Request
<1> QED
  BY <1>2, <1>3 DEF LifecycleStep, AbstractVars, Lifecycle!Next

LEMMA CoordinatorRefines ==
  ASSUME Shape, NEW j \in SyncJobs, CoordinatorStep(j) \/ CoordinatorFails(j)
  PROVE  LifecycleStep
<1> USE DEF LifecycleStep, AbstractVars
<1>r. UNCHANGED Requested
  BY DEF CoordinatorStep, DeliverCoordinator, MarkRunning, CreateImportJob,
         EnqueueImport, CoordinatorDone, CoordinatorFails, recalcVars, Requested
<1>1. CASE DeliverCoordinator(j) \/ CoordinatorDone(j) \/ CoordinatorFails(j)
  BY <1>r, <1>1, SetsApart
     DEF DeliverCoordinator, CoordinatorDone, CoordinatorFails, syncVars, importVars
<1>2. CASE MarkRunning(j)
  <2>1. UNCHANGED <<OpenImports, FailedImports, Notices>>
    BY <1>2, SetsApart DEF MarkRunning, importVars
  <2>2. syncStatus[j] # "none"
    BY <1>2 DEF MarkRunning, Shape, Typed, CoordinatorStarted
  <2>3. Lifecycle!Start(j)
    BY <1>r, <1>2, <2>1, <2>2 DEF MarkRunning, Lifecycle!Start
  <2> QED
    BY <2>3 DEF Lifecycle!Next
<1>3. CASE CreateImportJob(j)
  <2> DEFINE i == CurrentImport(j)
  <2>1. i \in Imports /\ JobOf(i) = j
    BY <1>3, CurrentIsImport
       DEF CreateImportJob, CoordSteps, CurrentImport, JobOf, Shape
  <2>2. /\ importPc' = importPc /\ importPc[i] # "hook" /\ UNCHANGED syncStatus
        /\ importStatus' = [importStatus EXCEPT ![i] = "pending"]
    <3>1. importPc[i] = "none"
      <4>1. coordPc'[j] = "enqueue" /\ UNCHANGED <<importPc, coordTry, coordDomain>>
        BY <1>3 DEF CreateImportJob, importVars, Shape, Typed, TypeOK
      <4> QED
        BY <1>3, <4>1, CoordinatorKeepsRows
           DEF CoordinatorStep, Rows, EnqueuingHasRow, CurrentImport
    <3> QED
      BY <1>3, <3>1 DEF CreateImportJob, importVars
  <2>3. /\ UNCHANGED Notices
        /\ OpenImports' = [OpenImports EXCEPT ![j] = @ \cup {i}]
        /\ FailedImports' = [FailedImports EXCEPT ![j] = @ \ {i}]
    BY <2>1, <2>2, RowMoves
       DEF ImportStatuses, OpenStatuses, Shape, Typed, TypeOK
  <2>4. Lifecycle!Open(j, i)
    BY <1>r, <2>2, <2>3 DEF Lifecycle!Open
  <2> QED
    BY <2>1, <2>4 DEF Lifecycle!Next
<1>4. CASE EnqueueImport(j)
  <2>1. CurrentImport(j) \in Imports /\ importPc[CurrentImport(j)] = "none"
    BY <1>4, CurrentIsImport
       DEF EnqueueImport, CoordSteps, Shape, Rows, EnqueuingHasRow
  <2>2. \A k \in Imports : (importPc'[k] = "hook") = (importPc[k] = "hook")
    BY <1>4, <2>1 DEF EnqueueImport, Shape, Typed, TypeOK
  <2> QED
    BY <1>r, <1>4, <2>2, SetsApart DEF EnqueueImport, syncVars
<1> QED
  BY <1>1, <1>2, <1>3, <1>4 DEF CoordinatorStep

LEMMA RecalcRefines ==
  ASSUME Shape, NEW j \in SyncJobs,
         RecalcStep(j) \/ RecalcFails(j) \/ LockExpires(j)
  PROVE  LifecycleStep
<1>1. UNCHANGED <<syncStatus, OpenImports, FailedImports, Notices>>
  BY SetsApart
     DEF RecalcStep, DeliverRecalc, RunStage, RecalcDone, RecalcFails, LockExpires,
         syncVars, importVars
<1>2. UNCHANGED Requested \/ Lifecycle!ProcessRecalc(j)
  <2>1. CASE RecalcDone(j)
    BY <1>1, <2>1
       DEF RecalcDone, Requested, Lifecycle!ProcessRecalc, Shape, Typed, TypeOK
  <2>2. CASE DeliverRecalc(j) \/ RunStage(j) \/ RecalcFails(j) \/ LockExpires(j)
    BY <2>2, StageAdvances, FailedDelivery
       DEF DeliverRecalc, RunStage, RecalcFails, LockExpires, Stages, Requested, Shape,
           Typed, TypeOK
  <2> QED
    BY <2>1, <2>2 DEF RecalcStep
<1> QED
  BY <1>1, <1>2 DEF LifecycleStep, AbstractVars, Lifecycle!Next

LEMMA ImportRefines ==
  ASSUME Shape, Parent, NEW i \in Imports, ImportAction(i)
  PROVE  LifecycleStep
<1> DEFINE j == JobOf(i)
<1>0. /\ j \in SyncJobs
      /\ importPc \in [Imports -> ImportPcs] /\ importStatus \in [Imports -> ImportStatuses]
      /\ syncStatus \in [SyncJobs -> SyncStatuses]
  BY JobOfImport DEF Shape, Typed, TypeOK
<1>a. Lifecycle!Unsettled(j) \/ Terminal(j)
  <2>1. importStatus[i] # "none"
    BY ImportStepEffect DEF ImportEffect
  <2>2. coordPc[j] # "none"
    BY <1>0, <2>1, RowsComeFromAnAttempt DEF Shape, Typed, CoordinatorStarted
  <2> QED
    BY <1>0, <2>2
       DEF Lifecycle!Unsettled, Terminal, TerminalStatuses, SyncStatuses, Shape, Typed,
           CoordinatorStarted
<1>b. i \in ImportsOf(j)
  BY ImportStepEffect DEF ImportEffect, ImportsOf
<1> USE <1>0 DEF LifecycleStep, AbstractVars, ImportGoes
<1>1. CASE DeliverImport(i) \/ RunImporter(i) \/ ImportDone(i)
  <2>1. /\ UNCHANGED <<syncStatus, importStatus, recalcPc>>
        /\ \A k \in Imports : (importPc'[k] = "hook") = (importPc[k] = "hook")
    BY <1>1 DEF DeliverImport, RunImporter, ImportDone, syncVars, recalcVars
  <2> QED
    BY <2>1, SetsApart DEF Requested
<1>2. CASE MarkFetching(i) \/ MarkImporting(i)
  <2>1. PICK s \in {"fetching", "importing"} :
          importStatus' = [importStatus EXCEPT ![i] = s]
    BY <1>2 DEF MarkFetching, MarkImporting
  <2>2. /\ UNCHANGED <<syncStatus, recalcPc>> /\ importPc[i] # "hook"
        /\ \A k \in Imports : (importPc'[k] = "hook") = (importPc[k] = "hook")
    BY <1>2 DEF MarkFetching, MarkImporting, recalcVars
  <2>3. s \in ImportStatuses \ {"none"} /\ s \in OpenStatuses
    BY DEF ImportStatuses, OpenStatuses
  <2>4. /\ UNCHANGED Notices
        /\ OpenImports' = [OpenImports EXCEPT ![j] = @ \cup {i}]
        /\ FailedImports' = [FailedImports EXCEPT ![j] = @ \ {i}]
    BY <2>1, <2>2, <2>3, RowMoves
  <2>5. Lifecycle!Open(j, i)
    BY <2>2, <2>4 DEF Lifecycle!Open, Requested
  <2> QED
    BY <2>5 DEF Lifecycle!Next
<1>3. CASE MarkCompleted(i)
  <2>1. /\ UNCHANGED <<syncStatus, recalcPc>> /\ importPc[i] # "hook"
        /\ importStatus' = [importStatus EXCEPT ![i] = "completed"]
        /\ \A k \in Imports : (importPc'[k] = "hook") = (importPc[k] = "hook")
    BY <1>3 DEF MarkCompleted, recalcVars
  <2>2. /\ UNCHANGED Notices
        /\ OpenImports' = [OpenImports EXCEPT ![j] = @ \ {i}]
        /\ FailedImports' = [FailedImports EXCEPT ![j] = @ \ {i}]
    BY <2>1, RowMoves DEF ImportStatuses
  <2>3. Lifecycle!CloseAsCompleted(j, i)
    BY <2>1, <2>2 DEF Lifecycle!CloseAsCompleted, Requested
  <2> QED
    BY <2>3 DEF Lifecycle!Next
<1>4. CASE MarkFailed(i)
  <2>1. /\ UNCHANGED <<syncStatus, recalcPc>> /\ importPc[i] # "hook"
        /\ importStatus' = [importStatus EXCEPT ![i] = "failed"]
        /\ \A k \in Imports : (importPc'[k] = "hook") = (importPc[k] = "hook")
    BY <1>4 DEF MarkFailed, recalcVars
  <2>2. /\ UNCHANGED Notices
        /\ OpenImports' = [OpenImports EXCEPT ![j] = @ \ {i}]
        /\ FailedImports' = [FailedImports EXCEPT ![j] = @ \cup {i}]
    BY <2>1, RowMoves DEF ImportStatuses
  <2>3. Lifecycle!CloseAsFailed(j, i)
    BY <2>1, <2>2 DEF Lifecycle!CloseAsFailed, Requested
  <2> QED
    BY <2>3 DEF Lifecycle!Next
<1>5. CASE TryFinalizeFailed(i)
  <2>1. /\ importStatus' = importStatus /\ UNCHANGED recalcPc
        /\ \A k \in Imports : (importPc'[k] = "hook") = (importPc[k] = "hook")
    BY <1>5 DEF TryFinalizeFailed, recalcVars
  <2>2. UNCHANGED <<OpenImports, FailedImports, Notices, Requested>>
    BY <2>1, SetsApart DEF Requested
  <2>3. CASE FinalizableAsFailed(j)
    <3>1. OpenImports[j] = {} /\ FailedImports[j] # {}
      BY <2>3 DEF FinalizableAsFailed, OpenImports, FailedImports
    <3>2. Lifecycle!SettleAsFailed(j)
      BY <1>5, <1>a, <2>2, <2>3, <3>1
         DEF TryFinalizeFailed, FinalizableAsFailed, Terminal, Lifecycle!SettleAsFailed
    <3> QED
      BY <3>2 DEF Lifecycle!Next
  <2>4. CASE ~ FinalizableAsFailed(j)
    BY <1>5, <2>2, <2>4 DEF TryFinalizeFailed
  <2> QED
    BY <2>3, <2>4
<1>6. CASE TryFinalizeCompleted(i) /\ FinalizableAsCompleted(j)
  <2>1. /\ importStatus' = importStatus /\ UNCHANGED recalcPc
        /\ importPc' = [importPc EXCEPT ![i] = "hook"]
        /\ syncStatus' = [syncStatus EXCEPT ![j] = "completed"]
    BY <1>6 DEF TryFinalizeCompleted
  <2>2. \A k \in SyncJobs : ImportsOf(k)' = ImportsOf(k)
    BY <2>1 DEF ImportsOf
  <2>3. UNCHANGED <<OpenImports, FailedImports, Requested>>
    BY <2>1, <2>2 DEF OpenImports, FailedImports, ImportsOf, Requested
  <2>4. Notices' = [Notices EXCEPT ![j] = @ \cup {i}]
    BY <1>b, <2>1, <2>2 DEF Notices, ImportsOf
  <2>5. OpenImports[j] = {} /\ FailedImports[j] = {}
    BY <1>6 DEF FinalizableAsCompleted, OpenImports, FailedImports, OpenStatuses
  <2>6. Lifecycle!SettleAsCompleted(j, i)
    BY <1>6, <1>a, <2>1, <2>3, <2>4, <2>5
       DEF FinalizableAsCompleted, Terminal, Lifecycle!SettleAsCompleted
  <2> QED
    BY <2>6 DEF Lifecycle!Next
<1>7. CASE \/ TryFinalizeCompleted(i) /\ ~ FinalizableAsCompleted(j)
           \/ EnqueueRecalc(i) \/ ImportError(i) \/ ImportCrash(i)
  <2>1. /\ importStatus' = importStatus /\ UNCHANGED syncStatus
        /\ importPc[i] # "none"
        /\ ImportGivesUp(i) \/ ImportRaises(i) \/ ImportReturns(i)
    BY <1>7
       DEF TryFinalizeCompleted, EnqueueRecalc, ImportError, ImportCrash, syncVars,
           ImportStatements, ImportSteps
  <2>2. /\ importPc'[i] # "hook"
        /\ \A k \in Imports \ {i} : importPc'[k] = importPc[k]
    BY <2>1, ImportLeaves
  <2>3. /\ UNCHANGED <<OpenImports, FailedImports>>
        /\ Notices' = [Notices EXCEPT ![j] = @ \ {i}]
    BY <2>1, <2>2, NoticeConsumed
  <2>4. \/ UNCHANGED Requested
        \/ importPc[i] = "hook" /\ Requested' = Requested \cup {j}
    BY <1>7
       DEF TryFinalizeCompleted, EnqueueRecalc, ImportError, ImportCrash, recalcVars,
           Requested, Shape, Typed, TypeOK
  <2>5. CASE importPc[i] = "hook"
    <3>1. i \in Notices[j]
      BY <1>b, <2>5 DEF Notices
    <3>2. Lifecycle!RequestRecalc(j, i) \/ Lifecycle!DropNotice(j, i)
      BY <2>1, <2>3, <2>4, <3>1 DEF Lifecycle!RequestRecalc, Lifecycle!DropNotice
    <3> QED
      BY <3>2 DEF Lifecycle!Next
  <2>6. CASE importPc[i] # "hook"
    <3>1. \A k \in Imports : (importPc'[k] = "hook") = (importPc[k] = "hook")
      BY <2>2, <2>6
    <3> QED
      BY <2>1, <2>4, <2>6, <3>1, SetsApart
  <2> QED
    BY <2>5, <2>6
<1> QED
  BY <1>1, <1>2, <1>3, <1>4, <1>5, <1>6, <1>7 DEF ImportAction, ImportStep

\* The pipeline, with its retries, crashes and concurrent handlers, implements
\* the lifecycle of a sync_job.
THEOREM Refinement == Spec => ImplementsLifecycle
<1>1. IInv /\ [Next]_vars => [Lifecycle!Next]_(Lifecycle!vars)
  <2> SUFFICES ASSUME Shape, Parent, [Next]_vars
               PROVE  LifecycleStep
    BY IInvShapeParent DEF LifecycleStep, AbstractVars, Lifecycle!vars
  <2>1. CASE UNCHANGED vars
    <3>1. UNCHANGED <<OpenImports, FailedImports, Notices>>
      BY <2>1, SetsApart DEF vars, syncVars, importVars
    <3> QED
      BY <2>1, <3>1
         DEF LifecycleStep, AbstractVars, Requested, vars, syncVars, recalcVars
  <2> QED
    BY <2>1, HttpRefines, CoordinatorRefines, RecalcRefines, ImportRefines
       DEF Next, ImportAction
<1> QED
  BY <1>1, InitRefines, InvariantHolds, PTL DEF Spec, ImplementsLifecycle, Lifecycle!Spec
===============================================================================
