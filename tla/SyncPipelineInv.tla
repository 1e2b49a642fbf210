-------------------------- MODULE SyncPipelineInv --------------------------
(***************************************************************************)
(* The inductive invariant of SyncPipeline from which its safety           *)
(* properties follow.  Its conjuncts record what the handlers rely on      *)
(* without checking it: which rows and tasks can exist at each step of the *)
(* coordinator, and that a handler past its last own statement has left    *)
(* its row completed.                                                      *)
(***************************************************************************)
EXTENDS SyncPipeline

\* A delivery is only pending while attempts are left.
AttemptsLeft ==
  /\ \A j \in SyncJobs : coordPc[j] = "queued" => coordTry[j] < MaxAttempts
  /\ \A i \in Imports : importPc[i] = "queued" => importTry[i] < MaxAttempts
  /\ \A j \in SyncJobs : recalcPc[j] = "queued" => recalcTry[j] < MaxAttempts

CoordinatorStarted ==
  \A j \in SyncJobs :
    /\ coordPc[j] \in {"none", "starting", "lost"} => coordTry[j] = 0
    /\ coordPc[j] \in CoordSteps \cup {"done"} => coordTry[j] >= 1
    /\ coordPc[j] # "none" => syncStatus[j] # "none"

\* The rows that exist were created by an earlier attempt, or by the loop
\* iterations of the current one that are over.
RowsAreDispatched ==
  \A i \in Imports : importStatus[i] # "none" =>
    LET j == JobOf(i) IN
    \/ i[2] < coordTry[j]
    \/ /\ i[2] = coordTry[j]
       /\ coordPc[j] # "toRunning"
       /\ coordPc[j] = "create" => i[3] < coordDomain[j]
       /\ coordPc[j] = "enqueue" => i[3] <= coordDomain[j]

TasksHaveRows ==
  \A i \in Imports : importPc[i] # "none" => importStatus[i] # "none"

\* A row without a task is the one the coordinator is about to enqueue, or
\* the trace of a coordinator that failed between the insert and the enqueue.
RowsHaveTasks ==
  \A i \in Imports : importStatus[i] # "none" /\ importPc[i] = "none" =>
    LET j == JobOf(i) IN
    \/ coordTry[j] > 1
    \/ coordPc[j] \in {"queued", "archived"}
    \/ coordPc[j] = "enqueue" /\ i = CurrentImport(j)

\* The row the coordinator is about to enqueue is its own and has no task yet.
EnqueuingHasRow ==
  \A j \in SyncJobs : coordPc[j] = "enqueue" =>
    /\ importStatus[CurrentImport(j)] # "none"
    /\ importPc[CurrentImport(j)] = "none"

FailingHandlers ==
  /\ \A i \in failing : importPc[i] \in {"toFailed", "tryFailed", "tryCompleted", "hook"}
  /\ \A i \in Imports : importPc[i] = "toFailed" => i \in failing

\* An import that nothing of its own keeps open: its handler has finished
\* finalizing the parent.
Settled(i) == importPc[i] \in {"hook", "return", "done"} /\ i \notin failing

\* The coordinator has created at least one import in its current attempt.
Dispatched(j) ==
  \/ coordPc[j] \in {"enqueue", "return", "done"}
  \/ coordPc[j] = "create" /\ coordDomain[j] > 1

\* Nobody has to remember to finalize the parent: as long as it is open, the
\* finalization of some import is still to come, or can no longer come.
OpenSyncIsOwed ==
  \A j \in SyncJobs : Dispatched(j) /\ ~ Terminal(j) =>
    \E i \in ImportsOf(j) : ~ Settled(i)

FinalizedHasImports ==
  \A j \in SyncJobs : Terminal(j) \/ recalcPc[j] # "none" => ImportsOf(j) # {}

\* The conjunction that every step preserves, and that yields
\* StuckSyncIsExplained, CompletionIsUnique and TerminalStatusIsSticky.
IInv ==
  /\ TypeOK
  /\ AttemptsLeft
  /\ CoordinatorStarted
  /\ RowsAreDispatched
  /\ TasksHaveRows
  /\ RowsHaveTasks
  /\ EnqueuingHasRow
  /\ FailingHandlers
  /\ SettledImportIsCompleted
  /\ OpenSyncIsOwed
  /\ FinalizedHasImports
  /\ CompletionIsUnique
=============================================================================
