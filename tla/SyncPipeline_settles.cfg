\* Liveness: fewer faults than attempts, a coordinator that is not retried, and no
\* fault between the completion of a sync and its enqueue.
CONSTANTS
  SyncJobs = {s1}
  NumDomains = 2
  MaxAttempts = 3
  MaxFaults = 2
  FaultKinds = {"import", "crash", "recalc", "expiry"}
SPECIFICATION FairSpec
PROPERTIES SyncSettles CompletedSyncIsRecalculated
CHECK_DEADLOCK FALSE
