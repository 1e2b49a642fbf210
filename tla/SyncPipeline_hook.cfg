\* One failed enqueue of the recalculation.
CONSTANTS
  SyncJobs = {s1}
  NumDomains = 1
  MaxAttempts = 2
  MaxFaults = 1
  FaultKinds = {"hook"}
SPECIFICATION FairSpec
PROPERTIES CompletedSyncIsRecalculated
CHECK_DEADLOCK FALSE
