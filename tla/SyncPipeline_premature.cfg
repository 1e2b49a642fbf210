\* No fault at all: the first import finishes before the second is created.
CONSTANTS
  SyncJobs = {s1}
  NumDomains = 2
  MaxAttempts = 1
  MaxFaults = 0
  FaultKinds = {}
SPECIFICATION Spec
INVARIANTS TerminalSyncHasNoOpenImport
CHECK_DEADLOCK FALSE
