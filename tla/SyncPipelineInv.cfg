\* One sync of two domains, every kind of fault, two of them at most.
CONSTANTS
  SyncJobs = {s1}
  NumDomains = 2
  MaxAttempts = 2
  MaxFaults = 2
  FaultKinds = {"start", "coordinator", "import", "crash", "hook", "crashAtHook", "recalc", "expiry"}
SPECIFICATION Spec
INVARIANTS TypeOK StuckSyncIsExplained CompletionIsUnique IInv
PROPERTIES TerminalStatusIsSticky
CHECK_DEADLOCK FALSE
