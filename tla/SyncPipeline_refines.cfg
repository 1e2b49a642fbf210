\* Two concurrent syncs of one account and one domain, against the abstract lifecycle.
CONSTANTS
  SyncJobs = {s1, s2}
  NumDomains = 1
  MaxAttempts = 2
  MaxFaults = 1
  FaultKinds = {"coordinator", "import", "crash", "hook", "crashAtHook", "recalc", "expiry"}
SPECIFICATION Spec
PROPERTIES ImplementsLifecycle
CHECK_DEADLOCK FALSE
