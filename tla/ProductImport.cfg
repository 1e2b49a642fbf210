\* Two concurrent imports of a growing catalogue, resets and two faults.
CONSTANTS
  Tasks = {t1, t2}
  MaxProduct = 4
  Limit = 2
  MaxPages = 2
  MaxAttempts = 2
  MaxFaults = 1
  ResetValues = {0, 2}
SPECIFICATION Spec
INVARIANTS ProductInv CursorHidesNothing CompletedImportIsComplete
CHECK_DEADLOCK FALSE
