\* Two overlapping syncs over three seconds, resets and one fault.
CONSTANTS
  Tasks = {t1, t2}
  NumStreams = 2
  MaxTime = 3
  Lookback = 1
  MaxAttempts = 2
  MaxFaults = 1
  ResetValues = {0, 2}
SPECIFICATION Spec
SYMMETRY TaskSymmetry
INVARIANTS WindowInv CursorHidesNoRecord CompletedImportIsRead
CHECK_DEADLOCK FALSE
