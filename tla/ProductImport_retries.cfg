\* Liveness: the attempts left after the faults cover the catalogue.
CONSTANTS
  Tasks = {t1, t2}
  MaxProduct = 4
  Limit = 2
  MaxPages = 1
  MaxAttempts = 6
  MaxFaults = 1
  ResetValues = {}
SPECIFICATION FairSpec
PROPERTIES ImportCompletes
CHECK_DEADLOCK FALSE
