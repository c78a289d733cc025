SPECIFICATION Spec
CONSTANTS
  Batches = {b1, b2}
  FileCount = 1
  Recoverers = {r1}
  Celery = TRUE
  Base = Base
  Nothing = Nothing
  MaxCrashes = 1
  MaxFaults = 0
INVARIANTS OneActiveRecovery CancelledLeavesNothing GraphOnAcceptedFacts
SYMMETRY Symmetry
CHECK_DEADLOCK FALSE
