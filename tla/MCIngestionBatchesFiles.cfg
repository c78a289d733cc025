SPECIFICATION FairSpec
CONSTANTS
  Batches = {b1}
  FileCount = 2
  Recoverers = {r1}
  Celery = TRUE
  Base = Base
  Nothing = Nothing
  MaxCrashes = 1
  MaxFaults = 1
INVARIANTS UnacceptedFactsAreFenced
PROPERTIES BatchesEnd WholeRecoveriesSettle CachesAreDropped
CHECK_DEADLOCK FALSE
