SPECIFICATION FairSpec
CONSTANTS
  Batches = {b1}
  FileCount = 2
  Recoverers = {r1}
  Celery = TRUE
  Base = Base
  Nothing = Nothing
  MaxCrashes = 0
  MaxFaults = 1
PROPERTIES FailedRecoveriesSettle
CHECK_DEADLOCK FALSE
