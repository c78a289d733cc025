SPECIFICATION Spec
CONSTANTS
  Requests = {r1, r2}
  Sessions = {s1}
  ActiveLimit = 1
  QueueLimit = 1
  Kinds = {"stream", "plain", "search"}
  Faults = {"cancel", "delete", "profile"}
  MaxLapses = 1
  MaxCrashes = 1
INVARIANTS LeasesBoundWork TokensBelongToRequests TurnsTellTheRuns
PROPERTIES PendingTurnsEnd
CHECK_DEADLOCK FALSE
