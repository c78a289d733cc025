SPECIFICATION Spec
CONSTANTS
  Requests = {r1, r2}
  Sessions = {s1}
  ActiveLimit = 1
  QueueLimit = 1
  Kinds = {"plain"}
  Faults = {"cancel"}
  MaxLapses = 0
  MaxCrashes = 0
PROPERTIES TerminalRunsStayTerminal
CHECK_DEADLOCK FALSE
