SPECIFICATION Spec
CONSTANTS
  Requests = {r1, r2, r3}
  Sessions = {s1}
  ActiveLimit = 1
  QueueLimit = 1
  Kinds = {"stream", "plain", "search"}
  Faults = {"cancel", "delete", "profile"}
  MaxLapses = 0
  MaxCrashes = 0
SYMMETRY Symmetry
PROPERTIES AdmissionInOrder TurnsAreKept
CHECK_DEADLOCK FALSE
