SPECIFICATION Spec
CONSTANTS
  Slots = {s1}
  Bytes = {b1, b2}
  Uploads = {u1, u2}
  Deletes = {d1}
  Callers = {c1, c2}
  Partial = Partial
  Absent = Absent
  None = None
  MaxCrashes = 1
  MaxFaults = 1
  MaxPowerLosses = 0
  MaxEdits = 1
  BarrierErrorsTyped = TRUE
SYMMETRY Symmetry
INVARIANTS OneUnfinishedMutation FilesMatchRegistrations UploadsRecoverable DeletionsStayFrozen
PROPERTIES PriorBytesKept
CHECK_DEADLOCK FALSE
