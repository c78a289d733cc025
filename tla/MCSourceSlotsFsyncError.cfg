SPECIFICATION Spec
CONSTANTS
  Slots = {s1}
  Bytes = {b1, b2}
  Uploads = {u1}
  Deletes = {d1}
  Callers = {c1, c2}
  Partial = Partial
  Absent = Absent
  None = None
  MaxCrashes = 0
  MaxFaults = 1
  MaxPowerLosses = 0
  MaxEdits = 0
  BarrierErrorsTyped = FALSE
SYMMETRY Symmetry
INVARIANTS RetiredIntentsAreDurable
CHECK_DEADLOCK FALSE
