\* Two power losses, a crash and one failed rename, unlink or flush, whose error is
\* the plain OSError of production; two callers, two contents of one file.
\* No deadlock check: calls and bounds are used up.
SPECIFICATION Spec
CONSTANTS
  Slots = {s1}
  Bytes = {b1, b2}
  Uploads = {u1, u2}
  Deletes = {d1}
  Callers = {c1, c2}
  Partial = Partial
  Absent = Absent
  None = None
  MaxCrashes = 1
  MaxFaults = 1
  MaxPowerLosses = 2
  MaxEdits = 0
  BarrierErrorsTyped = FALSE
SYMMETRY Symmetry
INVARIANTS UploadsSurvivePowerLoss RetiredSlotsAreDurable RegisteredBytesExist
CHECK_DEADLOCK FALSE
