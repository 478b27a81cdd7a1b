SPECIFICATION Spec
CONSTANTS
  Call = {c1, c2, c3, c4}
  brushLimit = 1
  brushBanLimit = 2
  MaxFaults = 2
INVARIANTS PassedWithinLimit WindowHasEnd
SYMMETRY Calls
CHECK_DEADLOCK FALSE
