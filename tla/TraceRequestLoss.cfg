SPECIFICATION Spec
CONSTANTS
  Parts = 2
  MaxTraces = 2
  MaxLate = 0
  MaxStatus = 1
  MaxTroubles = 1
INVARIANT AllReadBack
CHECK_DEADLOCK FALSE
