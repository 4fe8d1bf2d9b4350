SPECIFICATION Spec
CONSTANTS
  Parts = 2
  MaxTraces = 2
  MaxLate = 2
  MaxStatus = 1
  MaxTroubles = 0
INVARIANT PublishesItsOwn
CHECK_DEADLOCK FALSE
