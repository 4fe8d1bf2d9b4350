SPECIFICATION FairSpec
CONSTANTS
  Parts = 2
  MaxTraces = 2
  MaxLate = 2
  MaxStatus = 1
  MaxTroubles = 2
INVARIANTS TypeOK NoLostSignal Fresh WholeWhenCalm OnceWhenCalm
PROPERTIES Acknowledged RequesterExits
CHECK_DEADLOCK FALSE
