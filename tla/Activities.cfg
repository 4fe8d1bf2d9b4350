SPECIFICATION FairSpec
CONSTANTS
  MaxSets = 4
  PVs = {p1, p2}
  Targets = {0, 12}
  Steps = {0, 2, 3}
  Rounding = 1
  MaxPresses = 3
  Last = 2
  Amps = {0, 1, 2}
  RevLimit = 1
  StopLimit = 1
  MaxTouches = 2
  MaxRegs = 560
  MaxPolls = 3
  MaxTroubles = 4
  LastChan = 2
  MaxRetries = 1
  MaxOnWire = 2
  MaxMissed = 2
  NumChans = 4
  InitialKeeps = {{1, 2}}
  MaxKeepWrites = 1
  MaxAnswers = 2
  PeriodBits = 3
  Periods = {0, 1, 3, 4, 11}
  MaxPeriodWrites = 3
INVARIANTS TypeOK StopsPolling OnTheWay AbortStops MovesPay NeverWorse SentIffSafe ShownInTime ShownIsNew MapAgreesWhenQuiet PublishesKept ScaleFits
PROPERTIES KeepsPolling PollerExits ComesToRest FindsMinimum Bmb7KeepsShowing AmcKeepsReading
CHECK_DEADLOCK FALSE
