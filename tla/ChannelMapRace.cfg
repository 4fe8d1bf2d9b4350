SPECIFICATION MapSpec
CONSTANTS
  NumChans = 2
  InitialKeeps = {{}, {0, 1}}
  MaxKeepWrites = 1
  MaxAnswers = 1
INVARIANT IndexIsChannel
CHECK_DEADLOCK FALSE
