SPECIFICATION FairSpec
CONSTANTS
  Values = {off, on}
  Zero = off
  MaxInFlight = 2
  MaxWrites = 2
  MaxLosses = 1
INVARIANTS TypeOK AgreeWhenQuiet
PROPERTY KeepHeals
CHECK_DEADLOCK FALSE
