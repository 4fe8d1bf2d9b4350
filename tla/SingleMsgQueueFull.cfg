SPECIFICATION FairSpec
CONSTANTS
  Sizes = {1}
  QueueCap = 2
  BufRegs = 6
  MinRegs = 3
  FastUpdate = TRUE
  MaxMsgs = 5
PROPERTY PollsAgain
CHECK_DEADLOCK FALSE
