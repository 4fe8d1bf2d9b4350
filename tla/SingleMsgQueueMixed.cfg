SPECIFICATION Spec
CONSTANTS
  Sizes = {1, 2}
  QueueCap = 8
  BufRegs = 6
  MinRegs = 3
  FastUpdate = FALSE
  MaxMsgs = 6
INVARIANT SentInOrder
CHECK_DEADLOCK FALSE
