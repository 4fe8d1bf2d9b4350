SPECIFICATION FairSpec
CONSTANTS
  Sizes = {1, 2}
  QueueCap = 3
  BufRegs = 6
  MinRegs = 3
  FastUpdate = TRUE
  MaxMsgs = 6
INVARIANTS TypeOK SentUnlessOverflowed PacketFits
PROPERTY Drains
CHECK_DEADLOCK FALSE
