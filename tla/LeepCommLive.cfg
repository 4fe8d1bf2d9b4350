SPECIFICATION FairSpec
CONSTANTS
  Senders = {s1, s2}
  MaxChoices = {0, 2}
  NoDataLimit = 1
  Wrap = 2
  Damage = {"short"}
  MaxCalls = 2
PROPERTIES SenderProgress WaitEnds HandlerExits
CHECK_DEADLOCK FALSE
