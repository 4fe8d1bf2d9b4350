SPECIFICATION Spec
CONSTANTS
  Senders = {s1, s2}
  MaxChoices = {1, 2}
  NoDataLimit = 1
  Wrap = 16
  Damage = {}
  MaxCalls = 4
INVARIANT CountersProtected
CHECK_DEADLOCK FALSE
