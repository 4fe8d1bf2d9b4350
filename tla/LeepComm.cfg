SPECIFICATION Spec
CONSTANTS
  Senders = {s1, s2}
  MaxChoices = {1}
  NoDataLimit = 1
  Wrap = 16
  Damage = {"short", "huge"}
  MaxCalls = 4
SYMMETRY Symmetry
INVARIANTS TypeOK CountersProtected RaceFree NeverAhead
PROPERTY StopAndWaitSpec
CHECK_DEADLOCK FALSE
