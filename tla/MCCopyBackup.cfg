CONSTANTS
  none = none
  None = none
  Size = 3
  Streams = 2
  MaxTries = 2
  Scenarios <- MCScenarios
SPECIFICATION FairSpec
INVARIANTS BackedUp
CHECK_DEADLOCK FALSE
