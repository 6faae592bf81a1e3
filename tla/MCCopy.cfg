CONSTANTS
  none = none
  None = none
  Size = 3
  Streams = 2
  MaxTries = 2
  Scenarios <- MCScenarios
SPECIFICATION FairSpec
INVARIANTS NothingLost Done OldOrNew Backed TrueTimes NoPartialLeft
PROPERTY Returns
CHECK_DEADLOCK FALSE
