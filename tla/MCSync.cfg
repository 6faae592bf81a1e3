CONSTANTS
  top = top
  a = a
  b = b
  d = d
  x = x
  e = e
  f = f
  v = v
  w = w
  dir = dir
  none = none
  Paths = {a, b, d, x, e, f}
  Top = top
  Parent <- Tree
  Contents = {v, w}
  Dir = dir
  None = none
  Checkers = 2
  Transfers = 2
  MaxBacklog = 1
  Scenarios <- MCScenarios
SPECIFICATION FairSpec
INVARIANTS Synced NothingLost Backed SameKept KeptUntilComplete DirTimes NoPutAfterClose
PROPERTIES RunReturns
CHECK_DEADLOCK FALSE
