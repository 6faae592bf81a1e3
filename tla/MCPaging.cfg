CONSTANTS
  i1 = i1
  i2 = i2
  i3 = i3
  i4 = i4
  Items = {i1, i2, i3, i4}
  DefaultLimit = 1
  MaxLimit = 2
  Overcount = 1
SPECIFICATION FairSpec
INVARIANTS NothingSkipped NoDuplicates
PROPERTY CallReturns
CHECK_DEADLOCK FALSE
