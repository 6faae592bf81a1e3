CONSTANTS
  i1 = i1
  i2 = i2
  i3 = i3
  i4 = i4
  p1 = p1
  p2 = p2
  c1 = c1
  c2 = c2
  Items = {i1, i2, i3, i4}
  Producers = {p1, p2}
  Consumers = {c1, c2}
  MaxBacklog = 1
  Size <- Sizes
  Same = {i3}
  Rank <- Ranks
  Orders <- OrderSet
  Fraction <- Fractions
SPECIFICATION FairSpec
INVARIANTS TokenBacked Drained SizeOfBacklog
PROPERTIES ConsumersEnd
CHECK_DEADLOCK FALSE
