CONSTANTS
  r = r
  a = a
  b = b
  c = c
  d = d
  e = e
  u = u
  Folders = {r, a, b, c, d, e, u}
  Root = r
  Parent <- Tree
  Readable = {r, a, b, c, d, e}
SPECIFICATION FairSpec
INVARIANTS Whole
PROPERTIES CrawlReturns Delivered
CHECK_DEADLOCK FALSE
