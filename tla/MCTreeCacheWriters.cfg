CONSTANTS
  f = f g = g m1 = m1 m2 = m2 l1 = l1 l2 = l2 k1 = k1 k2 = k2 v1 = v1 v2 = v2
  None = None
  Free = Free
  Fs = {f, g}
  Opened = {f, g}
  Mutations = {m1, m2}
  Rmdirs = {m2}
  Lookups = {l1}
  Src <- WritersSrc
  Dst <- WritersDst
  Folders = {k1, k2}
  Contents = {v1, v2}
  MaxRequests = 2
SPECIFICATION Spec
INVARIANTS TypeOK Coherent ActsOnTheCourse FreshAnswer
PROPERTY LabelsGrow
SYMMETRY Symmetry
CHECK_DEADLOCK FALSE
