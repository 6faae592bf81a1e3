CONSTANTS
  f = f g = g m1 = m1 m2 = m2 l1 = l1 l2 = l2 k1 = k1 k2 = k2 v1 = v1 v2 = v2
  None = None
  Free = Free
  Fs = {f, g}
  Opened = {f}
  Mutations = {m1, m2}
  Rmdirs = {m2}
  Lookups = {l1}
  Src <- EveryoneSrc
  Dst <- EveryoneDst
  Folders = {k1}
  Contents = {v1, v2}
  MaxRequests = 1
SPECIFICATION FairSpec
PROPERTY CallsReturn
CHECK_DEADLOCK FALSE
