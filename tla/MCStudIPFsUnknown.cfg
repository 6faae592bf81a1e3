CONSTANTS
  f = f
  g = g
  Fs = {f, g}
  Root <- RootAndFolder
  Suffixed = {"d (1)", "d (2)"}
  Scenarios <- OfUnknown
SPECIFICATION Spec
INVARIANT SizesKnown
