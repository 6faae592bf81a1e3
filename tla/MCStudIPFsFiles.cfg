CONSTANTS
  f = f
  g = g
  Fs = {f, g}
  Root <- RootAndFolder
  Suffixed = {"d (1)", "d (2)"}
  Scenarios <- FilesAndStale
SPECIFICATION Spec
INVARIANT OneOfAName
PROPERTIES MoveKeepsFile OthersUntouched Implements
