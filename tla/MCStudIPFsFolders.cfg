CONSTANTS
  f = f
  g = g
  Fs = {f, g}
  Root <- RootAndFolder
  Suffixed = {"d (1)", "d (2)"}
  Scenarios <- FoldersAndOthers
SPECIFICATION Spec
INVARIANTS CachesAgree RootResolved InPlace
PROPERTIES UploadsWhole Implements
