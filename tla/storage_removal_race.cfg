SPECIFICATION Spec
CONSTANTS
  Workers = {w1, w2}
  Filenames = {f, g}
  InvalidNames = {}
  Sizes = {1, 2, 3}
  max_available_space = 3
  Word = 8
  MaxCrashes = 0
  IOErrors = FALSE
  None = None
SYMMETRY Symmetry
INVARIANT OfferedFits
CHECK_DEADLOCK FALSE
