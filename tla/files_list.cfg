SPECIFICATION Spec
CONSTANTS
  a = a
  b = b
  bb = bb
  cc = cc
  ccc = ccc
  Filenames <- AllNames
  length <- MCLength
  max_simple_data_size = 5
INVARIANTS MessagesBounded LengthsTrue NamedOnce ShortListComplete
