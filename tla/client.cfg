SPECIFICATION Spec
CONSTANTS
  Fetches = {f1, f2}
  Uploads = {u}
  Main = Main
  Servers = {s1, s2}
  long = long
  short = short
  Copies <- MCCopies
  size <- MCSize
  MaxSearches = 2
  MaxDraws = 4
  None = None
SYMMETRY Symmetry
INVARIANTS TypeOK LastFetchWhole OwnResults
CHECK_DEADLOCK FALSE
