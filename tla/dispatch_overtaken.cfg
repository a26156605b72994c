SPECIFICATION Spec
CONSTANTS
  Clients = {c1, c2}
  Others = {o}
  Filenames = {f, g}
  Threads = {t1, t2}
  MaxRequests = 2
  MaxInFlight = 1
  None = None
SYMMETRY Symmetry
INVARIANT UploadIsForFile
CHECK_DEADLOCK FALSE
