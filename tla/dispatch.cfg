SPECIFICATION Spec
CONSTANTS
  Clients = {c1, c2}
  Others = {o}
  Filenames = {f, g}
  Threads = {t1}
  MaxRequests = 2
  MaxInFlight = 1
  None = None
SYMMETRY Symmetry
INVARIANTS TypeOK UndisturbedIsRight AddressKept AnswerIsOwn AnswerIsForFile
CHECK_DEADLOCK FALSE
