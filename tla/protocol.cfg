SPECIFICATION Spec
CONSTANTS
  n1 = n1
  n2 = n2
  v = v
  w = w
  Nodes = {n1, n2}
  Words = {v, w}
  FileLengths = {2}
  TypedLengths <- Lengths
  Ports = {40000, 40001}
  Sizes = {7}
  MaxRequests = 2
  MaxHandled = 2
  None = None
SYMMETRY Symmetry
INVARIANTS
  TypeOK
  Meant
  ConnectsToListener
  Understood
  StringsEnd
CHECK_DEADLOCK FALSE
