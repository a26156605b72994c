SPECIFICATION FairSpec
CONSTANTS
  Servers = {s1, s2}
  Blocks = 2
  None = None
INVARIANT UploadedArrives
INVARIANT TooBigStoresNothing
PROPERTY UploadEnds
CHECK_DEADLOCK FALSE
