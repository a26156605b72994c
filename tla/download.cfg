SPECIFICATION FairSpec
CONSTANTS
  Uploads = {u}
  Old = Old
  Blocks = 3
  MaxCrashes = 1
  None = None
INVARIANT SuccessIsSent
PROPERTY FetchEnds
CHECK_DEADLOCK FALSE
