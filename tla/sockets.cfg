SPECIFICATION SocketsSpec
CONSTANTS
  Threads = {t1, t2}
  MaxDescriptor = 6
  MainSockets <- MCMainSockets
  Main = Main
  Bad = Bad
  Unset = Unset
SYMMETRY Symmetry
INVARIANTS SocketsTypeOK OwnDescriptors NothingLeaks
CHECK_DEADLOCK FALSE
