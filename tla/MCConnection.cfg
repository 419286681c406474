CONSTANTS
  Fds = {c1, c2}
  Listener = listener
  maxclient = 1
  MaxData = 1
  MaxClose = 1
  MaxAccept = 2
SPECIFICATION FairSpec
CHECK_DEADLOCK FALSE
INVARIANTS GateSound NoEarlyData NoDeadRoute NoStartAfterClose
PROPERTIES NothingLeftBehind Served
