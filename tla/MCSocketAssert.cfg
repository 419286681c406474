SPECIFICATION Spec
CONSTANTS
  MaxSocket = 2
  Connectors = {t1}
  Size = 2
  MaxAlloc = 4
  MaxSend = 2
  MaxClose = 1
  MaxPipe = 2
CHECK_DEADLOCK FALSE
INVARIANT NotReserved
