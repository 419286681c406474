CONSTANTS
  c1 = c1
  c2 = c2
  c3 = c3
  Clients = {c1, c2, c3}
  Smid <- SmidOf
  Nobody = Nobody
  MaxFail = 0
SPECIFICATION Spec
CHECK_DEADLOCK FALSE
INVARIANT UidsIncrease
