CONSTANTS
  c1 = c1
  c2 = c2
  c3 = c3
  Clients = {c1, c2, c3}
  Smid <- SmidOf
  Nobody = Nobody
  MaxFail = 1
SPECIFICATION FairSpec
CHECK_DEADLOCK FALSE
INVARIANT CompleteOrInFlight
PROPERTY LoginEnds
