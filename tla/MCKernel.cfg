CONSTANTS
  Services = {root, other}
  Root = root
  None = None
  w1 = w1
  w2 = w2
  Workers = {w1, w2}
  Feeders = {}
  Weight <- MixedWeight
  MaxSend = 2
SPECIFICATION FairSpec
CHECK_DEADLOCK FALSE
INVARIANTS OnePlace NothingStranded OneCaller RefExact MemorySafety
PROPERTIES FreedWhenUnreachable ActorSpec SenderLearns Reclaimed
