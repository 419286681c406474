CONSTANTS
  Workers = {w1, w2, w3}
  Nobody = nobody
  MaxQueues = 2
  MaxTotal = 2
SPECIFICATION FairSpec
INVARIANT NobodyLeftWaiting
PROPERTIES WorkIsTaken PoolEnds
