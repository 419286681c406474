CONSTANTS
  Threads = {t1, t2, t3, t4}
SPECIFICATION FairLockSpec
INVARIANT MutualExclusion
PROPERTY WriterGetsIn
