CONSTANTS
  Threads = {t1, t2, t3}
  Iter = 2
SPECIFICATION FairSpec
CHECK_DEADLOCK FALSE
INVARIANTS
  MutualExclusion
  NoLostWakeup
  TotalAsserted
PROPERTIES
  Termination
  ImplementsLockedCounter
