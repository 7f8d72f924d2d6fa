CONSTANTS
  Cpus = {c1, c2, c3}
  Entries = 3
  LocalCap = 2
  LogCapacity = 9
SPECIFICATION FairSpec
CHECK_DEADLOCK FALSE
INVARIANTS
  OneOwner
  NoLostBroadcast
  NothingLost
PROPERTY Termination
