CONSTANTS
  Capacity = 4
  Wrap = 8
  NItems = 14
SPECIFICATION FairSpec
CHECK_DEADLOCK FALSE
INVARIANTS
  RaceFree
  InOrder
PROPERTIES
  Termination
  ImplementsBoundedFifo
