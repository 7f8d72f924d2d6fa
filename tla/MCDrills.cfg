CONSTANTS
  NumThread = 3
  Iter = 2
  Capacity = 2
  Wrap = 4
  NItems = 7
  NTries = 3
  Counts = {0, 1, 3}
SPECIFICATION DrillSpec
CHECK_DEADLOCK FALSE
INVARIANTS
  TotalsAsserted
  MaxOfOffers
  CheckLog
  InStep
PROPERTIES
  EveryDrillEnds
  ImplementsBoundedFifo
