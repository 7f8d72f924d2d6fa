CONSTANTS
  Producers = {p1, p2}
  Consumers = {c1, c2}
  Cap = 2
  N = 3
SPECIFICATION FairSpec
CHECK_DEADLOCK FALSE
INVARIANTS
  NoLostSignal
  EndsClean
PROPERTIES
  Termination
  ImplementsBoundedFifo
