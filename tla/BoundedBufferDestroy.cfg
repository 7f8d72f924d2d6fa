CONSTANTS
  Producers = {p1, p2}
  Consumers = {c1, c2}
  Cap = 1
  N = 2
SPECIFICATION Spec
CHECK_DEADLOCK FALSE
INVARIANT DestroyedOnlyUnused
