CONSTANTS
  Cpus = {c1, c2, c3}
  Entries = 1
  LogSlots = 2
  Words = 2
  Readers = {r1}
SPECIFICATION Spec
CHECK_DEADLOCK FALSE
INVARIANT ReadConsistent
