CONSTANTS
  Cpus = {c1, c2}
  Entries = 3
  LogSlots = 2
  Words = 2
  Readers = {r1}
SPECIFICATION Spec
CHECK_DEADLOCK FALSE
INVARIANTS
  ConsistentUnlessLapped
  EvenMeansCommitted
