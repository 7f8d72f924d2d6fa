CONSTANTS
  Threads = {t1, t2}
  Iter <- MinusOne
SPECIFICATION Spec
CHECK_DEADLOCK FALSE
INVARIANT TotalAsserted
