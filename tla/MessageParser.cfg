CONSTANTS
  Base = 2
  MaxSize = 16
SPECIFICATION Spec
CHECK_DEADLOCK FALSE
INVARIANT ReturnsTheNumber
