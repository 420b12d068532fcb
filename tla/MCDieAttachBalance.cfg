SPECIFICATION Spec
CONSTANTS
  Partitions = {"p1"}
  LogLen = 3
  BatchMax = 3
  TrapLimit = 4
  MaxFaults = 0
INVARIANT Balanced
CHECK_DEADLOCK FALSE
