SPECIFICATION Spec
CONSTANTS
  Partitions = {"p1", "p2"}
  LogLen = 3
  Malformed <- MCMalformed
  BatchSize = 2
  MaxFaults = 1
INVARIANT ExactlyOnce
CHECK_DEADLOCK FALSE
