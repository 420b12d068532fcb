SPECIFICATION FairSpec
CONSTANTS
  Partitions = {"p1"}
  LogLen = 3
  BatchMax = 3
  TrapLimit = 4
  MaxFaults = 1
INVARIANTS Inv HealthyNeverDeadLettered PartialRepeatsNothing Accounting
PROPERTIES AtLeastOnceSpec Drains
CHECK_DEADLOCK FALSE
