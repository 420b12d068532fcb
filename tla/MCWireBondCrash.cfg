SPECIFICATION Spec
CONSTANTS
  Partitions <- MCPartitions
  Bonders <- MCBonders
  LogLen = 3
  BatchSize = 2
  WindowMs = 1
  ReplayMs = 2
  MaxFaults = 1
INVARIANT CrashReplays
CHECK_DEADLOCK FALSE
