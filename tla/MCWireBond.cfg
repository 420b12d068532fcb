SPECIFICATION FairSpec
CONSTANTS
  Partitions <- MCPartitions
  Bonders <- MCBonders
  LogLen = 4
  BatchSize = 2
  WindowMs = 1
  ReplayMs = 2
  MaxFaults = 2
INVARIANTS Inv NothingVanishes ReplayCannotLoop CountsOnce
PROPERTY Drains
CHECK_DEADLOCK FALSE
