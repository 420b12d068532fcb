SPECIFICATION FairSpec
CONSTANTS
  Partitions = {"p1", "p2"}
  LogLen = 5
  Malformed <- MCMalformed
  BatchSize = 2
  CommitEvery = 2
  MaxFaults = 2
INVARIANTS MovesFollow ReplayWindow Accounted Inv
PROPERTIES AtLeastOnceSpec BacklogDrains
CHECK_DEADLOCK FALSE
