SPECIFICATION FairSpec
CONSTANTS
  Partitions = {"p1", "p2"}
  LogLen = 3
  Malformed <- MCMalformed
  BatchSize = 2
  MaxFaults = 3
INVARIANTS ExactlyOnceUntilRewind TopicsAgree Inv
PROPERTIES LedgerSpec BacklogDrains
CHECK_DEADLOCK FALSE
