\* The station waits when its topic is read out: no deadlock check.
SPECIFICATION MCSpec
CONSTANTS
  Partitions = {"p1"}
  Classes = {"none", "bridge"}
  Presses = {"press1", "press2"}
  LogLen = 3
  BatchMax = 3
  TrapLimit = 3
  MaxFaults = 3
INVARIANTS MCInv ResultsBalanced ResultsOnce
PROPERTY ResultsAtLeastOnce
CHECK_DEADLOCK FALSE
