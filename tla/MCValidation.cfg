\* A line that has produced everything and is folded stops: no deadlock check.
SPECIFICATION FairSpec
CONSTANTS
  InputLen = 2
  Rate = 2
  MaxRewinds = 3
  ScriptRewinds = 1
  MaxRounds = 2
  DashboardSlack = 1
INVARIANTS Inv ConsumedExact VerdictSound StopHolds
PROPERTIES Resumes
CHECK_DEADLOCK FALSE
