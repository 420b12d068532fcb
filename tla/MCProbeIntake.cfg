\* Once every upload is over and folded nothing happens: no deadlock check.
SPECIFICATION Spec
CONSTANTS
  Posts = {p1, p2}
  Wafers = 2
  MaxClock = 3
  MaxFaults = 2
  FaultWindow = 2
  SeenFor = 2
  SeenKept = 0
  FaultsKept = 2
SYMMETRY Symmetry
INVARIANTS Inv PanelExact RowsApart
CHECK_DEADLOCK FALSE
