\* The bound on frames ends every behaviour: no deadlock check.
SPECIFICATION Spec
CONSTANTS
  Loops <- MCLoops
  Overlays <- MCOverlays
  Frames <- MCFrames
  Then <- MCThen
  Covers <- MCCovers
  Rates <- MCRates
  TopicCount = 2
  MaxControls = 1
  MaxFrames = 4
  MaxFaults = 0
INVARIANT OneShotPlays
CHECK_DEADLOCK FALSE
