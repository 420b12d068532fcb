\* The bound on frames ends every behaviour: no deadlock check.
SPECIFICATION Spec
CONSTANTS
  Loops <- MCLoops
  Overlays <- MCOverlays
  Frames <- MCFrames
  Then <- MCThen
  Covers <- MCCovers
  Rates <- MCRates
  TopicCount = 2
  MaxControls = 2
  MaxFrames = 5
  MaxFaults = 1
INVARIANTS Inv UniqueIds PassHoldsOneLoop ProducedExact FramesInOrder OverlayPlaysWhole
CHECK_DEADLOCK FALSE
