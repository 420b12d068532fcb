---------------------------- MODULE MCSimulator ----------------------------
\* Two loops of two frames, overlays of one and two frames, two topics.
EXTENDS Simulator

MCLoops    == {"baseline", "shift-change"}
MCOverlays == {"poison", "excursion"}
MCFrames   == [s \in MCLoops \cup MCOverlays |-> IF s = "poison" THEN 1 ELSE 2]
MCThen     == [s \in MCLoops |-> "baseline"]
MCCovers   == [s \in MCLoops \cup MCOverlays |->
                 CASE s = "baseline" -> {1, 2} [] s = "shift-change" -> {1}
                   [] s = "poison" -> {1} [] s = "excursion" -> {2}]
MCRates    == {1, 2}
=============================================================================
