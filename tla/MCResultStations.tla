-------------------------- MODULE MCResultStations --------------------------
(***************************************************************************)
(* The two stations that publish a result and then report: ST-04 with its  *)
(* deployed batches of one, ST-05 with larger ones.  They never meet (each *)
(* has a topic, a group and a host consumer of its own), so a behaviour is *)
(* of one of them, and one run checks both.                                *)
(***************************************************************************)
EXTENDS MoldCure

CONSTANT Classes

VARIABLE station

I == INSTANCE Inspection WITH BatchMax <- 1

MCInit ==
  \/ station = "st04" /\ I!Init
  \/ station = "st05" /\ Init

MCNext ==
  /\ \/ station = "st04" /\ I!Next
     \/ station = "st05" /\ Next
  /\ UNCHANGED station

MCSpec == MCInit /\ [][MCNext]_<<vars, station>>

\* The inductive invariant of the station at hand.
MCInv == IF station = "st04" THEN I!Inv ELSE Inv

MCSettled == IF station = "st04" THEN I!Settled ELSE Settled

Promise == INSTANCE AtLeastOnce WITH settled <- MCSettled

\* Neither station's position moves past a record that has neither its result
\* nor its dead letter (st04 lib.rs:20-23, st05 lib.rs:20-23).
ResultsAtLeastOnce == Promise!Spec

\* What `make validate` counts (validate.sh:169): Balanced of either module.
ResultsBalanced == IF station = "st04" THEN I!Balanced ELSE Balanced

\* Without a failure a record has one result: Inspection's OneVerdict,
\* MoldCure's WindowsPartition.
ResultsOnce == IF station = "st04" THEN I!OneVerdict ELSE WindowsPartition
=============================================================================
