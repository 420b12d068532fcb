-------------------------- MODULE MCFinalTestTwin --------------------------
(***************************************************************************)
(* Two partitions of five records, one malformed; windows of two batches.  *)
(***************************************************************************)
EXTENDS FinalTestTwin

MCMalformed == {<<"p1", 1>>}
=============================================================================
