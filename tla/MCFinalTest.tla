---------------------------- MODULE MCFinalTest ----------------------------
(***************************************************************************)
(* Two input partitions of three records, one of them malformed.           *)
(***************************************************************************)
EXTENDS FinalTest

MCMalformed == {<<"p1", 1>>}
=============================================================================
