---------------------------- MODULE MCDieAttach ----------------------------
(***************************************************************************)
(* Every log of one partition: the calls of different partitions share     *)
(* nothing but the build and the number of faults.                         *)
(***************************************************************************)
EXTENDS DieAttach
=============================================================================
