---------------------------- MODULE MCProbeIntake ----------------------------
EXTENDS ProbeIntake, TLC

Symmetry == Permutations(Posts)
=============================================================================
