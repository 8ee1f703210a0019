---------------------------- MODULE MCDelaySlots ----------------------------
(* The delay slots with a few goroutines, for TLC.                         *)
EXTENDS DelaySlots, TLC

CONSTANTS p1, p2, p3

Symmetry == Permutations(Procs)
=============================================================================
