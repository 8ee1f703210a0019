---------------------------- MODULE MCRuleStore ----------------------------
(* The rule store with a few callers and one admin, for TLC.               *)
EXTENDS RuleStore, TLC

CONSTANTS i1, i2, r1, p1, p2, a1

Symmetry == Permutations(Callers) \cup Permutations(Ids)
=============================================================================
