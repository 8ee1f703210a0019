------------------------ MODULE MCRateLimiterRolling ------------------------
(* The observed rate limiter with one key and two limits, for TLC.        *)
EXTENDS RateLimiterRolling, TLC

CONSTANTS k1, p1, p2

Symmetry == Permutations(Procs)
=============================================================================
