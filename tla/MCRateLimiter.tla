--------------------------- MODULE MCRateLimiter ---------------------------
(* The rate limiter with two goroutines and two keys, for TLC.             *)
EXTENDS RateLimiter, TLC

CONSTANTS k1, k2, p1, p2

\* Goroutines are interchangeable, and so are keys.
Symmetry == Permutations(Keys) \cup Permutations(Procs)
=============================================================================
