--------------------------- MODULE MCRateLimiter ----------------------------
(* Symmetry of the RateLimiter runs.                                       *)
EXTENDS RateLimiter, TLC

Interchangeable == Permutations(Handlers)
=============================================================================
