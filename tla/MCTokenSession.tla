--------------------------- MODULE MCTokenSession ---------------------------
(* Symmetry of the TokenSession run.                                       *)
EXTENDS TokenSession, TLC

Interchangeable == Permutations(Calls)
=============================================================================
