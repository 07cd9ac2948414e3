--------------------------- MODULE MCModelRouter ---------------------------
(* Instances of ModelRouter: two routes over two candidates, one route after *)
(* another, or three routes that meet at one candidate.                      *)
EXTENDS ModelRouter, TLC

RouterSymmetry == Permutations(Candidates) \cup Permutations(Routes)
=============================================================================
