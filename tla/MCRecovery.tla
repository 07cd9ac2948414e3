----------------------------- MODULE MCRecovery -----------------------------
(* Instances of Recovery: two workers recover the log of one Operation.      *)
EXTENDS Recovery, TLC

WorkerSymmetry == Permutations(Workers)
=============================================================================
