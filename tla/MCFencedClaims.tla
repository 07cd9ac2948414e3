--------------------------- MODULE MCFencedClaims ---------------------------
(* Instance of FencedClaims: two owners compete for one key while two store *)
(* calls are in flight.                                                     *)
EXTENDS FencedClaims, TLC

\* Owner tokens are opaque to the store, so they are interchangeable.
OwnerSymmetry == Permutations(Owners)
=============================================================================
