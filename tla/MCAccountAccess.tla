--------------------------- MODULE MCAccountAccess ---------------------------
(* AccountAccess for TLC: small sets of model values and their symmetry. *)
EXTENDS AccountAccess, TLC

Symmetry == Permutations(Users) \cup Permutations(Sessions) \cup Permutations(Requests)
=============================================================================
