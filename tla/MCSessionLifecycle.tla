------------------------- MODULE MCSessionLifecycle -------------------------
(* SessionLifecycle for TLC: small sets of model values and their symmetry. *)
EXTENDS SessionLifecycle, TLC

Symmetry == Permutations(Sessions) \cup Permutations(Devices) \cup Permutations(Requests)
=============================================================================
