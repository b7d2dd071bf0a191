------------------------------ MODULE MCAvatars ------------------------------
(* File names and requests are interchangeable. *)
EXTENDS Avatars, TLC

Symmetry == Permutations(Keys) \cup Permutations(AvatarRequests)
=============================================================================
