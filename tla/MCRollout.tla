------------------------------ MODULE MCRollout ------------------------------
(* Images and commands are interchangeable. *)
EXTENDS Rollout, TLC

Symmetry == Permutations(Images) \cup Permutations(Commands)
=============================================================================
