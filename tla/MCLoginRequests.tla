-------------------------- MODULE MCLoginRequests ---------------------------
(* Model values and symmetry for the checks of LoginRequests. *)
EXTENDS LoginRequests, TLC

Symmetry == Permutations(Ids) \cup Permutations(Requests)
=============================================================================
