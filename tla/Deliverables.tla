----------------------------- MODULE Deliverables -----------------------------
(***************************************************************************)
(* What the release workflow builds and the rollout starts.                *)
(***************************************************************************)
CONSTANTS
    Images,   \* digests of deployable linux/amd64 manifests
    None

ASSUME ImagesAssumption == None \notin Images
===============================================================================
