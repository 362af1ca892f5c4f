--------------------------- MODULE MCSharedWeights ---------------------------
(* SharedWeights for TLC; no symmetry, it is unsound for liveness. *)
EXTENDS SharedWeightsProperties
=============================================================================
