------------------------- MODULE MCRecurrentLeases -------------------------
(* The instances are those of the configurations; there is no symmetry to add. *)
EXTENDS RecurrentLeasesProperties

=============================================================================
