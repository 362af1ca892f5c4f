--------------------------- MODULE MCBoundedWorker ---------------------------
(* The instances are those of the configurations; there is no symmetry to add. *)
EXTENDS BoundedWorkerProperties
=============================================================================
