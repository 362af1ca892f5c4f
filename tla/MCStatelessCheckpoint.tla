------------------------ MODULE MCStatelessCheckpoint ------------------------
(* Model checking the checkpoint protocol, and the bugs the checks find. *)
EXTENDS StatelessCheckpointProperties
=============================================================================
