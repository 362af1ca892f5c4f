------------------------ MODULE MCNativeCoordinator ------------------------
(* Finite instances of NativeCoordinator for TLC. *)
EXTENDS NativeCoordinatorProperties, TLC

Workers == Permutations(Worker)
=============================================================================
