--------------------------- MODULE MCNativeService ---------------------------
(* Finite instances of NativeService for TLC. *)
EXTENDS NativeServiceProperties, TLC

Workers == Permutations(Worker)
=============================================================================
