---------------------------- MODULE AtomicWeights ----------------------------
(***************************************************************************)
(* What hot serving needs of a weight publication, whatever carries it:    *)
(* the learner advertises one newer version after another, and a loader    *)
(* goes from one complete version straight to a newer one that was         *)
(* advertised.                                                             *)
(***************************************************************************)
EXTENDS Naturals

CONSTANTS Reader, Tensor

VARIABLES
    advertised,   \* newest version advertised so far, 0 before the first
    loaded,       \* loaded[r]: version the loader reports
    model         \* model[r][t]: version the loader's tensor t comes from

Init ==
    /\ advertised = 0
    /\ loaded = [r \in Reader |-> 0]
    /\ model = [r \in Reader |-> [t \in Tensor |-> 0]]

Advertise ==
    /\ advertised' \in Nat
    /\ advertised' > advertised
    /\ UNCHANGED <<loaded, model>>

Load(r) ==
    /\ \E v \in 1..advertised :
         /\ v > loaded[r]
         /\ loaded' = [loaded EXCEPT ![r] = v]
         /\ model' = [model EXCEPT ![r] = [t \in Tensor |-> v]]
    /\ UNCHANGED advertised

Next == Advertise \/ \E r \in Reader : Load(r)

Spec == Init /\ [][Next]_<<advertised, loaded, model>>
=============================================================================
