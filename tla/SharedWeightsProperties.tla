----------------------- MODULE SharedWeightsProperties -----------------------
(***************************************************************************)
(* What the serving processes rely on when weights change under them.      *)
(***************************************************************************)
EXTENDS SharedWeights

Live == {"idle", "copy", "advertise", "commit"}

\* The type of every variable.
WeightsTypeOK ==
    /\ step \in Live \cup {"closing", "closed", "dead"}
    /\ version \in 0..MaxVersion
    /\ layout \in 0..MaxLayout
    /\ nextSlot \in Slot
    /\ sequence = 2 * version
    /\ target \in Segment \cup {<<0, 0>>}
    /\ left \subseteq Tensor
    /\ memory \in [Segment -> [sequence : Nat, version : 0..MaxVersion,
                               data : [Tensor -> 0..MaxVersion]]]
    /\ linked \subseteq Segment
    /\ files \subseteq 1..MaxLayout
    /\ manifest = None \/ manifest \in [version : 1..MaxVersion,
                                        segment : Segment, sequence : Nat]
    /\ at \in [Reader -> {"idle", "read", "layout", "attach", "check", "copy"}]
    /\ latest \in [Reader -> {None} \cup [version : 1..MaxVersion,
                                        segment : Segment, sequence : Nat]]
    /\ copied \in [Reader -> [Tensor -> 0..MaxVersion]]
    /\ todo \in [Reader -> SUBSET Tensor]
    /\ loaded \in [Reader -> 0..MaxVersion]
    /\ model \in [Reader -> [Tensor -> 0..MaxVersion]]
    /\ held \in [Reader -> SUBSET (0..MaxVersion)]

\* A model is never a mixture: whatever the publisher overwrote while it was
\* read, every tensor a loader hands to the model is of the version it reports.
LoadedIsWhole ==
    \A r \in Reader : \A t \in Tensor : model[r][t] = loaded[r]

\* What is advertised can be read until something newer is: the publisher never
\* writes into the advertised slot and unlinks nothing the manifest needs.
AdvertisedIsReadable ==
    (step \in Live /\ manifest # None) =>
        /\ manifest.segment \in linked
        /\ manifest.segment[1] \in files
        /\ memory[manifest.segment].sequence = manifest.sequence
        /\ memory[manifest.segment].version = manifest.version
        /\ \A t \in Tensor : memory[manifest.segment].data[t] = manifest.version

\* Seen from the outside, publications are atomic: this module implements
\* AtomicWeights, a manifest replaced being the publication.  A manifest that
\* close() removed does not unpublish what was advertised before.
advertised == IF step \in {"copy", "advertise"} THEN version - 1
              ELSE IF step = "dead" THEN manifest.version ELSE version

Atomic == INSTANCE AtomicWeights

IsAtomic == Atomic!Spec

\* A serving process catches up: once the last version is advertised, what it
\* serves is within the gap it is told to leave, whatever snapshots its games hold
\* and however often the slot it reads is overwritten, unless the learner closes
\* or dies first.
LoadersCatchUp ==
    \A r \in Reader :
        (manifest.version = MaxVersion) ~>
            (loaded[r] + VersionGap > MaxVersion \/ step \notin Live)
=============================================================================
