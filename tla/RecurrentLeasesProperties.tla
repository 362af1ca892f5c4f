--------------------- MODULE RecurrentLeasesProperties ---------------------
(***************************************************************************)
(* What actors rely on when the inference server pins their sequences.     *)
(***************************************************************************)
EXTENDS RecurrentLeases

HeldBy(v) == {k \in DOMAIN router.sequences : router.sequences[k] = v}
KeyOf(a, s) == [actor |-> a, incarnation |-> incarnation[a], seat |-> s]

\* The pool's account of leases is what the router holds: a snapshot is
\* resident exactly while it is current or pinned, its count is the number of
\* sequences pinned to it, and neither capacity is exceeded.  A lease released
\* twice, or not at all, unloads a model in use or keeps one forever.
PoolIsBalanced ==
    /\ DOMAIN router.resident = {router.current} \cup Range(router.sequences)
    /\ \A v \in DOMAIN router.resident :
          router.resident[v] = Cardinality(HeldBy(v))
    /\ router.inFlight = Cardinality(DOMAIN router.sequences)
    /\ router.inFlight <= Min({MaxInFlight, MaxSequences})
    /\ Cardinality(DOMAIN router.resident) <= MaxResident

\* A sequence is held or remembered as released, never both, it is remembered
\* under one artifact, and everything held belongs to the newest process of its
\* actor: a dead predecessor's delayed requests pin nothing anew.
OneOwner ==
    /\ \A k \in DOMAIN router.sequences :
          /\ TombstoneOf(router, k) = {}
          /\ k.incarnation = router.generation[k.actor]
    /\ \A k \in {t.key : t \in Range(router.tombstones)} :
          Cardinality(TombstoneOf(router, k)) = 1
    /\ \A a \in Actor : router.generation[a] <= incarnation[a]

\* From the answer to its first decode to the acknowledgement of its release, an
\* actor's sequence runs on one artifact: the one the actor was told is the one
\* the server holds, or remembers having released at the actor's own request.
BoundArtifactIsServed ==
    \A a \in Actor : \A s \in DOMAIN binding[a] :
        LET k == KeyOf(a, s)
        IN IF k \in DOMAIN router.sequences
           THEN router.sequences[k] = binding[a][s]
           ELSE TombstoneOf(router, k) = {binding[a][s]}

\* A release or an abort that was acknowledged stays done on a route that was
\* loaded before its actors asked for it: no copy of an earlier decode that is
\* still under way takes the lease again.
EndedStaysReleased ==
    frozen \/ \A a \in Actor : \A s \in ended[a] :
                  KeyOf(a, s) \notin DOMAIN router.sequences

\* The same of every route: "Missing leases are accepted to make cleanup safe
\* when decode failed before binding" (inference_snapshot_router.py:315).
CleanupIsSafe ==
    \A a \in Actor : \A s \in ended[a] :
        KeyOf(a, s) \notin DOMAIN router.sequences

\* A retry is harmless: on a loaded route with room for the leases, no request
\* of a living actor is answered with a refusal, whichever of its answers came
\* late, however often it asked, and even when the replay cache forgot it.
RetriesAreSafe ==
    frozen \/ \A a \in Actor : \A i \in DOMAIN inbox[a] :
        LET p == inbox[a][i]
        IN \/ p.ok
           \/ p.incarnation # incarnation[a]
           \/ p.id \notin DOMAIN pending[a]
           \/ \E j \in 1..(i - 1) : RequestKey(inbox[a][j]) = RequestKey(p)

=============================================================================
