-------------------- MODULE NativeCoordinatorProperties --------------------
(***************************************************************************)
(* What NativeCoordinator promises: to the workers, that every live        *)
(* attempt is tracked by exactly one session; to the learner, that the     *)
(* outcomes it commits are those of a closed window, each lease once.      *)
(***************************************************************************)
EXTENDS NativeCoordinator

(***************************************************************************)
(* State invariants                                                        *)
(***************************************************************************)

\* The type of every variable.
TypeOK ==
    /\ session \in [Worker -> 0 .. MaxSession]
    /\ ready \in [Worker -> BOOLEAN]
    /\ active \in [Worker -> {Idle} \cup (Lease \X Try)]
    /\ pending \in [Worker -> 0 .. MaxSession]
    /\ pendingReady \in [Worker -> BOOLEAN]
    /\ announced \in [Worker -> BOOLEAN]
    /\ phase \in {"none", "collecting", "committed", "aborted"}
    /\ window \in 0 .. MaxWindow
    /\ committed \in Nat
    /\ primaryOnly \in BOOLEAN
    /\ learnerDrain \in BOOLEAN
    /\ highWater \in BOOLEAN
    /\ topology \in [Worker -> 0 .. MaxSession]
    /\ tries \in [Lease -> 0 .. MaximumAttempts]
    /\ attempt \in [Lease -> [Try -> Attempt]]
    /\ accepted \in [Lease -> 0 .. MaximumAttempts]
    /\ decided \in [Lease -> 0 .. MaxPart]
    /\ exposes \in [Lease -> SUBSET Artifact]
    /\ discarded \in [Lease -> BOOLEAN]
    /\ total \in Nat
    /\ tombstones \subseteq Tombstone
    /\ reservations \subseteq Reservation
    /\ callback \in BOOLEAN
    /\ snapshot \subseteq Lease \X (0 .. MaxPart)

\* A worker's active_attempt_id names a live attempt of its own session, and
\* every live attempt is named by its worker: expire_workers fails
\* active_attempt_id blindly, and _fail_attempt_locked raises when it is not live.
ActiveIsLive ==
    /\ \A w \in Worker : active[w] # Idle =>
         \E n \in Lease : /\ active[w] = <<n, tries[n]>>
                          /\ Live(n)
                          /\ Current(n).owner = <<w, session[w]>>
    /\ \A n \in Lease : Live(n) => \E w \in Worker : active[w] = <<n, tries[n]>>

\* An attempt that runs is the last of a lease without a result: no other
\* attempt of a lease keeps frames, an accepted one is never discarded.
OneResultPerLease ==
    \A n \in Lease :
        /\ \A k \in Try : attempt[n][k].state \in {"running", "completing"} =>
             k = tries[n] /\ accepted[n] = 0 /\ ~discarded[n]
        /\ \A k \in Try : attempt[n][k].parts > 0 =>
             k = tries[n] /\ (Live(n) \/ accepted[n] = k)
        /\ accepted[n] # 0 => accepted[n] = tries[n] /\ ~discarded[n]

\* The receipt's accepted decisions are those of the results it lists, and an
\* open window still holds the rows of every accepted result.
AcceptedDecisionsAddUp ==
    /\ total = SumOver(decided, Lease)
    /\ Collecting => \A n \in Lease : accepted[n] # 0 =>
                       attempt[n][accepted[n]].parts = decided[n]

\* Every lease counts once: the receipt's totals are those of one result each.
ResultsAddUp == OneResultPerLease /\ AcceptedDecisionsAddUp

\* Reaching the target closes the window in the same step: the speculative
\* tail is dropped and nothing is issued after it.
TargetClosesWindow ==
    Collecting /\ ~Draining /\ Satisfied(total, FALSE, Missing(exposes)) =>
        Unsettled = {}

\* Outside an open window nothing runs: a replacement session at the boundary
\* drops its worker's record without failing any attempt.
NothingRunsAtBoundary ==
    ~Collecting => \A n \in Lease : ~Live(n)

\* While the callback applies the outcomes without the lock, and once the
\* window is committed, they are those of the closed window.
CommitsWhatItHanded ==
    /\ callback => ReadyToCommit
    /\ callback \/ phase = "committed" => snapshot = Outcomes

(***************************************************************************)
(* Action properties                                                       *)
(***************************************************************************)

\* "The complete window is immutable here": from the moment a window may be
\* committed, no step of a worker, sweep or late completion changes what the
\* callback was given or reopens the window.
CompleteWindowIsImmutable ==
    [][ReadyToCommit /\ phase' = "collecting" =>
         ReadyToCommit' /\ Outcomes' = Outcomes /\ total' = total]_vars

(***************************************************************************)
(* Refinement                                                              *)
(***************************************************************************)

Contract == INSTANCE WindowContract WITH
    Outcome <- Lease \X (0 .. MaxPart),
    status <- phase,
    sequence <- window,
    granted <- Outcomes,
    handing <- callback,
    offer <- snapshot

\* The coordinator keeps the learner's contract: registrations, retries,
\* sweeps, drains and late completions are invisible steps of it.
KeepsContract == Contract!Spec

(***************************************************************************)
(* Liveness, under the fairness of FairSpec                                *)
(***************************************************************************)

\* A draining window settles: every lease still open when issuance stops gets
\* a result or is discarded, whatever fails on the way.
DrainSettles ==
    Collecting /\ Draining ~> ~Collecting \/ Unsettled = {}

\* A completion handed to the projection executor is answered: its attempt is
\* accepted, failed or discarded, though no sweep may end it.
CompletionsResolve ==
    \A n \in Lease :
        LET completing == Live(n) /\ Current(n).state = "completing"
        IN  completing ~> ~completing

\* A failed lease with budget left is retried while some capable session is
\* ready: a session that already tried it never waits for one that left.
RetryIsNotStarved ==
    \A n \in Lease :
        n \in Inactive /\ tries[n] < MaximumAttempts ~>
            \/ ~Collecting
            \/ n \notin Inactive
            \/ \A w \in RetryCapable : ~ready[w] \/ topology[w] = 0

=============================================================================
