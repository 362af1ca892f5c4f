------------------------- MODULE NativeCoordinator -------------------------
(***************************************************************************)
(* The central coordinator of native distributed collection                *)
(* (rl/native_distributed/coordinator.py).  Remote workers register        *)
(* sessions, a learner opens one collection window at a time, the          *)
(* coordinator issues shard leases, retries failed attempts, accepts one   *)
(* result per lease and commits the whole window through a callback that   *)
(* runs without its lock.                                                  *)
(*                                                                         *)
(* Every action below is one critical section of the coordinator's lock,   *)
(* with the arguments its two callers can pass: the I/O thread (worker     *)
(* messages and finished projections) and the learner thread (begin,       *)
(* drain, commit, abort, release).  Time is abstract: a lease or a         *)
(* heartbeat may be found expired by any sweep.                            *)
(***************************************************************************)
EXTENDS Naturals, FiniteSets, FiniteSetsExt

CONSTANTS
    Worker,            \* worker ids
    Required,          \* quorum.required_worker_ids
    AllowDegraded,     \* quorum.allow_degraded
    MinimumDegraded,   \* quorum.minimum_degraded_workers
    RetryCapable,      \* workers with a tier that fits any lease's retry
    MaximumAttempts,   \* retry.maximum_attempts
    Target,            \* target_trainable_decisions of every window
    HighWater,         \* learner_clocked_max_trainable_decisions, 0 for None
    Artifact,          \* PFSP artifacts a V3 window must expose; {} for V1, V2
    PrimaryOnlyModes,  \* values of learner_clocked_primary_only to explore
    MaxSession,        \* bound: sessions a worker id may register
    MaxLease,          \* bound: leases per window (the assignment pool)
    MaxPart,           \* bound: parts per attempt
    MaxWindow          \* bound: windows opened

ASSUME QuorumAssumption ==
    /\ Required \subseteq Worker
    /\ RetryCapable \subseteq Worker
    /\ AllowDegraded \in BOOLEAN
    /\ PrimaryOnlyModes \subseteq BOOLEAN
    /\ MinimumDegraded \in Nat

ASSUME BudgetAssumption ==
    /\ MaximumAttempts \in Nat \ {0}
    /\ Target \in Nat \ {0}
    /\ HighWater \in Nat

ASSUME BoundAssumption ==
    /\ MaxSession \in Nat
    /\ MaxLease \in Nat
    /\ MaxPart \in Nat
    /\ MaxWindow \in Nat

VARIABLES
    \* worker registry
    session,       \* _workers[w]: its session, 0 when absent
    ready,         \* _workers[w].ready
    active,        \* _workers[w].active_attempt_id: <<lease, try>> or Idle
    pending,       \* _pending_workers[w]: its session, 0 when absent
    pendingReady,  \* _pending_workers[w].ready
    announced,     \* the newest session of w has sent READY
    \* window
    phase,         \* "none", "collecting", or the status of the receipt
    window,        \* sequence number of the last opened window
    committed,     \* _committed_windows
    primaryOnly,   \* _learner_clocked_primary_only
    learnerDrain,  \* _learner_ready_drain_requested
    highWater,     \* _learner_clocked_high_water_reached
    topology,      \* _topology_manifests: frozen session of w, 0 if outside
    \* shards of the current window
    tries,         \* len(shard.attempts); 0 before the lease is issued
    attempt,       \* shard.attempts
    accepted,      \* the try named by shard.accepted_attempt_id, 0 for None
    decided,       \* shard.result.decision_count
    exposes,       \* artifacts shard.result exposes to trainable decisions
    discarded,     \* shard.discarded
    total,         \* _accepted_decisions
    \* outside the window
    tombstones,    \* _discarded_attempts
    reservations,  \* completions handed to the projection executor
    \* learner thread
    callback,      \* commit's callback is running without the lock
    snapshot       \* the outcomes commit handed to its callback

registry    == <<session, ready, active, pending, pendingReady, announced>>
windowState == <<phase, window, committed, primaryOnly, learnerDrain,
                 highWater, topology>>
results     == <<accepted, decided, exposes, total>>
learner     == <<callback, snapshot>>
vars == <<registry, windowState, tries, attempt, results, discarded,
          tombstones, reservations, learner>>

(***************************************************************************)
(* Data.  A part carries one decision row; term counts the rows of games   *)
(* already proven terminal (attempt.terminal_decisions).                   *)
(***************************************************************************)

Lease   == 1 .. MaxLease
Try     == 1 .. MaximumAttempts
Session == 1 .. MaxSession
Idle    == <<0, 0>>
Nobody  == <<>>

Owner == Worker \X Session

Attempt == [owner : Owner \cup {Nobody},
            state : {"unstarted", "running", "completing", "finished"},
            parts : 0 .. MaxPart,
            term  : 0 .. MaxPart]

Unstarted == [owner |-> Nobody, state |-> "unstarted", parts |-> 0, term |-> 0]

Tombstone   == [window : Nat, lease : Lease, try : Try, owner : Owner \cup {Nobody}]
Reservation == [window : Nat, lease : Lease, try : Try, decisions : 0 .. MaxPart]

(***************************************************************************)
(* Helper state formulas                                                   *)
(***************************************************************************)

Latest(w) == IF pending[w] # 0 THEN pending[w] ELSE session[w]

Collecting == phase = "collecting"
Settled    == phase \in {"committed", "aborted"}
Draining   == learnerDrain \/ highWater

Issued    == {n \in Lease : tries[n] > 0}
Current(n) == attempt[n][tries[n]]
Live(n)   == tries[n] > 0 /\ Current(n).state \in {"running", "completing"}
\* mutant: a lease with a result still counts as open
Unsettled_WithAccepted == {n \in Issued : ~discarded[n]}
Unsettled == {n \in Issued : accepted[n] = 0 /\ ~discarded[n]}
Inactive  == {n \in Unsettled : ~Live(n)}

\* the leases whose running attempt counts provisionally
Open      == {n \in Unsettled : Live(n)}

SumOver(f, leases) == MapThenSumSet(LAMBDA n : f[n], leases)

Provisional         == SumOver([n \in Open |-> Current(n).parts], Open)
TerminalProvisional == SumOver([n \in Open |-> Current(n).term], Open)
Missing(shown) == Artifact \ UNION {shown[n] : n \in Lease}

\* _target_and_exposure_satisfied_locked, over the values it reads
Satisfied(sum, draining, missing) ==
    /\ missing = {}
    /\ \/ draining /\ sum > 0
       \/ ~primaryOnly /\ sum >= Target

ReadyToCommit ==
    /\ Collecting
    /\ Satisfied(total, Draining, Missing(exposes))
    /\ Unsettled = {}

Outcomes == {<<n, decided[n]>> : n \in {m \in Lease : accepted[m] # 0}}

\* _maybe_request_high_water_drain_locked
ReachesHighWater(observed) ==
    /\ primaryOnly
    /\ HighWater > 0
    /\ ~Draining
    /\ observed >= HighWater

(***************************************************************************)
(* Releasing attempts                                                      *)
(***************************************************************************)

Cleared(a) == IF a.state = "unstarted" THEN a
              ELSE [a EXCEPT !.state = "finished", !.parts = 0, !.term = 0]

\* the attempts of the leases D, cleared and finished
ClearShards(attempts, D) ==
    [n \in Lease |-> IF n \in D THEN [k \in Try |-> Cleared(attempts[n][k])]
                     ELSE attempts[n]]

\* no worker keeps an attempt of the leases D
Release(D) == [w \in Worker |-> IF active[w][1] \in D THEN Idle ELSE active[w]]

\* the tombstones _discard_shard_locked leaves for the attempts of D
TombstonesOf(D) ==
    {[window |-> window, lease |-> i[1], try |-> i[2],
      owner |-> attempt[i[1]][i[2]].owner] :
        i \in {j \in D \X Try : attempt[j[1]][j[2]].state # "unstarted"}}

\* mutant: a failure during the drain leaves its lease open
Fail_KeepsLease(F) ==
    /\ attempt' = [n \in Lease |->
                     IF n \in F THEN [attempt[n] EXCEPT ![tries[n]] = Cleared(@)]
                     ELSE attempt[n]]
    /\ UNCHANGED <<discarded, tombstones>>

\* _fail_attempt_locked for the live attempts of the leases F
Fail(F) ==
    /\ attempt' = [n \in Lease |->
                     IF n \in F THEN [attempt[n] EXCEPT ![tries[n]] = Cleared(@)]
                     ELSE attempt[n]]
    /\ discarded' = [n \in Lease |-> discarded[n] \/ (n \in F /\ Draining)]
    /\ tombstones' = tombstones \cup (IF Draining THEN TombstonesOf(F) ELSE {})

\* mutant: the failed attempt stays its worker's active attempt
FreeFailed_Nobody(F) == active

\* the workers whose active attempt is the one that fails
FreeFailed(F) ==
    [w \in Worker |-> IF \E n \in F : active[w] = <<n, tries[n]>> THEN Idle
                      ELSE active[w]]

(***************************************************************************)
(* Registry: register_worker, mark_ready, expire_workers                   *)
(***************************************************************************)

Init ==
    /\ session = [w \in Worker |-> 0]
    /\ ready = [w \in Worker |-> FALSE]
    /\ active = [w \in Worker |-> Idle]
    /\ pending = [w \in Worker |-> 0]
    /\ pendingReady = [w \in Worker |-> FALSE]
    /\ announced = [w \in Worker |-> FALSE]
    /\ phase = "none"
    /\ window = 0
    /\ committed = 0
    /\ primaryOnly = FALSE
    /\ learnerDrain = FALSE
    /\ highWater = FALSE
    /\ topology = [w \in Worker |-> 0]
    /\ tries = [n \in Lease |-> 0]
    /\ attempt = [n \in Lease |-> [k \in Try |-> Unstarted]]
    /\ accepted = [n \in Lease |-> 0]
    /\ decided = [n \in Lease |-> 0]
    /\ exposes = [n \in Lease |-> {}]
    /\ discarded = [n \in Lease |-> FALSE]
    /\ total = 0
    /\ tombstones = {}
    /\ reservations = {}
    /\ callback = FALSE
    /\ snapshot = {}

\* A restarted worker registers a new session.  During a window the session
\* it replaces loses its attempt and the new one waits for the boundary.
RegisterWhileCollecting(w) ==
    LET F == {n \in Lease : active[w] = <<n, tries[n]>> /\ Live(n)}
    IN  /\ Collecting
        /\ Latest(w) < MaxSession
        /\ pending' = [pending EXCEPT ![w] = Latest(w) + 1]
        /\ pendingReady' = [pendingReady EXCEPT ![w] = FALSE]
        /\ announced' = [announced EXCEPT ![w] = FALSE]
        /\ ready' = [ready EXCEPT ![w] = FALSE]
        /\ Fail(F)
        /\ active' = FreeFailed(F)
        /\ UNCHANGED <<session, windowState, tries, results, reservations, learner>>

RegisterAtBoundary(w) ==
    /\ ~Collecting
    /\ Latest(w) < MaxSession
    /\ session' = [session EXCEPT ![w] = Latest(w) + 1]
    /\ ready' = [ready EXCEPT ![w] = FALSE]
    /\ active' = [active EXCEPT ![w] = Idle]
    /\ pending' = [pending EXCEPT ![w] = 0]
    /\ pendingReady' = [pendingReady EXCEPT ![w] = FALSE]
    /\ announced' = [announced EXCEPT ![w] = FALSE]
    /\ UNCHANGED <<windowState, tries, attempt, results, discarded, tombstones,
                   reservations, learner>>

\* READY comes once from each session, over the route its REGISTER bound,
\* which is the route of the newest session.
MarkReady(w) ==
    /\ Latest(w) # 0
    /\ ~announced[w]
    /\ announced' = [announced EXCEPT ![w] = TRUE]
    /\ IF pending[w] # 0
       THEN /\ pendingReady' = [pendingReady EXCEPT ![w] = TRUE]
            /\ UNCHANGED ready
       ELSE /\ ready' = [ready EXCEPT ![w] = TRUE]
            /\ UNCHANGED pendingReady
    /\ UNCHANGED <<session, active, pending, windowState, tries, attempt,
                   results, discarded, tombstones, reservations, learner>>

\* One sweep: the leases L ran out of time, then the workers W of heartbeats.
\* An attempt whose completion is reserved is spared by both.
ExpireWorkers(L, W) ==
    LET F == L \cup {n \in Lease : /\ Live(n)
                                   /\ Current(n).state # "completing"
                                   /\ \E w \in W : active[w] = <<n, tries[n]>>}
    IN  /\ \A n \in L : Live(n) /\ Current(n).state = "running"
        /\ \A w \in W : ready[w]
        /\ L # {} \/ W # {}
        /\ ready' = [w \in Worker |-> ready[w] /\ w \notin W]
        /\ Fail(F)
        /\ active' = FreeFailed(F)
        /\ UNCHANGED <<session, pending, pendingReady, announced, windowState,
                       tries, results, reservations, learner>>

(***************************************************************************)
(* Work: retryable_lease, retry_shard, select_capacity_tier, issue_shard   *)
(***************************************************************************)

\* mutant: the drain does not stop work
MayWork_WhileDraining(w) ==
    Collecting /\ topology[w] # 0 /\ ready[w] /\ pending[w] = 0 /\ active[w] = Idle

\* session_is_in_active_topology and an idle worker
MayWork(w) ==
    /\ Collecting
    /\ topology[w] # 0
    /\ ready[w]
    /\ pending[w] = 0
    /\ active[w] = Idle
    /\ ~Draining

Tried(n, o) == \E k \in Try : attempt[n][k].owner = o

\* mutant: a session that stopped its heartbeat still counts as fresh
FreshWorkerFor_NotReady(n, w) ==
    \E v \in RetryCapable \ {w} : topology[v] # 0 /\ ~Tried(n, <<v, session[v]>>)

\* _has_fresh_retry_worker_locked
FreshWorkerFor(n, w) ==
    \E v \in RetryCapable \ {w} :
        topology[v] # 0 /\ ready[v] /\ ~Tried(n, <<v, session[v]>>)

Retryable(w) ==
    {n \in Inactive : /\ tries[n] < MaximumAttempts
                      /\ w \in RetryCapable
                      /\ Tried(n, <<w, session[w]>>) => ~FreshWorkerFor(n, w)}

\* mutant: the exact target leaves work
WorkLeft_AtTarget == primaryOnly \/ total + Provisional <= Target

\* select_capacity_tier may find decisions left to collect.  The credit it
\* reserves for leases in flight, a configured share of an estimate, only
\* makes it refuse more often, and no step has to be taken.
WorkLeft ==
    \/ primaryOnly
    \/ total + Provisional < Target

Fresh == {n \in Lease : tries[n] = 0}

\* leases are served in the order of their shard_sequence_id
First(leases) == {n \in leases : \A m \in leases : n <= m}

\* _start_attempt_locked
StartAttempt(n, w) ==
    /\ tries' = [tries EXCEPT ![n] = @ + 1]
    /\ attempt' = [attempt EXCEPT ![n][tries[n] + 1] =
                     [owner |-> <<w, session[w]>>, state |-> "running",
                      parts |-> 0, term |-> 0]]
    /\ active' = [active EXCEPT ![w] = <<n, tries[n] + 1>>]

\* acknowledge_worker_discards, at every work request: the session that asks
\* for work has left its discarded attempts behind
AcknowledgeDiscards(w) ==
    /\ announced[w]
    /\ tombstones' = {t \in tombstones : t.owner # <<w, Latest(w)>>}
    /\ UNCHANGED <<registry, windowState, tries, attempt, results, discarded,
                   reservations, learner>>

\* A lease is chosen and started by two calls of the I/O thread, taken here
\* as one step; NativeService takes them apart.
RetryShard(w) ==
    /\ announced[w]
    /\ MayWork(w)
    /\ \E n \in First(Retryable(w)) : StartAttempt(n, w)
    /\ UNCHANGED <<session, ready, pending, pendingReady, announced, windowState,
                   results, discarded, tombstones, reservations, learner>>

IssueShard(w) ==
    /\ announced[w]
    /\ MayWork(w)
    /\ Retryable(w) = {}
    /\ WorkLeft
    /\ \E n \in First(Fresh) : StartAttempt(n, w)
    /\ UNCHANGED <<session, ready, pending, pendingReady, announced, windowState,
                   results, discarded, tombstones, reservations, learner>>

(***************************************************************************)
(* Evidence: accept_part, fail_attempt, reserve_attempt_completion,        *)
(* finalize_attempt_completion, reject_attempt_completion                  *)
(***************************************************************************)

\* One contiguous part arrives; k rows of it and of the parts before it turn
\* out to belong to games that ended.
AcceptPart(n, k) ==
    LET a     == Current(n)
        trips == ReachesHighWater(total + TerminalProvisional + k)
        D     == IF trips THEN Inactive ELSE {}
    IN  /\ Collecting
        /\ Live(n)
        /\ a.state = "running"
        /\ a.parts < MaxPart
        /\ a.term + k <= a.parts + 1
        /\ highWater' = (highWater \/ trips)
        /\ attempt' = ClearShards(
             [attempt EXCEPT ![n][tries[n]] =
                [a EXCEPT !.parts = @ + 1, !.term = @ + k]], D)
        /\ discarded' = [m \in Lease |-> discarded[m] \/ m \in D]
        /\ tombstones' = tombstones \cup TombstonesOf(D)
        /\ active' = Release(D)
        /\ UNCHANGED <<session, ready, pending, pendingReady, announced, phase,
                       window, committed, primaryOnly, learnerDrain, topology,
                       tries, results, reservations, learner>>

\* The worker reports a failure, or the data plane rejects one of its parts:
\* malformed, repeated, out of order, or late for a reserved completion.
FailAttempt(n) ==
    /\ Live(n)
    /\ Fail({n})
    /\ active' = FreeFailed({n})
    /\ UNCHANGED <<session, ready, pending, pendingReady, announced, windowState,
                   tries, results, reservations, learner>>

\* project_attempt_completion keeps the rows of the games that ended and cuts
\* the others off, to the count the result claims
Projected(a) == a.term

ReserveCompletion(n) ==
    LET a == Current(n)
    IN  /\ Collecting
        /\ Live(n)
        /\ a.state = "running"
        /\ attempt' = [attempt EXCEPT ![n][tries[n]].state = "completing"]
        /\ reservations' = reservations \cup
             {[window |-> window, lease |-> n, try |-> tries[n], decisions |-> Projected(a)]}
        /\ UNCHANGED <<registry, windowState, tries, results, discarded,
                       tombstones, learner>>

Tombstoned(r) ==
    \E t \in tombstones :
        t.window = r.window /\ t.lease = r.lease /\ t.try = r.try

\* mutant: a completion is matched by its lease alone
Names_AnyTry(r) == r.window = window /\ Live(r.lease)

\* the attempt the reservation r was made for is still the live one
Names(r) ==
    /\ r.window = window
    /\ Live(r.lease)
    /\ tries[r.lease] = r.try

\* finalize_attempt_completion accepts the projected rows
FinalizeCompletion(r, shown) ==
    LET n      == r.lease
        sum    == total + r.decisions
        kept   == [attempt EXCEPT ![n][r.try] =
                     [@ EXCEPT !.state = "finished", !.parts = r.decisions]]
        trips  == ReachesHighWater(sum + TerminalProvisional - Current(n).term)
        shows  == [exposes EXCEPT ![n] = shown]
        enough == /\ ~primaryOnly
                  /\ ~Draining
                  /\ Satisfied(sum, FALSE, Missing(shows))
        D      == IF enough THEN Unsettled \ {n}
                  ELSE IF trips THEN Inactive ELSE {}
    IN  /\ Collecting
        /\ ~Tombstoned(r)
        /\ Names(r)
        /\ Current(n).state = "completing"
        /\ shown # {} => r.decisions > 0
        /\ reservations' = reservations \ {r}
        /\ accepted' = [accepted EXCEPT ![n] = r.try]
        /\ decided' = [decided EXCEPT ![n] = r.decisions]
        /\ exposes' = shows
        /\ total' = sum
        /\ highWater' = (highWater \/ trips)
        /\ attempt' = ClearShards(kept, D)
        /\ discarded' = [m \in Lease |-> discarded[m] \/ m \in D]
        /\ tombstones' = tombstones \cup TombstonesOf(D)
        /\ active' = [Release(D) EXCEPT ![Current(n).owner[1]] = Idle]
        /\ UNCHANGED <<session, ready, pending, pendingReady, announced, phase,
                       window, committed, primaryOnly, learnerDrain, topology,
                       tries, learner>>

\* mutant: the refused completion is logged and forgotten
RejectCompletion_Swallowed(r) ==
    /\ reservations' = reservations \ {r}
    /\ UNCHANGED <<registry, windowState, tries, attempt, results, discarded,
                   tombstones, learner>>

\* The projection, or finalize itself, refuses the completion; the reserved
\* attempt fails unless something else has already ended it.
RejectCompletion(r) ==
    LET F == IF ~Tombstoned(r) /\ Names(r) THEN {r.lease} ELSE {}
    IN  /\ reservations' = reservations \ {r}
        /\ Fail(F)
        /\ active' = FreeFailed(F)
        /\ UNCHANGED <<session, ready, pending, pendingReady, announced,
                       windowState, tries, results, learner>>

(***************************************************************************)
(* Learner: begin_window, request_learner_ready_drain, commit, abort,      *)
(* release_parts.  One learner thread drives them in turn, so none runs    *)
(* while the commit callback does.                                         *)
(***************************************************************************)

PromotedSession(w) == IF pending[w] # 0 THEN pending[w] ELSE session[w]
PromotedReady(w)   == IF pending[w] # 0 THEN pendingReady[w] ELSE ready[w]

\* begin_window's quorum over the ready workers R
HasQuorum(R) ==
    IF committed = 0
    THEN /\ Required \subseteq R \/ AllowDegraded
         /\ Cardinality(Required \cap R) >= MinimumDegraded
    ELSE \/ Required \subseteq R
         \/ AllowDegraded /\ Cardinality(R) >= MinimumDegraded

\* both outcomes of begin_window promote the waiting sessions and sweep
PromotePending(stale) ==
    /\ session' = [w \in Worker |-> PromotedSession(w)]
    /\ ready' = [w \in Worker |-> PromotedReady(w) /\ w \notin stale]
    /\ pending' = [w \in Worker |-> 0]
    /\ pendingReady' = [w \in Worker |-> FALSE]
    /\ UNCHANGED announced

BeginWindow(stale, mode) ==
    LET R == {w \in Worker : PromotedReady(w)} \ stale
    IN  /\ ~Collecting
        /\ window < MaxWindow
        /\ HasQuorum(R)
        /\ PromotePending(stale)
        /\ active' = [w \in Worker |-> Idle]
        /\ phase' = "collecting"
        /\ window' = window + 1
        /\ primaryOnly' = mode
        /\ learnerDrain' = FALSE
        /\ highWater' = FALSE
        /\ topology' = [w \in Worker |-> IF w \in R THEN PromotedSession(w) ELSE 0]
        /\ tries' = [n \in Lease |-> 0]
        /\ attempt' = [n \in Lease |-> [k \in Try |-> Unstarted]]
        /\ accepted' = [n \in Lease |-> 0]
        /\ decided' = [n \in Lease |-> 0]
        /\ exposes' = [n \in Lease |-> {}]
        /\ discarded' = [n \in Lease |-> FALSE]
        /\ total' = 0
        /\ UNCHANGED <<committed, tombstones, reservations, learner>>

\* The quorum is missing, or a missing worker is inside its grace period.
\* A promoted session starts without an attempt.
RefuseWindow(stale) ==
    LET R == {w \in Worker : PromotedReady(w)} \ stale
    IN  /\ ~Collecting
        /\ window < MaxWindow
        /\ \/ ~HasQuorum(R)
           \/ committed > 0 /\ \E w \in Required \ R : PromotedSession(w) # 0
        /\ PromotePending(stale)
        /\ active' = [w \in Worker |-> IF pending[w] # 0 THEN Idle ELSE active[w]]
        /\ UNCHANGED <<windowState, tries, attempt, results, discarded,
                       tombstones, reservations, learner>>

RequestLearnerReadyDrain ==
    /\ Collecting
    /\ ~callback
    /\ ~Draining
    /\ Missing(exposes) = {}
    /\ primaryOnly \/ total < Target
    /\ total > 0 \/ \E n \in Unsettled : Live(n) /\ Current(n).term > 0
    /\ learnerDrain' = TRUE
    /\ attempt' = ClearShards(attempt, Inactive)
    /\ discarded' = [n \in Lease |-> discarded[n] \/ n \in Inactive]
    /\ tombstones' = tombstones \cup TombstonesOf(Inactive)
    /\ active' = Release(Inactive)
    /\ UNCHANGED <<session, ready, pending, pendingReady, announced, phase,
                   window, committed, primaryOnly, highWater, topology, tries,
                   results, reservations, learner>>

\* commit, first critical section: freeze the outcomes for the callback
StartCommit ==
    /\ ~callback
    /\ ReadyToCommit
    /\ callback' = TRUE
    /\ snapshot' = Outcomes
    /\ UNCHANGED <<registry, windowState, tries, attempt, results, discarded,
                   tombstones, reservations>>

\* commit, second critical section: the callback returned
FinishCommit ==
    /\ callback
    /\ Collecting
    /\ callback' = FALSE
    /\ phase' = "committed"
    /\ committed' = committed + 1
    /\ UNCHANGED <<registry, window, primaryOnly, learnerDrain, highWater,
                   topology, tries, attempt, results, discarded, tombstones,
                   reservations, snapshot>>

\* the callback raised: commit propagates and the window stays open
FailCommit ==
    /\ callback
    /\ callback' = FALSE
    /\ snapshot' = {}
    /\ UNCHANGED <<registry, windowState, tries, attempt, results, discarded,
                   tombstones, reservations>>

\* mutant: abort settles the window and leaves its attempts running
AbortWindow_KeepsAttempts ==
    /\ Collecting
    /\ ~callback
    /\ phase' = "aborted"
    /\ UNCHANGED <<registry, window, committed, primaryOnly, learnerDrain,
                   highWater, topology, tries, attempt, results, discarded,
                   tombstones, reservations, learner>>

AbortWindow ==
    /\ Collecting
    /\ ~callback
    /\ phase' = "aborted"
    /\ attempt' = ClearShards(attempt, Lease)
    /\ active' = [w \in Worker |-> Idle]
    /\ UNCHANGED <<session, ready, pending, pendingReady, announced, window,
                   committed, primaryOnly, learnerDrain, highWater, topology,
                   tries, results, discarded, tombstones, reservations, learner>>

ReleaseParts ==
    /\ Settled
    /\ ~callback
    /\ attempt' = [n \in Lease |-> [k \in Try |->
                     [attempt[n][k] EXCEPT !.parts = 0, !.term = 0]]]
    /\ UNCHANGED <<registry, windowState, tries, results, discarded, tombstones,
                   reservations, learner>>

(***************************************************************************)
(* Next-state relation                                                     *)
(***************************************************************************)

WorkerStep ==
    \E w \in Worker :
        \/ RegisterWhileCollecting(w)
        \/ RegisterAtBoundary(w)
        \/ MarkReady(w)
        \/ AcknowledgeDiscards(w)
        \/ RetryShard(w)
        \/ IssueShard(w)

AttemptStep ==
    \E n \in Lease :
        \/ \E k \in 0 .. MaxPart : AcceptPart(n, k)
        \/ FailAttempt(n)
        \/ ReserveCompletion(n)

CompletionStep ==
    \E r \in reservations :
        \/ \E shown \in SUBSET Artifact : FinalizeCompletion(r, shown)
        \/ RejectCompletion(r)

SweepStep ==
    \E L \in SUBSET Lease, W \in SUBSET Worker : ExpireWorkers(L, W)

BoundaryStep ==
    \E stale \in SUBSET {w \in Worker : PromotedReady(w)} :
        \/ \E mode \in PrimaryOnlyModes : BeginWindow(stale, mode)
        \/ RefuseWindow(stale)

LearnerStep ==
    \/ RequestLearnerReadyDrain
    \/ StartCommit
    \/ FinishCommit
    \/ FailCommit
    \/ AbortWindow
    \/ ReleaseParts

Next ==
    \/ WorkerStep
    \/ AttemptStep
    \/ CompletionStep
    \/ SweepStep
    \/ BoundaryStep
    \/ LearnerStep

Spec == Init /\ [][Next]_vars

(***************************************************************************)
(* Fairness.  A worker bounds its own collection and reports the end of    *)
(* every attempt, or its lease expires; the I/O loop drains every finished *)
(* projection; an idle worker keeps asking for work.  Nothing is assumed   *)
(* of the learner, of registrations or of new leases.                      *)
(***************************************************************************)

EndAttempt(n) ==
    /\ Live(n)
    /\ Current(n).state = "running"
    /\ ReserveCompletion(n) \/ FailAttempt(n) \/ ExpireWorkers({n}, {})

Fairness ==
    /\ \A n \in Lease : WF_vars(EndAttempt(n))
    /\ WF_vars(CompletionStep)
    /\ \A w \in Worker : WF_vars(RetryShard(w))

FairSpec == Spec /\ Fairness

=============================================================================
