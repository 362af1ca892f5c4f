-------------------------- MODULE RecurrentLeases --------------------------
(***************************************************************************)
(* Recurrent inference as actors and the inference server share it: the    *)
(* pool of immutable snapshots (runtime/model_lease.py), the router that   *)
(* pins a game-seat sequence to the snapshot of its first decode, with its *)
(* tombstones and its replay cache (rl/inference_snapshot_router.py), the  *)
(* server step that drains, orders and serves the request queue, and the   *)
(* actor's remote client, which retries the exact request it timed out on  *)
(* and drops what it no longer waits for (rl/inference_server.py).         *)
(*                                                                         *)
(* One policy id is modelled: the candidate's route, loaded from the start *)
(* and published to, or a frozen opponent's, whose load may be pending.    *)
(* An artifact identity is the version it was published under.             *)
(***************************************************************************)
EXTENDS Integers, Sequences, SequencesExt, FiniteSets, FiniteSetsExt, Functions

CONSTANTS
    Actor,           \* actor ids
    Seat,            \* game-seat sequences of one actor process
    FrozenRoutes,    \* the kinds of route explored: TRUE, a frozen opponent's
    MaxResident,     \* max_resident_snapshots
    MaxInFlight,     \* max_in_flight_leases
    MaxSequences,    \* max_recurrent_sequence_leases
    ReplayCapacity,  \* recurrent_replay_cache_capacity
    MaxBatch,        \* InferenceServerConfig.max_batch, in rows
    Retries,         \* RemoteInferenceConfig.response_retries
    VersionGap,      \* candidate_snapshot_min_version_gap
    MaxVersion,      \* bound: versions the learner publishes
    MaxIncarnation,  \* bound: restarts of an actor
    MaxRequest,      \* bound: requests of one actor process
    MaxBeforeRestart, \* bound: requests of a process that is replaced
    MaxQueue         \* bound: requests waiting for the server

\* A duplicate drained in one step with its original finds its answer, as
\* _serve_recurrent_decode_requests collapses the copies of one step.
ASSUME RecurrentAssumption ==
    /\ IsFiniteSet(Actor) /\ IsFiniteSet(Seat)
    /\ FrozenRoutes \subseteq BOOLEAN
    /\ {MaxResident, MaxInFlight, MaxSequences, ReplayCapacity, MaxBatch,
        VersionGap, MaxVersion} \subseteq Nat \ {0}
    /\ {Retries, MaxIncarnation, MaxRequest,
        MaxBeforeRestart, MaxQueue} \subseteq Nat
    /\ MaxBatch <= ReplayCapacity

VARIABLES
    router,      \* the snapshot pool and the router over it
    frozen,      \* the route is a frozen opponent's
    loaded,      \* the registry has the route
    queue,       \* the request queue the actors share
    lookahead,   \* requests the server took and put back
    batch,       \* requests of the server step that are still unserved
    incarnation, \* incarnation[a]: generation of the running actor process
    nextRequest, \* next_request_ids
    pending,     \* pending_payloads: request id -> request and attempts
    inbox,       \* the actor's response queue
    binding,     \* _recurrent_bindings: seat -> artifact
    closing,     \* seats whose decode failed or whose game is discarded
    ended        \* seats whose release or abort was acknowledged

serverVars == <<router, frozen, loaded, lookahead, batch>>
actorVars == <<incarnation, nextRequest, pending, binding, closing, ended>>
vars == <<serverVars, queue, actorVars, inbox>>

Unbound == 0     \* no artifact expected
Version == 1..MaxVersion
Key == [actor : Actor, incarnation : Nat, seat : Seat]

\* f with x at every point of D
Put(f, D, x) == [d \in D \cup DOMAIN f |-> IF d \in D THEN x ELSE f[d]]

KeysOf(q) == {[actor |-> q.actor, incarnation |-> q.incarnation, seat |-> s] :
                  s \in q.seats}
RequestKey(q) == <<q.actor, q.incarnation, q.id>>

-----------------------------------------------------------------------------
(* The pool and the router *)

\* resident[v] counts the leases of v; every resident but the current one is
\* retired, and an unleased retired snapshot is removed at once.
Keep(leases, current) ==
    Restrict(leases, {v \in DOMAIN leases : leases[v] > 0 \/ v = current})

Leased(r) == {v \in DOMAIN r.resident : r.resident[v] > 0}
CanPublish(r, v) == v > r.current /\ Cardinality(Leased(r)) < MaxResident

PublishedTo(r, v) ==
    [r EXCEPT !.current = v,
              !.resident = Keep([w \in DOMAIN @ \cup {v} |->
                                    IF w \in DOMAIN @ THEN @[w] ELSE 0], v)]

\* the entries of s that are in S, in their order
Only(s, S) == FoldLeft(LAMBDA t, x : IF x \in S THEN Append(t, x) ELSE t, <<>>, s)

\* Mutant: at capacity the newest entry goes.
Newest_Oldest(s) == SubSeq(s, 1, Min({Len(s), ReplayCapacity}))
\* The bounded memory of released keys: the newest are at the end.
Newest(s) == SubSeq(s, IF Len(s) > ReplayCapacity
                       THEN Len(s) - ReplayCapacity + 1 ELSE 1, Len(s))
Others(r, ks) == Only(r.tombstones, {t \in Range(r.tombstones) : t.key \notin ks})
Remember(r, ks, artifact) ==
    Newest(Others(r, ks) \o SetToSeq({[key |-> k, artifact |-> artifact[k]] : k \in ks}))
TombstoneOf(r, k) ==
    {t.artifact : t \in {u \in Range(r.tombstones) : u.key = k}}

\* Mutant: keys that are no longer held are counted as well.
Released_EveryKey(r, ks) ==
    LET held == ks \cap DOMAIN r.sequences
        of(v) == Cardinality({k \in held : r.sequences[k] = v})
    IN [r EXCEPT
           !.sequences = Restrict(@, DOMAIN @ \ held),
           !.inFlight = @ - Cardinality(ks),
           !.resident = Keep([v \in DOMAIN @ |-> @[v] - of(v)], r.current)]

\* Deletes the held keys among ks and releases their leases.
Released(r, ks) ==
    LET held == ks \cap DOMAIN r.sequences
        of(v) == Cardinality({k \in held : r.sequences[k] = v})
    IN [r EXCEPT
           !.sequences = Restrict(@, DOMAIN @ \ held),
           !.inFlight = @ - Cardinality(held),
           !.resident = Keep([v \in DOMAIN @ |-> @[v] - of(v)], r.current)]

\* Mutant: what the dead predecessor holds stays held.
Admitted_KeepsLeases(r, latest) ==
    LET newer == {a \in DOMAIN latest : latest[a] > r.generation[a]}
    IN [r EXCEPT !.generation = [a \in Actor |->
                     IF a \in newer THEN latest[a] ELSE @[a]],
                 !.replays = Only(@, {p \in Range(@) :
                     p.actor \in newer => p.incarnation = latest[p.actor]})]

\* One generation per actor of "latest": older leases and answers go. An actor
\* whose newest request is a dead predecessor's keeps its generation.
Admitted(r, latest) ==
    LET newer == {a \in DOMAIN latest : latest[a] > r.generation[a]}
        stale == {k \in DOMAIN r.sequences :
                      k.actor \in newer /\ k.incarnation # latest[k.actor]}
    IN [Released(r, stale) EXCEPT
           !.tombstones = Remember(r, stale, r.sequences),
           !.generation = [a \in Actor |->
               IF a \in newer THEN latest[a] ELSE @[a]],
           !.replays = Only(@, {p \in Range(@) :
               p.actor \in newer => p.incarnation = latest[p.actor]})]

Stale(r, q) == q.incarnation < r.generation[q.actor]
AdmittedFor(r, q) == Admitted(r, [a \in {q.actor} |-> q.incarnation])

Answer(q, ok, artifact) ==
    [actor |-> q.actor, incarnation |-> q.incarnation, id |-> q.id,
     kind |-> q.kind, seats |-> q.seats, ok |-> ok, artifact |-> artifact]
Error(q) == Answer(q, FALSE, Unbound)

Cached(r, q) == {p \in Range(r.replays) : RequestKey(p) = RequestKey(q)}
Stored(s, p) ==
    Newest(Append(Only(s, {o \in Range(s) : RequestKey(o) # RequestKey(p)}), p))

-----------------------------------------------------------------------------
(* The server: polls the weights, then runs one step *)

LoadRoute ==
    /\ ~loaded
    /\ batch = <<>>
    /\ loaded' = TRUE
    /\ UNCHANGED <<router, frozen, lookahead, batch, queue,
                   actorVars, inbox>>

\* Polls the weights directory, which holds whatever the learner wrote last.
Publish ==
    /\ batch = <<>>
    /\ ~frozen
    /\ \E v \in Version :
          /\ v - router.current >= VersionGap
          /\ CanPublish(router, v)
          /\ router' = PublishedTo(router, v)
    /\ UNCHANGED <<frozen, loaded, lookahead, batch, queue,
                   actorVars, inbox>>

Rows(s) == FoldSeq(LAMBDA q, n : n + Cardinality(q.seats), 0, s)
Reordered(s) == {[i \in DOMAIN s |-> s[p[i]]] : p \in SetToSeqs(DOMAIN s)}
\* Mutant: cleanup first, to make room for the decodes.
InOrder_CleanupFirst(s) ==
    {t \in Reordered(s) : \A i, j \in DOMAIN t :
        i < j /\ t[i].kind = "decode" => t[j].kind = "decode" /\ t[i].at < t[j].at}
\* fair_schedule_requests, the only one of these as no two were stamped alike
InOrder(s) ==
    {t \in Reordered(s) : \A i, j \in DOMAIN t : i < j => t[i].at < t[j].at}

\* What the drain reads: first what it put back, then the queue, each request
\* stamped when it is first taken (server_received_at).
Arriving ==
    LET newest == Max({0} \cup {lookahead[i].at : i \in DOMAIN lookahead})
    IN lookahead \o [i \in DOMAIN queue |-> [queue[i] EXCEPT !.at = newest + i]]

\* The newest generation each actor of the step speaks for.
Latest(taken) ==
    [a \in {q.actor : q \in Range(taken)} |->
        Max({q.incarnation : q \in {p \in Range(taken) : p.actor = a}})]

\* Requests of a route that is still loading go behind what was put back.
PutBack(taken) == IF loaded THEN <<>> ELSE taken

\* The drain stops when it is full, when it finds nothing more, or with one
\* request too large for the room left, which goes to the end of the lookahead.
MayTake(n, peeked) ==
    LET rows == Rows(SubSeq(Arriving, 1, n))
    IN /\ rows <= MaxBatch
       /\ \/ peeked = 0 /\ (n >= Len(lookahead) \/ rows = MaxBatch)
          \/ /\ peeked = 1 /\ n < Len(Arriving) /\ rows < MaxBatch
             /\ rows + Rows(<<Arriving[n + 1]>>) > MaxBatch

Drain ==
    /\ batch = <<>>
    /\ \E n \in 1..Len(Arriving), peeked \in 0..1 :
       \E taken \in InOrder(SubSeq(Arriving, 1, n)) :
         LET next == n + peeked + 1
         IN /\ MayTake(n, peeked)
            /\ lookahead' = SubSeq(lookahead, next, Len(lookahead))
                            \o SubSeq(Arriving, n + 1, n + peeked)
                            \o PutBack(taken)
            /\ queue' = SubSeq(queue, Max({1, next - Len(lookahead)}),
                               Len(queue))
            /\ batch' = IF loaded THEN taken ELSE <<>>
            /\ router' = IF loaded THEN Admitted(router, Latest(taken))
                         ELSE router
    /\ UNCHANGED <<frozen, loaded, actorVars, inbox>>

\* Answers the next request of the step from router r and remembers the answer.
Reply(r, answer) ==
    /\ router' = [r EXCEPT !.replays = Stored(@, answer)]
    /\ inbox' = [inbox EXCEPT ![answer.actor] = Append(@, answer)]
    /\ batch' = Tail(batch)
    /\ UNCHANGED <<frozen, loaded, lookahead, queue, actorVars>>

\* The same request again: its answer is sent again, and nothing runs.
ServeReplay ==
    /\ batch # <<>>
    /\ \E answer \in Cached(router, Head(batch)) : Reply(router, answer)

Serve(kind) ==
    /\ batch # <<>>
    /\ Head(batch).kind = kind
    /\ Cached(router, Head(batch)) = {}

CanBind(r, q) ==
    /\ Cardinality(DOMAIN r.sequences) + Cardinality(q.seats) <= MaxSequences
    /\ KeysOf(q) \cap DOMAIN r.sequences = {}
    /\ r.inFlight + Cardinality(q.seats) <= MaxInFlight

BoundTo(r, ks) ==
    [r EXCEPT !.sequences = Put(@, ks, r.current),
              !.inFlight = @ + Cardinality(ks),
              !.resident[r.current] = @ + Cardinality(ks),
              !.tombstones = Others(r, ks)]

Holds(r, q) ==
    \A k \in KeysOf(q) : k \in DOMAIN r.sequences /\ r.sequences[k] = q.expected

\* A first decode binds its sequences to the current snapshot; a later one must
\* name the snapshot they are bound to.
ServeDecode ==
    /\ Serve("decode")
    /\ LET q == Head(batch)
           r == AdmittedFor(router, q)
       IN \/ /\ Stale(router, q)
             /\ Reply(router, Error(q))
          \/ /\ ~Stale(router, q) /\ q.expected = Unbound /\ CanBind(r, q)
             /\ Reply(BoundTo(r, KeysOf(q)), Answer(q, TRUE, r.current))
          \/ /\ ~Stale(router, q) /\ q.expected # Unbound /\ Holds(r, q)
             /\ Reply(r, Answer(q, TRUE, q.expected))
          \/ /\ ~Stale(router, q)
             /\ IF q.expected = Unbound THEN ~CanBind(r, q) ELSE ~Holds(r, q)
             /\ Reply(r, Error(q))

\* Mutant: a second release of the same sequence is refused.
CanRelease_HeldOnly(r, q) ==
    \A k \in KeysOf(q) : k \in DOMAIN r.sequences /\ r.sequences[k] = q.expected

\* Every sequence is held or remembered under the artifact, or none is released.
CanRelease(r, q) ==
    \A k \in KeysOf(q) : IF k \in DOMAIN r.sequences
                         THEN r.sequences[k] = q.expected
                         ELSE TombstoneOf(r, k) = {q.expected}

ServeRelease ==
    /\ Serve("release")
    /\ LET q == Head(batch)
           r == AdmittedFor(router, q)
           ks == KeysOf(q)
       IN \/ /\ Stale(router, q)
             /\ Reply(router, Error(q))
          \/ /\ ~Stale(router, q) /\ CanRelease(r, q)
             /\ Reply([Released(r, ks) EXCEPT
                          !.tombstones = Remember(r, ks, [k \in ks |-> q.expected])],
                      Answer(q, TRUE, q.expected))
          \/ /\ ~Stale(router, q) /\ ~CanRelease(r, q)
             /\ Reply(r, Error(q))

\* An abort cannot name the artifact and accepts sequences that are not held.
ServeAbort ==
    /\ Serve("abort")
    /\ LET q == Head(batch)
           r == AdmittedFor(router, q)
           held == KeysOf(q) \cap DOMAIN r.sequences
       IN \/ /\ Stale(router, q)
             /\ Reply(router, Error(q))
          \/ /\ ~Stale(router, q)
             /\ Reply([Released(r, held) EXCEPT
                          !.tombstones = Remember(r, held, r.sequences)],
                      Answer(q, TRUE, Unbound))

-----------------------------------------------------------------------------
(* The actor *)

Waiting(a) == UNION {pending[a][id].request.seats : id \in DOMAIN pending[a]}
Idle(a) == Seat \ (Waiting(a) \cup ended[a])

Submit(a, kind, ss, artifact) ==
    /\ ss # {}
    /\ Cardinality(ss) <= MaxBatch
    /\ nextRequest[a] <= MaxRequest
    /\ Len(lookahead) + Len(queue) < MaxQueue
    /\ LET q == [actor |-> a, incarnation |-> incarnation[a],
                 id |-> nextRequest[a], kind |-> kind, seats |-> ss,
                 expected |-> artifact, at |-> 0]
       IN /\ queue' = Append(queue, q)
          /\ pending' = [pending EXCEPT
                 ![a] = Put(@, {q.id}, [request |-> q, attempts |-> 0])]
    /\ nextRequest' = [nextRequest EXCEPT ![a] = @ + 1]
    /\ closing' = IF kind = "decode" THEN closing
                  ELSE [closing EXCEPT ![a] = @ \cup ss]
    /\ UNCHANGED <<serverVars, incarnation, binding, ended, inbox>>

\* The rollout batches seats of one artifact.
Bound(a, ss, artifact) ==
    \A s \in ss : s \in DOMAIN binding[a] /\ binding[a][s] = artifact

SubmitFirst(a) ==
    \E ss \in SUBSET (Idle(a) \ (DOMAIN binding[a] \cup closing[a])) :
        Submit(a, "decode", ss, Unbound)

SubmitNext(a) ==
    \E ss \in SUBSET (Idle(a) \ closing[a]), v \in Version :
        Bound(a, ss, v) /\ Submit(a, "decode", ss, v)

SubmitRelease(a) ==
    \E ss \in SUBSET Idle(a), v \in Version :
        Bound(a, ss, v) /\ Submit(a, "release", ss, v)

\* Seats whose first decode was given up, with those that never had one.
SubmitAbort(a) ==
    \E ss \in SUBSET (Idle(a) \ DOMAIN binding[a]) :
        ss \cap closing[a] # {} /\ Submit(a, "abort", ss, Unbound)

\* The client waits for ids of its own process that are still pending.
Receive(a) ==
    /\ inbox[a] # <<>>
    /\ inbox' = [inbox EXCEPT ![a] = Tail(@)]
    /\ LET p == Head(inbox[a])
           mine == p.incarnation = incarnation[a] /\ p.id \in DOMAIN pending[a]
           unbound == DOMAIN binding[a] \ p.seats
       IN /\ pending' = IF mine
                        THEN [pending EXCEPT ![a] = Restrict(@, DOMAIN @ \ {p.id})]
                        ELSE pending
          /\ binding' = [binding EXCEPT ![a] =
                 CASE mine /\ p.ok /\ p.kind = "decode" ->
                          Put(@, p.seats, p.artifact)
                   [] mine /\ p.ok /\ p.kind = "release" -> Restrict(@, unbound)
                   [] OTHER -> @]
          /\ closing' = IF mine /\ ~p.ok /\ p.kind = "decode"
                        THEN [closing EXCEPT ![a] = @ \cup p.seats] ELSE closing
          /\ ended' = IF mine /\ p.ok /\ p.kind # "decode"
                      THEN [ended EXCEPT ![a] = @ \cup p.seats] ELSE ended
    /\ UNCHANGED <<serverVars, queue, incarnation, nextRequest>>

\* Nothing came in time: the exact request again, then it is abandoned.
Late(a, id) ==
    /\ id \in DOMAIN pending[a]
    /\ \A i \in DOMAIN inbox[a] :
          inbox[a][i].incarnation = incarnation[a] => inbox[a][i].id # id

Retry(a) ==
    \E id \in DOMAIN pending[a] :
        /\ Late(a, id)
        /\ pending[a][id].attempts < Retries
        /\ Len(lookahead) + Len(queue) < MaxQueue
        /\ queue' = Append(queue, pending[a][id].request)
        /\ pending' = [pending EXCEPT ![a][id].attempts = @ + 1]
        /\ UNCHANGED <<serverVars, incarnation, nextRequest, binding, closing,
                       ended, inbox>>

Abandon(a) ==
    \E id \in DOMAIN pending[a] :
        /\ Late(a, id)
        /\ pending[a][id].attempts = Retries
        /\ pending' = [pending EXCEPT ![a] = Restrict(@, DOMAIN @ \ {id})]
        /\ closing' =
              IF pending[a][id].request.kind = "decode"
              THEN [closing EXCEPT ![a] = @ \cup pending[a][id].request.seats]
              ELSE closing
        /\ UNCHANGED <<serverVars, queue, incarnation, nextRequest, binding,
                       ended, inbox>>

\* The supervisor replaces the process: its requests stay in the queue and its
\* answers in the response queue of the actor id.
Restart(a) ==
    /\ incarnation[a] < MaxIncarnation
    /\ nextRequest[a] <= MaxBeforeRestart + 1
    /\ incarnation' = [incarnation EXCEPT ![a] = @ + 1]
    /\ nextRequest' = [nextRequest EXCEPT ![a] = 1]
    /\ pending' = [pending EXCEPT ![a] = <<>>]
    /\ binding' = [binding EXCEPT ![a] = <<>>]
    /\ closing' = [closing EXCEPT ![a] = {}]
    /\ ended' = [ended EXCEPT ![a] = {}]
    /\ UNCHANGED <<serverVars, queue, inbox>>

-----------------------------------------------------------------------------
Init ==
    /\ router = [current |-> 1, resident |-> [v \in {1} |-> 0], inFlight |-> 0,
                 sequences |-> <<>>, generation |-> [a \in Actor |-> -1],
                 tombstones |-> <<>>, replays |-> <<>>]
    /\ frozen \in FrozenRoutes
    /\ loaded = ~frozen
    /\ queue = <<>> /\ lookahead = <<>> /\ batch = <<>>
    /\ incarnation = [a \in Actor |-> 0]
    /\ nextRequest = [a \in Actor |-> 1]
    /\ pending = [a \in Actor |-> <<>>]
    /\ inbox = [a \in Actor |-> <<>>]
    /\ binding = [a \in Actor |-> <<>>]
    /\ closing = [a \in Actor |-> {}]
    /\ ended = [a \in Actor |-> {}]

Server == Drain \/ ServeReplay \/ ServeDecode \/ ServeRelease \/ ServeAbort

\* A step of the server is one step for the actors: they append to a queue it
\* has already drained, and its answers are put when all of it is served.
Client(a) ==
    /\ batch = <<>>
    /\ \/ SubmitFirst(a) \/ SubmitNext(a) \/ SubmitRelease(a) \/ SubmitAbort(a)
       \/ Receive(a) \/ Retry(a) \/ Abandon(a) \/ Restart(a)

Next == LoadRoute \/ Publish \/ Server \/ \E a \in Actor : Client(a)

Spec == Init /\ [][Next]_vars

=============================================================================
