# Verification of ptcg_rl: collection, inference, workers, checkpoints and the league

`ptcg_rl` trains a card-game agent. Its learner collects games from remote
worker processes: a central *coordinator* opens a collection *window*, issues
*shard leases* to workers, retries failed *attempts*, accepts one result per
lease and commits the whole window to the learner. While games run, actors ask
an *inference server* for decisions; it pins each game-seat sequence to one
snapshot of the weights while the learner *publishes* newer ones through shared
memory. An *engine teacher* runs native code in a killable child. The learner
writes *checkpoint pairs* beside its training and resumes exactly from one after
a stop. Trained checkpoints then meet scripts and each other in a *continuous league*: a ledger
in SQLite queues matches, leases them to workers, rates the results and promotes
or rejects candidates. This directory holds TLA+ modules of these six, the TLC
runs that check them and the proofs TLAPS checks. Paths below are relative to
`src/ptcg_rl/` in the repository.

## Parts of the system

| Part | State | Operations | Properties that make it correct | Here |
|---|---|---|---|---|
| Window coordinator (`rl/native_distributed/coordinator.py`) | worker registry and pending sessions, window, frozen topology, shards with their attempts, drain flags, tombstones | register, ready, heartbeat/sweep, begin, retry, issue, part, fail, reserve/finalize/reject a completion, drain, commit, abort, release | one result per lease, exact commit, no attempt nobody tracks, drains settle, retries are not starved | `NativeCoordinator` |
| Service and I/O thread (`service.py`, `server.py`) | control/data routes, completion futures, `_receipt_delivered`, assignments | serve one message at a time, project completions, deliver the receipt | one answer per request, no worker aborted by a benign race, receipts observed | `NativeService` |
| Worker process (`worker.py`) | session, active attempt, part counter, channels | register, ready, ask for work, collect, upload, heartbeat, complete, report failure, settle | its counts agree with the coordinator's, it never waits for an answer nobody sends | `NativeService` |
| Learner side (`rl/stateless_training.py`, `training_backend.py`) | one window in flight | begin, wait, drain, commit or abort, wait for delivery, release | calls in a fixed order from one thread | the learner's actions of both modules |
| Contracts, codecs, transport (`contracts.py`, `messages.py`, `codec.py`, `transport.py`, ...) | none | encode, decode, send | identities survive the wire | records of the model |
| Quota and exposure scheduling (`quota_scheduler.py`, `exposure_schedule.py`) | remaining rows | choose rows of a shard | no row twice, exposures met | planned |
| League ledger (`evaluation/continuous_league/ledger.py`, `asset_ledger.py`, `database.py`) | tables of controllers, decks, bundles, matches, results, rating events, ratings | register, enable and disable, enqueue, lease, submit, rebuild; each one transaction | a match counts once, replay equals live ratings, finished rows stay, bundles follow their controllers | `LeagueLedger` |
| League scheduler (`scheduler.py`, `rating.py`) | none between its transactions but the chosen pair | evaluate candidates, cancel background, measure, choose, enqueue | nothing new for inactive bundles, target not exceeded, games for the gates counted once | `LeagueLedger` |
| League workers (`worker.py`, `worker_pool.py`) and HTTP routes (`coordinator.py`) | the lease and the result in hand | ask, play, post until answered; slots restart | every forced challenge finishes; the ledger sees only what it allows | `League` |
| League telemetry (`telemetry.py`) | shards on disk, cursor in the ledger | find the published cursor, write a shard, publish, advance | every result in exactly one shard, crash or not | `League` |
| League discovery, match execution, reports (`discovery.py`, `native_match.py`, `reporting.py`, ...) | files, a subprocess | scan, play, read | - | not modelled |
| Snapshot pool (`runtime/model_lease.py`) | current and retired snapshots, lease counts | publish, acquire, release, remove what is retired and unleased | a snapshot is resident exactly while it is current or leased, within the bounds | `RecurrentLeases` |
| Recurrent inference server and actor client (`rl/inference_snapshot_router.py`, `rl/inference_server.py`) | sequence leases, tombstones, replay cache, generations; request queue, lookahead; pending requests, bindings | drain, serve decode/release/abort, replay, publish, load a route; submit, retry, abandon, restart | a sequence keeps its artifact, a dead process pins nothing, retries are harmless, cleanup is safe in any order | `RecurrentLeases` |
| Inference publication (`rl/shared_weights.py`, `rl/shared_tensor_transport.py`, the poll of `rl/inference_server.py`) | shared segments with headers, layout files, a manifest; what each loader has read, and the snapshots its games hold | begin, copy, seal, advertise, commit, close, die; poll with its gate, bind, release | no loader uses a mixture, what is advertised stays readable, loaders catch up | `SharedWeights` implements `AtomicWeights` |
| Bounded workers (`rl/bounded_worker.py`, `rl/bounded_worker_runtime.py`, used by `rl/online_engine_teacher.py`) | the child and its socket, `_ready`, `_permanent_failure`, events of the supervisor thread, the prepare lock | prepare, execute, restart in the background, close; the child's loop | one child at a time, a channel in step, no stranded caller, close ends everything | `BoundedWorker` |
| Ordered preparation (`rl/ordered_preparation.py`), admission store and planner request ledger (`runtime/`) | queues | submit, take in order, close | order, no lost item, close ends | planned |
| Checkpoint pairs and exact resume (`rl/stateless_checkpoint.py`, parts of `rl/stateless_training.py` and `rl/stateless_curriculum.py`) | policy, learner and manifest files, `latest.json`, the curriculum state's file; the pair in flight on the publisher's thread | publish, settle, prune; resume, reconcile | the newest pair can be resumed wherever the process stopped, nothing settled is lost, no leftover blocks the replay | `StatelessCheckpoint` |
| The legacy learner's writer and pairs (`rl/durable_writer.py`, `rl/checkpoint_pair*.py`) | files and a manifest | write, replace, publish | some complete generation is always readable | not modelled |
| Opponent pool (`rl/opponent_pool/`) | pool state and plans | plan, commit | a plan is committed once against the state it was made for | planned |
| Launcher, dispatch, dashboard jobs, replay store, legacy HTTP collection | processes, files, SQLite queues | - | - | not modelled, see below |
| Model, PPO, learner numerics, belief, cards, data, C++ engine adapters | tensors | - | - | not modelled: numerical code without protocol state |

How they interact. A worker speaks to the service over three ZeroMQ channels
(control, data, artifact); the service's I/O thread turns each message into
calls of the coordinator, which holds one lock per call. The learner thread
calls the coordinator directly for drain, commit and abort, and through a
command queue for window begin and delivery checks. Completions are projected
on an executor thread and finalized by the I/O thread. Time enters through
sweeps (`expire_workers` runs first in every message) and the learner's
timeouts.

The learner thread hands a pair to the checkpoint publisher's one background
thread and goes on collecting; it waits for that thread, replaces the curriculum
file and prunes before it next changes the weights. Nothing but the directory is
left when the process stops, and an operator starts it again on a manifest.

In the league, workers and operators reach one FastAPI process by HTTP; each
request is one immediate SQLite transaction, and the process runs the scheduler
and the exporter as loops of their own, so that their several transactions
interleave with everybody's requests. Nothing is pushed to a worker: it polls,
and a lease is only missed when it expires.

Actors and the inference server share one request queue and a response queue per
actor id; the server alone touches the snapshot pool. Publisher and loaders are
different processes with a directory and shared segments between them and no
lock. The teacher's calling thread and its supervisor thread share the worker
object under `_prepare_lock`, and speak to the child over one socket pair.

What is hard: a worker restarts in the middle of a window; a lease or a
heartbeat expires while its completion is being projected; late messages of a
discarded attempt; a projection that ends in the next window; the commit
callback without the lock; a work request that takes several calls of the
coordinator with the learner in between; lost and late replies; league results
that are repeated, or posted for a lease somebody else holds by now; a pair
chosen in one transaction and queued in a later one; a crash between publishing
a shard and saving the cursor. An exact request sent again after a timeout, its
copies served in one step or far apart; requests of a dead actor process; a slot
overwritten while it is read; a child that hangs, crashes, answers late or
survives SIGKILL while two threads decide about its successor. A learner that
stops between any two file operations, its background thread at another one,
and is resumed from a manifest that need not be the newest. `PROJECT.json`
lists every hazard at its line with the properties that cover it.

## Modules

| Module | What it is |
|---|---|
| `WindowContract` | The abstract specification: what the learner relies on. A window opens empty, gains one outcome per lease, hands all of them over at once, then commits exactly those, takes the offer back, or aborts. |
| `NativeCoordinator` | The coordinator, one action per critical section of its lock. |
| `NativeCoordinatorProperties` | Its type invariant, safety, action and liveness properties, and the refinement of `WindowContract`. |
| `NativeService` | Extends `NativeCoordinator` with the worker processes, four channels per worker, the I/O thread and the learner thread. |
| `NativeServiceProperties` | What service and workers promise each other, and the refinement of `NativeCoordinator`. |
| `NativeCoordinator_proofs` | Proofs of the coordinator's types, of its safety and action properties, and that it implements `WindowContract`. |
| `NativeService_proofs` | Proofs of what service and workers promise each other, and that they implement `NativeCoordinator`. |
| `LeagueLedger` | The league's tables, one action per transaction, and the scheduler's pass as several. It bounds nothing about its callers: any lease may be asked for, any result of a granted lease posted, at any time. |
| `LeagueLedgerProperties` | What the tables promise, whoever calls in what order. |
| `League` | Extends `LeagueLedger` with workers, requests that time out, and the exporter. |
| `LeagueProperties` | Types, shards and liveness, and the refinement: the league implements `LedgerSpec`. |
| `RecurrentLeases` | The snapshot pool, the router over it, the server's step and the actors' client, with requests that are late, repeated, abandoned, reordered or of a dead process. |
| `RecurrentLeasesProperties` | What actors rely on: leases that balance, one owner, the artifact they were told, safe cleanup and retries. |
| `RecurrentLeases_proofs` | Proofs that leases balance, sequences have one owner and keep their artifact, cleanup stays done and retries are not refused. |
| `AtomicWeights` | The abstract specification of hot serving: newer and newer versions are advertised, a loader goes from one whole version to a newer one. |
| `SharedWeights`, `SharedWeightsProperties` | Publication through reusable shared-memory slots, tensor by tensor, to serving processes that let some versions pass, and its refinement of `AtomicWeights`. |
| `BoundedWorker`, `BoundedWorkerProperties` | The killable child with the caller's and the supervisor's thread. |
| `StatelessCheckpoint`, `StatelessCheckpointProperties` | Checkpoint pairs on disk, the learner's thread and its publisher's, stops and exact resumes. |
| `StatelessCheckpoint_proofs` | Proofs that every stop leaves something to resume and that settled pairs stay. |
| `SharedWeights_proofs`, `BoundedWorker_proofs` | Proofs of the publication's refinement; of the worker's three invariants. |
| `LeagueLedger_proofs`, `League_proofs` | Proofs of the ledger's invariants and that its ratings are a replay of its events; of the refinement and of the shards. |
| `MCNativeCoordinator`, `MCNativeService` | What TLC needs beyond the specifications: the symmetry of the workers. |
| `MCLeagueLedger`, `MCLeague` | Finite assets for TLC: controllers, their kinds and the pairs they declare. |
| `MCRecurrentLeases`, `MCSharedWeights`, `MCBoundedWorker`, `MCStatelessCheckpoint` | The modules TLC runs on the other four; their configurations give all constants. |

Operators named `X_Something` right before an operator `X` are what a plausible
mistake would make of `X`; no specification uses them. Each property is shown
to fail when its mutant takes `X`'s place, so each says something of the code.

### Coordinator: state and actions

`registry` is `_workers`/`_pending_workers` (session 0 is "absent"), `topology`
the sessions frozen by `begin_window`, `phase` the window and its receipt.
A lease is a number in the order of `shard_sequence_id`; `attempt[n][k]` is its
k-th attempt and `tries[n]` the length of `shard.attempts`. A part carries one
decision row, and `term` counts the rows of games already over. A completion is
a member of `reservations` from `reserve_attempt_completion` until it is
finalized or rejected, possibly windows later.

| Action | Code |
|---|---|
| `RegisterWhileCollecting`, `RegisterAtBoundary`, `MarkReady` | `register_worker`, `mark_ready` |
| `ExpireWorkers(L, W)` | `expire_workers`: leases `L` ran out, then workers `W` |
| `BeginWindow`, `RefuseWindow` | the two outcomes of `begin_window` |
| `AcknowledgeDiscards`, `RetryShard`, `IssueShard` | a work request: tombstones, `retryable_lease`+`retry_shard`, `select_capacity_tier`+`issue_shard` |
| `AcceptPart`, `FailAttempt`, `ReserveCompletion` | the data plane and the end of an attempt |
| `FinalizeCompletion`, `RejectCompletion` | `_drain_completion_futures` |
| `RequestLearnerReadyDrain`, `StartCommit`, `FinishCommit`, `FailCommit`, `AbortWindow`, `ReleaseParts` | the learner; commit is two critical sections with the callback in between |

Left out of the data: rows' contents, tiers and their credit (which only make
the coordinator refuse more often), EWMA yields, diagnostics, clocks (any lease
or heartbeat may expire at any sweep) and manifests.

### Service: state and actions

`at[w]` is the answer a process waits for. `requests`, `replies`, `uploads` and
`acks` are FIFO channels. `chosen` is the lease the I/O thread has picked and
not yet started: `ChooseLease` and `StartChosen` are separate because nothing
locks the coordinator between them, so the learner may drain, commit or abort in
between; `ChosenRefused` is what `_work_response_or_settled` makes of it.
`delivered` is `_receipt_delivered` and `heard[w]` the last receipt the process
has read. `Late` lets a wait time out when nothing can end it, and at most
`MaxFaults` times while its answer is under way; `DropReply` loses one.
A process may crash in any state and start again with a new session.

### League: state and actions

A match is its number in the order of `created_at`, a result its `result_seq`,
a rating event its `event_seq`; `match_id`s are never reused. A bundle is the
pair of its controller and deck. `live` says that a leased match's
`lease_expires_at` lies ahead, and may become false at any moment. A component's
rating is the sequence of the events that moved it, which tells apart any two
orders and omissions; `mu` and `sigma` are a function of it. A component on both
sides of a match keeps its estimate and counts the game.

| Action | Code |
|---|---|
| `RegisterDeck`, `RegisterController`, `SetControllerActive` | `asset_ledger.py`: rows, backfilled bundles, their flags, withdrawn matches |
| `ForceChallenge`, `EnqueueChosen` | `enqueue_match`, of an operator and of the scheduler |
| `LeaseExpires`, `Grant`, `GrantNothing` | time passing, and the two outcomes of `lease_match`, which first queues again what ran out |
| `SubmitResult` | `submit_result`: recorded and rated; repeated, which changes nothing; or refused, which is rolled back |
| `RebuildRatings` | `rebuild_ratings` |
| `EvaluateCandidates`, `MakeRoom`, `MeasureQueue`, `Choose...`, `EnqueueChosen`, `EnqueueRefused` | `fill_queue`, one action per transaction; `scheduler` is where the pass has come |
| `AskForWork`, `AskTimesOut`, `HandleLateAsk` | `LeagueWorker._lease`; a request whose answer is lost may still be handled and then strands its lease |
| `Play`, `PostIsTaken`, `PostIsRefused`, `PostTimesOut`, `HandleLatePost` | `_execute` and `_submit_result` |
| `WorkerCrashes`, `WorkerRestarts` | a process dies, the pool starts its slot again |
| `ReadResults`, `PublishShard`, `AdvanceCursor`, `CoordinatorRestarts` | `export_available` with its crash windows |

Abstracted in the data: how pairs are scored (any eligible pair may be chosen),
the promotion probability (any verdict its early and final gates allow), which
side a bundle sits on, payloads of results (two differ if attempt or outcome
do), and priorities other than the scheduler's and a challenge's. Left out: the
declared decks of a controller are fixed from the start, an asset is registered
once, and a worker that is not quiet, which only records a heartbeat.

### Recurrent inference: state and actions

`router` is one record: `current` and `resident` (lease counts) of the snapshot
pool, `inFlight`, `sequences` (key to artifact), `generation` per actor,
`tombstones` and `replays` in their order of eviction. An artifact is the
version it was published under. `batch` is what the running server step has
still to serve: while it is not empty no actor moves, because requests that
arrive later are not seen by this step and answers are put when it ends.
`lookahead` and `queue` are what the server took and put back, and what it has
not taken.

| Action | Code |
|---|---|
| `Publish`, `LoadRoute` | the server's poll of the weights; `ModelSnapshotPool.publish` with its removal of retired snapshots; a frozen opponent's route becomes available |
| `Drain` | `_drain_requests` with its one-request lookahead, the order by arrival, `_defer_requests_for_pending_policies`, and the admission of newer generations |
| `ServeReplay`, `ServeDecode`, `ServeRelease`, `ServeAbort` | the replay cache; `decode` with first binding or exact artifact; `release_recurrent_sequences`; `abort_recurrent_sequences` |
| `SubmitFirst`, `SubmitNext`, `SubmitRelease`, `SubmitAbort` | the client's calls, as the rollout makes them |
| `Receive`, `Retry`, `Abandon`, `Restart` | an answer, the exact request again, `_abandon`, and a new process of the actor |

Abstracted: one policy id; numerics and sampling (a sampler that raises is not
modelled); answers are taken as soon as they are received; equal timestamps; a
request larger than a batch, which `Submit` excludes; the order of tombstones of
one batch is arbitrary; a route whose load failed.

### Weight publication: state and actions

`memory[<<layout, slot>>]` is a segment with its header; an odd `sequence`
marks a write under way. `linked` and `files` are the names that can still be
attached and opened. Of a serving process, `loaded` is both the version its
router serves and the loader's cursor, and `held` are the versions whose
snapshots its games hold leases on; a lease pool is modelled in full by
`RecurrentLeases`, here it is what may stand in the way of a publication.

| Action | Code |
|---|---|
| `Begin`, `CopyTensor`, `Seal` | `SharedTensorPublisher.write`: new slots for a new layout, odd header, the tensors, even header |
| `Advertise`, `Commit` | the manifest's atomic replacement; `commit()`, which unlinks retired layouts |
| `Close`, `Unlink`, `Die` | `close()` in its order, and a learner that ends anywhere in `publish` |
| `Bind`, `Release` | a game takes a lease on the snapshot served now; the last lease on a snapshot is given back |
| `Peek` | `_poll_latest_snapshot` up to its gate: `latest_version()`, then `_snapshot_version_is_ready` (`IsReady`), which lets a version pass that is less than `candidate_snapshot_min_version_gap` ahead or does not fit beside the leased snapshots (`can_publish`) |
| `ReadManifest`, `ReadLayout`, `Attach`, `CheckHeader`, `ReadTensor`, `Finish` | `poll_state_dict()`, which reads the manifest again, and the publication to the router; every missing file ends it until the next poll |

A failed `publish` ends the training process and is `Die`. Writes of one process
become visible in their order (x86), a header is written in one step, and the
legacy serialized transport is not modelled. `latest_version()` is read outside
the loader's `try` and may meet a `close()`; nothing promises otherwise. One
thread polls and serves requests in turn (`training.py`, the loop around
`registry.sync` and `run_inference_server_step`), so leases do not move during a
poll, and the pool's own refusal in `publish` cannot follow a gate that was
passed. The poll of a mutable model (`poll_latest_weights` without a router),
which has no gate, is not modelled.

### Bounded worker: state and actions

`caller` and `supervisor` say where the two threads are, `holder` which of them
keeps `_prepare_lock` between steps. `child[c]` is a process with its state and
both ends of its socket; a child that was killed and not reaped is `dying`.
Identities are used again once reaped.

| Action | Code |
|---|---|
| `PrepareRefuses`, `PrepareReuses`, `PrepareSpawns`, `SpawnRefused`, `SpawnTooLate`, `Spawn`, `BecomesReady`, `StartupFails` | `prepare()`, by either thread |
| `Enter`, `Count`, `Wake`, `Renew` | `_background_prepare`, `_permanent_failure` after `max_startup_attempts` |
| `Ask`, `Batch`, `NextRequest` | `produce_batch` of the teacher |
| `Execute`, `BrokerCall`, `WorkResult`, `Breaks`, `Kill`, `Finally`, `ReapStopped` | `execute()`: the message loop, deadlines, `_terminate_and_reap`, the `finally` clause |
| `RestartInBackground` | `restart_in_background()` |
| `Close`, `CloseWithoutLock`, `Shutdown`, `Join`, `StopSupervisor` | `close()` |
| `Initialize`, `Receive`, `CallBroker`, `Finish`, `Die` | `worker_main` and the end of a process |

A deadline may expire whenever a thread waits under one.

### Checkpoint pairs: state and actions

`policies`, `learners` and `manifests` are the files by kind. A policy file is
its version and the start of the process (`run`) that computed it, because a
replay reaches the same version with other bytes. A sidecar and the manifest
that names it are a *pair*: its policy, the curriculum `state` it froze and the
`predecessor` the curriculum file held then. `external` is that file, `live` the
controller's state and `persisted` what it takes the file to be. `step` is where
the learner's thread is, `job` and `stage` the pair in flight on the publisher's
thread and its progress. `doomed` are the files a cleanup has chosen and not yet
unlinked: `Unlink` removes one at a time, in the order of the code's loops, so
that the process can stop in the middle.

| Action | Code |
|---|---|
| `PublishPolicy` | `publish_verified_stateless_policy_checkpoint`, with the refusal of other bytes under the same name |
| `Submit` | the publication block of the training loop: choose an admission, freeze, `publisher.submit`, `commit_past_self_admission`; also the initial pair |
| `WriteLearner`, `WriteManifest`, `WriteLatest` | `publish_stateless_checkpoint_pair`, file by file, on the background thread |
| `CommitWindow`, `Update` | the outcomes of a window enter the curriculum in memory; `learner.update` |
| `Settle`, `Unlink`, `Pruned` | `_settle_pending_checkpoint`: the barrier, the compare-and-replace of the curriculum file, `prune_stateless_checkpoint_pairs` |
| `Crash` | the process stops anywhere, an exception of either thread included |
| `Resume` | load the named manifest; `_require_external_curriculum_state`, which rolls the file forward |
| `Reconcile`, `RefuseResume`, `Unlink`, `Restart` | `reconcile_stateless_resume_artifacts`, and the controller that loads its state and verifies the members' files |
| `FreshDirectory` | a directory without a published pair is given up for another one |

Abstracted in the data: the curriculum state is the process and number of its
last window, its past-self members and whom it ever admitted; statistics, leases,
members still retiring and anchors outside the directory are projected out.
Whether an admission takes the current policy or one of the archive, and whom it
retires, is any choice that scores and age buckets could make. The budget counts
updates, not decisions. Windows are those of the native distributed backend,
where outcomes are committed before the barrier. A file is written by an atomic
rename, so a name has the whole content or none; the curriculum's pointer and
its payload are one file. The process stops, the machine does not: what was
renamed is there. Only exact resume and fresh starts are modelled, not lineage
transitions or weights-only starts.

## Runs

| Run | Question | Instance |
|---|---|---|
| `windows` | do attempts, sessions and workers stay consistent over restarts and windows, and does the coordinator implement `WindowContract`? | 2 workers with 2 sessions each, 1 lease, 2 tries, 2 windows |
| `live` | do results add up, do target and drains close the window; do drains settle, completions resolve, retries happen? | 2 workers, 2 leases, 2 tries, high water 1, an artifact to expose; no symmetry, it is unsound for liveness |
| `service` | is every message answered once, does an abort or commit between two calls hurt? | 1 worker with 2 sessions, 2 leases, 2 windows, aborts race |
| `faults` | do worker, channels and I/O thread implement `NativeCoordinator` with a late or lost reply, does delivery still end? | 1 worker with 2 sessions, 2 leases, target 2, one fault, drains race, planning may fail |
| `league_ledger` | do the tables stay consistent under any order of calls and the scheduler's pass? | an automatic checkpoint with 2 decks and a manual one with 1, 2 matches of 2 leases, queue target 1, games 1 to 2 |
| `league` | do workers, lost requests, crashes and the exporter keep to the ledger, and does everything finish? | 1 worker, 1 controller with 2 decks, 2 matches, 2 faults, shards of 1 row; the scheduler is off |
| `recurrent` | do leases balance, does a sequence keep its artifact, are retries, restarts and late answers harmless? | 1 actor with 2 seats and 2 processes, 3 requests each (1 of the replaced one) with one retry, 3 versions, 2 residents, 2 leases, replay cache 2, frozen and loaded routes |
| `weights` | is a publication atomic, is the advertised slot readable, does a process that lets versions pass catch up? | 1 serving process, 2 tensors, 2 slots, 5 versions, 2 layouts, gap 2, 2 resident snapshots |
| `worker` | one child, a channel in step, the right one killed; do warming and closing end? | 3 child identities, 2 start-up attempts, work ids modulo 3 |
| `checkpoint` | can the newest pair be resumed wherever the process stops, is nothing settled lost, does the training reach its budget? | 6 updates, a pair every 3, a milestone every 4, admissions from 2 on, keep 2, 1 member, 3 stops, reentry |
| `drain_race`, `late_bind` | the two findings below | 1 worker; 1 actor with 3 seats on a frozen route |

Bounds. `MaxSession`, `MaxLease`, `MaxPart`, `MaxWindow` and `MaxFaults` bound
what the code does not. Two sessions are a restart; two tries are a retry and an
exhausted budget; two leases are a result and a tail; two windows are a
completion that outlives the window it was reserved in; two workers are a race
for one lease and a replacement worker. Every action, and every disjunct of one,
is taken in some run. In the league, two matches are an order of results, events
and priorities, two leases of a match are a result posted by the holder of the
earlier one, and a controller with two decks can play itself; four leases in
`league` leave room for every lease its two faults can waste. The refinement and
the proofs carry what `league_ledger` shows to the composed system, so `league`
needs no scheduler of its own. No instance has anchors, so the gate that counts
games against them stays closed. `Worker` is a symmetry set where only safety is
checked.

In `recurrent`, two seats fill both lease bounds and the batch, three requests
are a decode, its successor or cleanup and one more that evicts an answer from
the replay cache of two; two processes are a restart with requests of the dead
one still queued; three versions are a pinned, a retired and a current snapshot
with room for two. In `weights`, two tensors are the least that can be mixed,
five versions in two slots overwrite what a slow loader reads, two layouts
retire one. Serving processes read what the publisher writes and write nothing
shared, so one is enough. With a gap of two, five versions are two loads and a
last version that may be within the gap of the one served or beyond it; games that keep the
initial snapshot and a later one fill the two places and block the next load
until one of them ends. The proofs carry both to any size. In `worker`, three identities let
a dying, an ending and a new child exist at once; work ids matter only by being
different from the last one or two. In `checkpoint`, the schedule has versions
published for each of its four reasons; six updates with two kept pairs prune
both ordinary and orphaned files; one member with reentry retires a member and
brings an older one back; three stops are an interrupted publication, an
interrupted cleanup after it and one more. It ends at its budget, so deadlock is
not checked there; `TrainingFinishes` says that it ends nowhere else.

Fairness. `FairSpec` of the coordinator assumes that a running attempt ends (the
worker bounds its own collection and reports, or its lease expires), that the
I/O loop answers finished projections, and that an idle worker goes on asking
for work: these are the loops of `worker.py` and `service.py`. `FairServiceSpec`
assumes that the I/O thread serves each worker's channels, that a process that
runs takes its next step, and that the heartbeat of a dead one expires. Nothing
is assumed of the learner, of restarts or of new leases. `FairLeagueSpec`
assumes that each worker's loop goes on, the pool's restart of a dead slot
included, that the export loop goes on (`_telemetry_loop` catches every
exception), and that a lease that runs expires. Nothing is assumed of operators,
of the scheduler or of late requests. For the weights, a publication that has
begun goes on (one thread, straight-line code), every serving process keeps
polling (its serving loop polls before each step), and a snapshot that is no
longer served loses its leases: games end, and a release is asked for again
until it is acknowledged, or a new process of the actor frees what the old one
held. That last assumption excludes the leak of `late_bind`, which would fill the
pool for good. It is needed: without it `LoadersCatchUp` is violated. The lease on the snapshot
served now needs no such assumption, since with two places
(`recurrent_max_resident_snapshots` is at least 2) it leaves one free; a pool of
one, which only the planner's configuration admits
(`planner_runtime_identity.py:235`), catches up only when no game is bound.
What is promised is not the last version but one within the gap of it: a
publisher that stops less than the gap ahead leaves the process where it is.
Nothing says that a further publication begins, or that none does. For
the worker, the caller keeps stepping once it has called and calls again until
it closes, and the supervisor thread runs; every wait of either has a deadline.
Nothing is assumed of the children, which may hang or die anywhere. For the
checkpoints, the two threads of a running process go on, stops are finitely many
(`MaxCrash`), and an operator who keeps starting the process tries the newest
manifest again and again (strong fairness, since other choices, which the code
refuses, come between); without any manifest they take a fresh directory.

## Findings

1. `drain_race`: when the learner's drain falls between the choice of a lease
   and its start, `issue_shard` (or `retry_shard`) raises, no receipt exists,
   and the work request is answered with an abort that ends the worker
   (service.py:804-806, worker.py:350-355). The comment at service.py:799-803
   calls the same race with a commit benign. Rows taken from the quota
   scheduler for that lease are not given back.
2. `late_bind`: "Missing leases are accepted to make cleanup safe when decode
   failed before binding" (inference_snapshot_router.py:315). While a frozen
   route loads, requests of that route are put back behind the one the drain
   had set aside before (inference_server.py:4944): an abort may be served before
   the copy of the decode it cleans up after, which then binds a lease that
   nobody releases until the actor's process is replaced.

Smaller observations are hazards or remarks, not findings: the code promises
nothing of them, or only what a comment hopes for.

- `retry_shard` does not ask whether the window still collects, so an abort just
  before it starts an attempt in the aborted window (hence `AbortRaces = FALSE`
  in `faults`, which checks the refinement of a coordinator that would refuse).
  That attempt is a live one at the boundary (`NothingRunsAtBoundary`,
  `ActiveIsLive` do not hold of it); it can take no part and complete nothing, and
  the next window forgets it. `ServiceKeepsContract` and `PartsAreCounted` are
  proved with it. A window that could not be planned inherits the deliveries of the
  one before. A learner that waits for the high-water drain may wait for its
  window's timeout.
- A worker that sent a part takes any drain message for the answer to it, of
  whichever attempt (worker.py:662-669: "The attempt is discarded server-side"). A
  drain that comes late stops a live attempt with its part still on the way, and
  the lease waits for its timeout; `CountsAgree` speaks of workers that are not
  stopping (`~discarding[w]`).
- A reply that comes after a timeout is taken for the answer to the next
  request, and a receipt counts as delivered when the reply is composed, whether
  or not it can be routed: `faults` includes both, and shows that counts agree
  and deliveries end nevertheless.
- A league worker whose result is refused (somebody else's was recorded first,
  or the match was cancelled while its lease had run out) ends with an exception
  and its slot is started again. A match that was leased when its controller was
  disabled is queued again when the lease expires, and is played although its
  bundle is inactive.
- After a kill that could not be reaped the bounded worker stays not ready: its
  callers may be told "warming" for good, a later `prepare()` takes the dying
  child as it is, and a `close()` that raises in its join leaves the supervisor
  parked. `ChannelIsInStep`, `KillsItsOwn`, `WarmingEnds` and `CloseEnds` exempt
  that state by name (`unreaped`); `OneChild` does not.
- "Warm a replacement without blocking an actor step" (bounded_worker.py:264):
  `ready` takes the lock that `prepare()` holds while a replacement starts, so
  a question of the actor in that time waits for the start-up.
- `produce_batch` calls `restart_in_background` outside its `try`
  (online_engine_teacher.py:208-209), so a permanent failure is raised to the
  caller there.

## Proofs

Proved for every set of workers and every value of the bounds, from the
assumptions `QuorumAssumption`, `BudgetAssumption` and `BoundAssumption`, the
service's also from `WireAssumption`; the
league's, for every set of assets and workers and every bound, from
`AssetAssumption`, `GateAssumption` and `LeagueAssumption`; the publication's,
for any loaders, tensors, slots from two, versions and layouts, from
`WeightsAssumption`; the worker's, for any set of child identities, attempts and
work ids, from `WorkerAssumption`; the checkpoints', for any budget, schedule,
retention, capacity and number of stops, from `CheckpointAssumption`; the
router's, for any actors, seats, capacities, restarts and requests, from
`RecurrentAssumption`:

| Theorem | Statement |
|---|---|
| `TypeCorrect` | `Spec => []TypeOK` |
| `ActiveAttemptsAreLive` | `Spec => []ActiveIsLive` |
| `BoundaryIsQuiet` | `Spec => []NothingRunsAtBoundary` |
| `CommitIsExact` | `Spec => []CommitsWhatItHanded` |
| `CompleteWindowStays` | `Spec => CompleteWindowIsImmutable` |
| `LeasesCountOnce` | `Spec => []ResultsAddUp` |
| `TargetCloses` | `Spec => []TargetClosesWindow` |
| `ContractIsKept` | `Spec => KeepsContract`: `NativeCoordinator` implements `WindowContract` |
| `ServiceRefinesCoordinator` | `ServiceSpec => RefinesCoordinator`, when a retried shard finds its window still collecting (`~AbortRaces`) |
| `ServiceKeepsContract` | `ServiceSpec => KeepsContract /\ [](ResultsAddUp /\ TargetClosesWindow /\ CommitsWhatItHanded /\ (Collecting => ActiveIsLive))`, whenever the learner aborts: it may rely on the contract with the processes in between |
| `PartsAreCounted` | `ServiceSpec => []CountsAgree`, whenever the learner aborts |
| `RequestsAreAnswered` | `ServiceSpec => []EveryRequestIsAnswered`, when no reply is late or dropped (`MaxFaults = 0`) |
| `NoLeaseIsOrphaned` | `ServiceSpec => []NoOrphan`, under the same condition |
| `RowsAreOfTheirSchema` | `LedgerSpec => [](RowsOK /\ SchedulerOK)` |
| `BundlesFollow` | `LedgerSpec => []BundlesFollowController` |
| `UntriedAreActive` | `LedgerSpec => []UntriedMatchesAreActive` |
| `CountsOnce` | `LedgerSpec => []ResultCountsOnce` |
| `FinalStaysFinal` | `LedgerSpec => HistoryIsFinal` |
| `QueueStaysWithinTarget` | `LedgerSpec => []QueueWithinTarget` |
| `QueueStaysSound` | `LedgerSpec => []QueueIsSound` |
| `CandidateGames` | `LedgerSpec => []CandidateGamesAddUp` |
| `ReplayGivesRatings` | `LedgerSpec => []RatingsAreReplayable` |
| `LeagueRefinesLedger` | `LeagueSpec => RefinesLedger` |
| `LeagueCountsOnce` | `LeagueSpec => []ResultCountsOnce /\ HistoryIsFinal` |
| `ShardsTile` | `LeagueSpec => [](LeagueTypeOK /\ ShardsTileResults)` |
| `LeasesBalance` | `Spec => []PoolIsBalanced` (of `RecurrentLeases`) |
| `SequencesHaveOneOwner` | `Spec => []OneOwner` |
| `CleanupStaysDone` | `Spec => []EndedStaysReleased` |
| `BoundArtifactServed` | `Spec => []BoundArtifactIsServed`, when the memory of released sequences has room (`Roomy`) |
| `NeverAnotherArtifact` | `Spec => [](...)`, however small that memory is: a bound sequence is held or remembered under no other artifact than its own |
| `RetriesSafe` | `Spec => []RetriesAreSafe`, when that memory has room and each sequence of the running processes has a lease (`Roomy`, `Large`) |
| `AdvertisedStaysReadable` | `Spec => []AdvertisedIsReadable` (of `SharedWeights`) |
| `LoadsAreWhole` | `Spec => []LoadedIsWhole` |
| `PublicationIsAtomic` | `Spec => IsAtomic`: `SharedWeights` implements `AtomicWeights` |
| `OneChildAtATime` | `Spec => []OneChild` (of `BoundedWorker`) |
| `ChannelStaysInStep` | `Spec => []ChannelIsInStep` |
| `CallersKillTheirOwn` | `Spec => []KillsItsOwn` |
| `IsRecoverable` | `Spec => []Recoverable` (of `StatelessCheckpoint`) |
| `SettledIsKept` | `Spec => SettledProgressIsKept` |

The coordinator's argument. `ActiveIsLive` is not inductive: that a worker's record names a
live attempt survives a failure only if no other worker names the same attempt
and no other attempt of the lease runs. The inductive invariant `IInv` adds
to `TypeInv` that only a lease's last attempt may run (`OneLive`), that a live
lease has neither result nor discard (`LiveIsOpen`), that leases not
issued are blank (`UnissuedIsBlank`), that workers' records and live attempts
name each other (`ActiveIsLive`), and `CommitsWhatItHanded`. With it, a window
that is ready to commit has no live attempt, so no completion, failure, part or
sweep can touch its outcomes: that is `CommitIsExact`, and its step form
`CompleteWindowStays`.

The coordinator adds up over sets of leases. The prover has no induction, so the
proofs make their own: of the numbers that break a statement there is a least
one (`LeastNatural`), of the finite sets that break it a smallest
(`SmallestSubset`); taking an element from it gives one that does not
(`SumExists`, then what a sum gains, keeps and bounds). `ResultInv` says that
every counter is the sum over the leases with a result and that a lease counts
in the window that owns it. `TargetClosesWindow` follows since only a step that
adds a result moves the total and the same step closes the window. For
`ContractIsKept` each action of the coordinator is one of the contract's or a
stutter, `OutcomesSoFar` being what the leases of the window have come to.

The service's argument. `NativeService_proofs` opens with the parts of its
invariant. `ServiceInv` types channels and processes and says how an attempt
lives; `OpenInv` that a lease the I/O thread may still start has its window open,
which is what makes each step of the I/O thread one of the coordinator's
(`ServiceRefinesCoordinator`); `AnswerInv` and `OrderInv` that a worker that asked
has its request, or the answer to it, on the way, exactly once
(`EveryRequestIsAnswered`); `AgreeInv` that an answer means what the process
takes it to mean, with which a live attempt stays with its process, or its grant
or its last message is still travelling (`NoOrphan`); `OwnedInv`, `NewInv` and
`CountsInv` that the parts a process has sent are those accepted plus those on
the way (`CountsAgree`).

`OpenInv` needs `~AbortRaces`: otherwise `retry_shard` may start an attempt in a
window that was aborted (the first of the smaller observations), and that step
(`StaleStep`) is none of the coordinator's. What the learner and the workers rely
on survives it, and is proved without the condition. `WindowInv` says that the
coordinator's own invariant holds until the abort (`OrderlyInv`) and what is left
of it afterwards (`AbortedInv`): no row, nothing that a late attempt could
count twice, no callback. Since a window that closes otherwise has no
unsettled lease, only an aborted one can see the late step, which the learner
cannot; the next `begin_window` restores `OrderlyInv`. For `CountsAgree` the
attempts of an aborted window have no parts and get none (`AbortedParts`). What
does not survive is quiet at the boundary (`NothingRunsAtBoundary`), so
`ServiceKeepsContract` claims `ActiveIsLive` of open windows only.

`MaxFaults = 0` is the setting of the run `service`; after a reply that was late or
lost a process may wait for nothing, or leave a lease to its timeout, on purpose.
Processes crash and restart whatever `MaxFaults` is.

The ledger's argument. Every step does one of four things to the matches: leaves
them, revises rows within what a row may become (`Revises`, with `Moved`), adds
one untried row (`Adds`), or records a result (`Records`); `StepKinds` shows it
once for all actions, and the invariants are proved per kind. Assets only grow
(`AssetsLast`), which keeps references alive. `QueueWithinTarget` is not
inductive: while the pass is between measuring and enqueueing, there must still
be room for one (`RoomToChoose`), which holds because only the scheduler adds
its own matches and a requeued match was pending before.
`CandidateGamesAddUp` needs that bundles of matches exist (`SidesAreBundles`),
so that a controller that registers now has played nothing. `RatingsAreReplayable`
is about a recursive function: `ReplayExists` shows that it is the one its
equation defines and `ReplaysAgree` that two replays agree as far as their events
do, both by a least counterexample; a match never changes its sides once it is
rated (`SidesStay`), so a replay of one event more is the rating step that the
transaction makes. For the league, a
result under way is one of a lease that was granted (`WorkersOK`), hence every
step of `League` is one of `LeagueLedger` or a stutter, and the ledger's
theorems hold of it. The shards tile because the pass under way always writes
what follows the last published shard, also when a crash left the cursor behind.

The router's argument. `RouterInv` is about the router alone: its types, its
account (`Balanced`) and who holds what (`Owned`). Every operation keeps it, for
any arguments the server may give it: releasing any keys, admitting newer
generations, binding, publishing, remembering an answer; a serving action is two
or three of them in a row. What makes the account balance is that a release
counts the keys that are held, per artifact, before it deletes them. `TypeInv`
types the rest and `PastInv` says that nothing is of a process that was not
started, so that no generation is ahead of its actor's. `EndedStaysReleased` needs
`CleanInv`: an actor that asks for a cleanup has no decode of these sequences
pending and sends none again (`ClosedInv`); requests keep, through queue,
lookahead and batch, an order in which no decode comes after a cleanup of its
sequence (`OrderInv`), which the drain keeps because stamps grow along what it
reads; so when a cleanup is served no decode is left on the way (`DoneInv`, which
the answer carries through replay cache and inbox to the actor). On a route that
is loaded late the order is lost, which is the second finding.

That a sequence runs on the artifact its actor was told cannot be shown of
`binding` alone: the actor learns it from an answer, which waited in its queue
and may come from the replay cache. `ArtifactInv` therefore says of all three,
the decodes answered in the cache, those in the queue and the bindings, that
they are `Served`: the router holds the sequence under that artifact, or
remembers its release under it, and in the latter case nothing on the way can
take the lease again (`Done`, from `CleanInv`). The only way to lose this is to forget a
release whose answer its actor has not read. The memory is bounded and shared,
and forgets in the order of releases; of one actor that is the order of its
processes (`Ordered`), so what it forgets before anything of the running process
is of dead processes or of other actors. `Roomy` is the hypothesis that it has
room for all those of others and one process, where `Seat` stands for every
sequence a process opens. `NeverAnotherArtifact` needs no hypothesis: what is
forgotten is not replaced by something else.

`RetriesAreSafe` is the absence of a refusal, so each reason for one has to be
excluded at the moment a request is served. `RetryInv` adds four parts to the
earlier invariants. `NumberedInv`: a process uses a request number once.
`SameInv`: what is on the way, cached or answered under a number that an actor
waits for is what it asked; what is cached was also sent, so a copy that finds
the cache empty is the first served, or its answer came before. `ApartInv`: the
requests an actor waits for are of different sequences, a first decode among
them of sequences it knows nothing of, any other names the artifact that is
`Served`. `KnownInv`: what the router holds for a process is known to it, or in
an answer it has not read. Then a first decode finds its sequences free and, by
`Large`, room in both lease bounds; a later decode or a release names what
`Served` promises; and no request of the running process is stale. On a route
that loads late nothing is claimed, as in the property.

`Roomy` and `Large` are conditions on the configuration, not on the program: the
code bounds leases and memory by numbers (4096 by default, `inference_server.py`,
lines 144 and 145; with a planner its own bound of leases in flight) and at most
requires one lease per actor (`planner_runtime_identity.py:443`), so whether they
suffice is for whoever starts the actors to see. The run `recurrent`
satisfies both with equality. Neither can be dropped: with two actors of one
sequence each and a memory of one, TLC finds a release that pushes out the other
actor's before it read its answer, and with it a violation of
`BoundArtifactIsServed`; in the same instance, with three requests per process,
one that gave up waiting for a release and asks for it under a new number is
refused; and with two sequences and one lease a first decode is. With a memory
of two the two-actor instances pass. `Roomy` counts all that others could ever release,
which is more than they can while one answer is under way: the model does not
say how long that is.

The publication's argument. `WeightsInv` says what header a segment has in each
step of the publisher (`HeaderOK`, `TargetOK`), that the manifest names a sealed
segment other than the one being written (`ManifestOK`), and of a loader that
copies (`ReaderOK`): as long as the header still is the one it read, every
tensor it has copied is of that version. Sequences only grow, so a header that
matches again at the end has matched all along; that is why the second check
suffices, and with it every step is an atomic publication, an atomic load or a
stutter.

The worker's argument. Who runs and what is under way are separate. `LockOK`
says who keeps the lock and that the caller's own `prepare()` excludes the
supervisor; `AloneOK` that whoever runs is the process that is noted, unless
close() took it away from a thread that starts one; `NotedOK` that a noted
process is ready or being started and that the supervisor starts one only when
there is none; `RequestOK` that while a request runs its child is the process
and the supervisor is quiet, which is `KillsItsOwn`. `ChannelOK` describes the
socket by the exchange it is in: a child that starts (`Starting`), one with a
request of the current id (`Serving`) or none (`Clean`); `RowsKeep` shows that
the child keeps each of these by itself, and each step of the threads moves from
one to the next. After a kill that was not reaped only `LockOK` and `AloneOK`
say anything.

The checkpoints' argument. `Recoverable` needs what is not on disk. `LaneInv`
says which files of the pair in flight exist at each stage and that its
predecessor is what the controller takes the curriculum file to be; `AheadInv`
that versions name one pair and that a running learner is ahead of all of them,
strictly until its own manifest is out. `WindowInv` dates curriculum states by
their window counter: a pair's state is of its version, its predecessor older
than that and no older than the pair before. That is why a resume that finds the
file at the selected pair's predecessor, with a newer pair published, cannot
exist: the file is the newest pair's state or its predecessor, so rolling it
forward to any pair that passes the check keeps the newest one resumable.
`DurableInv` relates the file, the members and the disk; `DoomedInv` says what a
cleanup may still delete: nothing of the newest pair, a sidecar or policy only
after its manifest, no policy that a member needs. `IInv` is their conjunction
with `Recoverable`, one lemma per action shows that it is kept, and
`SettledProgressIsKept` follows from `IInv` in both states of a step.

Every invariant of a passing run is now a theorem, some under hypotheses the
table states. Model-checked only: all liveness (fairness and ENABLED are out of
the prover's reach), and instances beyond those hypotheses.

## Not modelled, and why

The artifact channel (a pure read), status files, worker weights and memory
policies (thresholds measured on a host), the service's command queue with its
30-second timeout, quota rows, the league's metadata, submission aliases,
discovery and match execution, planner contexts and stateless requests of the
inference server, the immutable export and the legacy transport of weights, the
legacy learner's durable writer and checkpoints, lineage transitions, power
loss, and the components the table marks as planned or as numerical code. The
launcher and supervisors need a model of signals and processes; the legacy HTTP collection is
superseded by the one modelled here. The numerical code (models, PPO, learner,
beliefs, cards, decks, data pipelines) is by far the largest part of the
repository; it keeps no protocol state, and TLC has nothing to explore in it.

## Plan

1. The quota scheduler and the service's command queue, composed with
   `NativeService`; `OrderedPreparation` with an abstract queue.
2. Starts of `StatelessCheckpoint` from another run's pair (transitions,
   weights-only), and the fragment shards that are checked against the sidecar.
3. Proofs: a weaker `Roomy`, which counts only what is released while one answer
   is under way, once the model bounds how long that takes.
