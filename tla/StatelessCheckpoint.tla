------------------------- MODULE StatelessCheckpoint -------------------------
(***************************************************************************)
(* The checkpoint pairs of the stateless learner and its exact resume       *)
(* (rl/stateless_checkpoint.py, the checkpoint part of                      *)
(* rl/stateless_training.py, the durable part of rl/stateless_curriculum.py)*)
(*                                                                          *)
(* A pair is three immutable files, published in the order policy, learner  *)
(* sidecar, manifest, then the moving pointer latest.json.  The learner     *)
(* writes the policy, the publisher's background thread (the lane) the      *)
(* rest, while the learner collects its next window.  The curriculum state  *)
(* lives in a file of its own, replaced only when the pair is complete.     *)
(* The process may stop between any two file operations; an operator then   *)
(* starts it again, on a manifest of their choice.                          *)
(*                                                                          *)
(* A file's content is told apart by the process (run) that computed it:    *)
(* two processes reaching one version hold different bytes.                 *)
(***************************************************************************)
EXTENDS Integers, FiniteSets

CONSTANTS
    Updates,      \* collection.training_updates: the budget
    Interval,     \* collection.checkpoint_interval_updates
    Retain,       \* collection.checkpoint_retain_every_versions; 0 stands for None
    KeepLast,     \* collection.checkpoint_keep_last; 0 stands for None
    AdmitAfter,   \* curriculum.admit_past_self_after_updates
    AdmitEvery,   \* curriculum.past_self_admission_interval_updates
    Capacity,     \* curriculum replaceable_snapshot_capacity
    Reentry,      \* whether archived policies may be admitted again
    MaxCrash      \* bound: how often the process stops unexpectedly

ASSUME CheckpointAssumption ==
    /\ {Updates, Interval, AdmitAfter, AdmitEvery, Capacity} \subseteq Nat \ {0}
    /\ {Retain, KeepLast, MaxCrash} \subseteq Nat
    /\ Reentry \in BOOLEAN

VARIABLES
    policies,     \* disk: policy_v*.pt
    learners,     \* disk: learner_state_v*.pt
    manifests,    \* disk: checkpoint_pair_v*.json, each the sidecar it names
    latest,       \* disk: the pair latest.json names; {} while there is none
    external,     \* disk: control/curriculum_state.json; {} while there is none
    step,         \* where the learner's thread is
    run,          \* which start of the process this is
    version,      \* learner.update_index
    live,         \* curriculum.state
    persisted,    \* curriculum.persisted_state
    job,          \* the pair handed to the lane and not yet settled
    stage,        \* how far the lane is with it
    doomed        \* files a cleanup has chosen and not yet unlinked

disk == <<policies, learners, manifests, latest, external>>
memory == <<version, live, persisted>>
lane == <<job, stage>>
vars == <<disk, step, run, memory, lane, doomed>>

\* A policy file, the curriculum state, and a pair: the content of a learner
\* sidecar, which binds its policy, and of the manifest that names both.
Policy == [version : Nat, run : Nat]
Curriculum == [run : Nat, window : Nat,
               members : SUBSET Policy, admitted : SUBSET Policy]
Pair == [version : Nat, run : Nat, state : Curriculum,
         predecessor : SUBSET Curriculum]

PolicyOf(pair) == [version |-> pair.version, run |-> pair.run]
AtVersion(files, v) == {f \in files : f.version = v}

\* An immutable file is written once; a retry must bring the same bytes.
Fits(files, file) == AtVersion(files, file.version) \subseteq {file}

\* load_stateless_checkpoint_pair accepts the manifest.
Complete(pair) == pair \in learners /\ PolicyOf(pair) \in policies

FreshCurriculum(r) == [run |-> r, window |-> 0, members |-> {}, admitted |-> {}]

-----------------------------------------------------------------------------
(* The schedule *)

Final(v) == v = Updates

AdmissionDue(v) ==
    /\ ~Final(v)
    /\ v >= AdmitAfter
    /\ v % AdmitEvery = 0
    /\ AtVersion(live.admitted, v) = {}

ShouldPublish(v) ==
    \/ Final(v)
    \/ v % Interval = 0
    \/ Retain > 0 /\ v % Retain = 0
    \/ AdmissionDue(v)

\* The policies an admission may choose: the current one, or one of the
\* archive that was admitted before and is not resident (which one is data).
Candidates ==
    {[version |-> version, run |-> run]} \cup
    (IF Reentry
     THEN {p \in {PolicyOf(m) : m \in manifests} :
              p.version < version /\ p \in live.admitted \ live.members}
     ELSE {})

\* Whom an admission retires: one member once the pool is full (scores and
\* age buckets choose which).
Retired ==
    IF Cardinality(live.members) < Capacity THEN {{}}
    ELSE {{m} : m \in live.members}

\* prepare_past_self_admission and its preview
AdmittedTo(p, gone) ==
    [live EXCEPT !.members = (@ \ gone) \cup {p}, !.admitted = @ \cup {p}]

\* The curriculum the next pair publishes; the initial pair admits nobody.
Publishable ==
    IF version = 0 \/ ~AdmissionDue(version) THEN {live}
    ELSE {AdmittedTo(p, gone) : p \in Candidates, gone \in Retired}

-----------------------------------------------------------------------------
(* The learner's thread *)

Init ==
    /\ policies = {} /\ learners = {} /\ manifests = {} /\ latest = {}
    /\ external = {}
    /\ step = "policy" /\ run = 0
    /\ version = 0 /\ live = FreshCurriculum(0) /\ persisted = {}
    /\ job = {} /\ stage = "idle" /\ doomed = {}

\* publish_verified_stateless_policy_checkpoint
PublishPolicy ==
    /\ step = "policy"
    /\ Fits(policies, [version |-> version, run |-> run])
    /\ policies' = policies \cup {[version |-> version, run |-> run]}
    /\ step' = "submit"
    /\ UNCHANGED <<learners, manifests, latest, external, run, memory, lane, doomed>>

\* Freeze the state, hand the pair to the lane and commit the admission.  The
\* initial pair is published before anything is collected, the final one
\* settled at once; any other overlaps the next window.
Submit ==
    /\ step = "submit"
    /\ stage = "idle"
    /\ version = 0 \/ persisted # {}
    /\ \E state \in Publishable :
          /\ job' = {[version |-> version, run |-> run, state |-> state,
                      predecessor |-> persisted]}
          /\ live' = state
    /\ stage' = "learner"
    /\ step' = IF version = 0 \/ Final(version) THEN "settle" ELSE "window"
    /\ UNCHANGED <<disk, run, version, persisted, doomed>>

\* The window's outcomes are committed to the curriculum, in memory only.
CommitWindow ==
    /\ step = "window"
    /\ live' = [live EXCEPT !.run = run, !.window = @ + 1]
    /\ step' = IF job = {} THEN "update" ELSE "settle"
    /\ UNCHANGED <<disk, run, version, persisted, lane, doomed>>

Retained ==
    LET complete == {v \in 0 .. Updates : \A files \in {manifests, learners, policies} :
                                         AtVersion(files, v) # {}}
    IN  {v \in complete : Cardinality({w \in complete : w > v}) < KeepLast}
        \cup {m.version : m \in latest}
        \cup {v \in complete : Retain > 0 /\ v % Retain = 0}

\* What prune_stateless_checkpoint_pairs deletes, given whom the curriculum
\* states it was called with protect.
Prunable(states) ==
    LET protected == {m.version : m \in UNION {s.members : s \in states}}
        old(files) == {f.version : f \in files} \ Retained
    IN  IF KeepLast = 0 THEN {}
        ELSE ({"manifest"} \X old(manifests)) \cup ({"learner"} \X old(learners))
             \cup ({"policy"} \X (old(policies) \ protected))

\* _settle_pending_checkpoint: wait for the lane, replace the curriculum file
\* from exactly the state the pair recorded as its predecessor, prune.
Settle ==
    /\ step = "settle"
    /\ stage = "done"
    /\ \E pair \in job :
          /\ persisted = pair.predecessor
          /\ external = pair.predecessor
          /\ external' = {pair.state}
          /\ persisted' = {pair.state}
          /\ doomed' = Prunable({live, pair.state})
    /\ job' = {} /\ stage' = "idle"
    /\ step' = "prune"
    /\ UNCHANGED <<policies, learners, manifests, latest, run, version, live>>

\* Mutant: the tensor files go before the manifest.
Place_ManifestLast(kind) ==
    CASE kind = "manifest" -> 2 [] kind = "learner" -> 1 [] kind = "policy" -> 0

Place(kind) ==
    CASE kind = "manifest" -> 0 [] kind = "learner" -> 1 [] kind = "policy" -> 2

\* Pruning goes version by version, manifest first; a resume deletes all
\* leftover sidecars, then all leftover policies.
Rank(file) ==
    IF step = "prune" THEN 3 * file[2] + Place(file[1])
    ELSE (Updates + 1) * Place(file[1]) + file[2]

Unlink ==
    /\ step \in {"prune", "clean"}
    /\ \E file \in doomed :
          /\ \A other \in doomed : Rank(file) <= Rank(other)
          /\ LET remove(files, kind) ==
                    IF file[1] = kind THEN files \ AtVersion(files, file[2]) ELSE files
             IN  /\ manifests' = remove(manifests, "manifest")
                 /\ learners' = remove(learners, "learner")
                 /\ policies' = remove(policies, "policy")
          /\ doomed' = doomed \ {file}
    /\ UNCHANGED <<latest, external, step, run, memory, lane>>

Pruned ==
    /\ step = "prune"
    /\ doomed = {}
    /\ step' = IF Final(version) THEN "done"
               ELSE IF live.window = version THEN "window" ELSE "update"
    /\ UNCHANGED <<disk, run, memory, lane, doomed>>

\* learner.update
Update ==
    /\ step = "update"
    /\ version' = version + 1
    /\ step' = IF ShouldPublish(version + 1) THEN "policy" ELSE "window"
    /\ UNCHANGED <<disk, run, live, persisted, lane, doomed>>

-----------------------------------------------------------------------------
(* The lane: publish_stateless_checkpoint_pair on the publisher's thread *)

WriteLearner ==
    /\ stage = "learner"
    /\ \A pair \in job : /\ PolicyOf(pair) \in policies
                         /\ Fits(manifests, pair)
                         /\ Fits(learners, pair)
    /\ learners' = learners \cup job
    /\ stage' = "manifest"
    /\ UNCHANGED <<policies, manifests, latest, external, step, run, memory, job, doomed>>

WriteManifest ==
    /\ stage = "manifest"
    /\ manifests' = manifests \cup job
    /\ stage' = "latest"
    /\ UNCHANGED <<policies, learners, latest, external, step, run, memory, job, doomed>>

WriteLatest ==
    /\ stage = "latest"
    /\ \A pair \in job, old \in latest : old.version < pair.version \/ old = pair
    /\ latest' = job
    /\ stage' = "done"
    /\ UNCHANGED <<policies, learners, manifests, external, step, run, memory, job, doomed>>

-----------------------------------------------------------------------------
(* Crash and resume *)

\* What a process that is not running remembers.
Forgotten ==
    /\ version' = 0 /\ live' = FreshCurriculum(0) /\ persisted' = {}
    /\ job' = {} /\ stage' = "idle" /\ doomed' = {}

Crash ==
    /\ step \notin {"off", "done"}
    /\ run < MaxCrash
    /\ run' = run + 1
    /\ step' = "off"
    /\ Forgotten
    /\ UNCHANGED disk

\* Load the manifest the operator named and bring the curriculum file forward
\* to it, if the process stopped before it was replaced.
Resume(pair) ==
    /\ step = "off"
    /\ Complete(pair)
    /\ external \in {{pair.state}, pair.predecessor}
    /\ external' = {pair.state}
    /\ version' = pair.version
    /\ live' = pair.state
    /\ step' = "reconcile"
    /\ UNCHANGED <<policies, learners, manifests, latest, run, persisted, lane, doomed>>

Later(files) == {f \in files : f.version > version}

\* Mutant: a published successor does not stand in the way.
Refused_MembersOnly ==
    \E p \in Later(policies), m \in live.members : m.version = p.version

\* reconcile_stateless_resume_artifacts will not pass over a published
\* successor, nor delete a policy the selected curriculum names.
Refused ==
    \/ Later(manifests) # {}
    \/ \E p \in Later(policies), m \in live.members : m.version = p.version

RefuseResume ==
    /\ step = "reconcile"
    /\ Refused
    /\ step' = "off"
    /\ Forgotten
    /\ UNCHANGED <<disk, run>>

\* Mutant: only leftover sidecars are deleted.
Reconcile_KeepsPolicies ==
    /\ step = "reconcile"
    /\ ~Refused
    /\ doomed' = {<<"learner", f.version>> : f \in Later(learners)}
    /\ step' = "clean"
    /\ UNCHANGED <<disk, run, memory, lane>>

Reconcile ==
    /\ step = "reconcile"
    /\ ~Refused
    /\ doomed' = {<<"learner", f.version>> : f \in Later(learners)} \cup
                 {<<"policy", f.version>> : f \in Later(policies)}
    /\ step' = "clean"
    /\ UNCHANGED <<disk, run, memory, lane>>

\* The controller loads its state and verifies every member's policy file.
Restart ==
    /\ step = "clean"
    /\ doomed = {}
    /\ external = {live}
    /\ live.members \subseteq policies
    /\ persisted' = {live}
    /\ step' = IF Final(version) THEN "done" ELSE "window"
    /\ UNCHANGED <<disk, run, version, live, lane, doomed>>

\* Nothing was settled: the directory can neither be resumed nor, not being
\* empty, be used again, and the operator starts over in another one.
FreshDirectory ==
    /\ step = "off"
    /\ manifests = {}
    /\ policies' = {} /\ learners' = {} /\ latest' = {} /\ external' = {}
    /\ step' = "policy"
    /\ live' = FreshCurriculum(run)
    /\ UNCHANGED <<manifests, run, version, persisted, lane, doomed>>

-----------------------------------------------------------------------------
Learner ==
    \/ PublishPolicy \/ Submit \/ CommitWindow \/ Settle \/ Unlink \/ Pruned
    \/ Update \/ RefuseResume \/ Reconcile \/ Restart

Lane == WriteLearner \/ WriteManifest \/ WriteLatest

Newest == {m \in manifests : \A n \in manifests : n.version <= m.version}

Next ==
    \/ Learner \/ Lane \/ Crash \/ FreshDirectory
    \/ \E pair \in manifests : Resume(pair)

Spec == Init /\ [][Next]_vars

\* The threads of a running process go on, and the operator does not stop
\* before having tried the newest manifest.
FairSpec ==
    /\ Spec
    /\ WF_vars(Learner) /\ WF_vars(Lane) /\ WF_vars(FreshDirectory)
    /\ SF_vars(\E pair \in Newest : Resume(pair))
=============================================================================
