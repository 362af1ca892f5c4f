-------------------- MODULE StatelessCheckpointProperties --------------------
(* What the checkpoint protocol promises at every point it can be stopped. *)
EXTENDS StatelessCheckpoint

\* At every point: no manifest names a file that is missing or holds other
\* bytes, latest.json names such a pair, and the newest pair can be resumed:
\* the curriculum file is its own or its predecessor, the policies its
\* curriculum plays against are on disk, and so is its own.  (The order of
\* publication, of pruning and of the curriculum file's replacement.)
Recoverable ==
    /\ \A m \in manifests : Complete(m)
    /\ latest \subseteq manifests
    /\ \A m \in Newest : /\ external \in {{m.state}, m.predecessor}
                         /\ m.state.members \subseteq policies

\* Settled progress is never lost: the newest pair is neither deleted nor
\* replaced by another of its version, and no learner runs behind it.
\* (reconcile_stateless_resume_artifacts, prune_stateless_checkpoint_pairs)
SettledProgressIsKept ==
    [][/\ Newest \subseteq manifests'
       /\ step' \notin {"off", "reconcile"} =>
             \A m \in manifests' : m.version <= version']_vars

\* However the process is stopped and resumed, it reaches its budget: no
\* leftover of an interrupted publication or cleanup blocks the replay.
TrainingFinishes == <>(step = "done")
=============================================================================
