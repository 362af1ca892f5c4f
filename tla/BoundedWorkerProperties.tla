----------------------- MODULE BoundedWorkerProperties -----------------------
(***************************************************************************)
(* What the teacher relies on when its native worker hangs or crashes.     *)
(***************************************************************************)
EXTENDS BoundedWorker, FiniteSets

Executing == {"work", "kill", "rewarm", "finally", "reap"}

\* Never two native workers at a time, whichever threads start, kill and close
\* them: "Never start another native worker while the old process is alive"
\* (bounded_worker.py:450).  A process that could not be reaped counts.
OneChild == Cardinality({c \in Child : Runs(c)}) <= 1

\* A worker that may be used is in step with its channel: no message of an
\* earlier request is under way in it in either direction.
ChannelIsInStep ==
    (ready /\ caller \notin Executing /\ ~closed) =>
        \/ unreaped
        \/ /\ child[process].inbox = <<>> /\ child[process].outbox = <<>>
           /\ child[process].state \in {"idle", "dead"}

\* The child a caller ends for the failure of its request is the child that had
\* the request, never a replacement the supervisor has started since.
KillsItsOwn ==
    caller \in {"kill", "reap"} => process \in {NoChild, running} \/ unreaped

\* A caller that is told that a replacement is warming gets one, or the failure
\* becomes permanent, while its steps go on: the supervisor may end, be parked or
\* be waking up when the question comes, and none of these strands it.
WarmingEnds ==
    told = "warming" ~> (ready \/ failed \/ closed \/ unreaped)

\* Closing ends everything: no child and no supervisor stays behind.
CloseEnds ==
    closed ~> (unreaped \/ /\ \A c \in Child : ~Runs(c)
                           /\ supervisor \in {"none", "ended"})
=============================================================================
