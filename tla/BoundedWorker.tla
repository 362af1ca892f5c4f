---------------------------- MODULE BoundedWorker ----------------------------
(***************************************************************************)
(* One killable child process that works for an actor under hard deadlines *)
(* (rl/bounded_worker.py, rl/bounded_worker_runtime.py), as the engine     *)
(* teacher uses it (rl/online_engine_teacher.py).  The first child is      *)
(* started by the actor's own thread; its replacements are started by a    *)
(* supervisor thread, which stays alive because Linux ties a child to the  *)
(* thread that spawned it.  Both threads share _prepare_lock, which        *)
(* prepare() holds until the child has answered or its start-up time is    *)
(* over.  Time is not modelled: a deadline may expire whenever a thread    *)
(* waits under one.                                                        *)
(***************************************************************************)
EXTENDS Naturals, Sequences

CONSTANTS
    Child,        \* identities of child processes, used again once reaped
                  \* and no longer referred to by execute()
    MaxAttempts,  \* max_startup_attempts
    WorkIds       \* bound: work ids are counted modulo WorkIds

ASSUME WorkerAssumption ==
    /\ 0 \notin Child
    /\ MaxAttempts \in Nat \ {0}
    /\ WorkIds \in Nat /\ WorkIds >= 3

VARIABLES
    caller,      \* where the actor's thread is
    supervisor,  \* where the warm-up thread is
    holder,      \* who keeps _prepare_lock from one step to the next
    closed,      \* _closed
    ready,       \* _ready
    failed,      \* _permanent_failure is set
    failures,    \* _startup_failures
    process,     \* _process, with its channel, or NoChild
    released,    \* _warming_release is set
    child,       \* child[c]: what it does, its work, both ends of its socket
    running,     \* process, in execute()
    work,        \* work_id of the last execute()
    told,        \* how the caller's last question ended
    unreaped     \* a kill was not reaped within kill_reap_timeout_seconds

threads == <<caller, supervisor, holder>>
flags == <<closed, ready, failed, failures, process, released>>
vars == <<threads, flags, child, running, work, told, unreaped>>

NoChild == 0
Dead == [state |-> "dead", work |-> 0, inbox |-> <<>>, outbox |-> <<>>]
Runs(c) == c # NoChild /\ child[c].state # "dead"
Executes(c) == Runs(c) /\ child[c].state # "dying"

Message(kind) == [kind |-> kind, work |-> 0, ok |-> TRUE]
About(kind, id, ok) == [kind |-> kind, work |-> id, ok |-> ok]

-----------------------------------------------------------------------------
(* Ends of a child: what _reap_stopped_process and _terminate_and_reap do. *)

Forget ==
    /\ ready' = FALSE
    /\ process' = NoChild
    /\ child' = [c \in Child |-> IF c = process THEN Dead ELSE child[c]]
    /\ UNCHANGED unreaped

\* Mutant: nobody is woken to replace the child.
Reap_Silently == Forget /\ UNCHANGED released

\* The reaped child's successor is up to the supervisor, which this wakes.
Reap == Forget /\ released' = TRUE

\* Mutant: the process is given up with the attempt to end it.
Unreaped_Forgets ==
    /\ Runs(process)
    /\ ready' = FALSE
    /\ process' = NoChild
    /\ child' = [child EXCEPT ![process].state = "dying"]
    /\ unreaped' = TRUE
    /\ UNCHANGED released

\* SIGTERM and SIGKILL were sent and the child is still there: it runs no more
\* code, and what it wrote before stays in the socket.
Unreaped ==
    /\ Runs(process)
    /\ ready' = FALSE
    /\ child' = [child EXCEPT ![process].state = "dying"]
    /\ unreaped' = TRUE
    /\ UNCHANGED <<process, released>>

\* The ready property: a child that died unnoticed is reaped here.
IsReady == ready /\ Runs(process)
Notice ==
    IF ready /\ ~IsReady THEN Reap
    ELSE UNCHANGED <<ready, process, child, released, unreaped>>

-----------------------------------------------------------------------------
(* prepare(), in the constructor of the teacher or in the supervisor *)

At(t) == IF t = "caller" THEN caller ELSE supervisor

Goto(t, place) ==
    IF t = "caller" THEN caller' = place /\ UNCHANGED supervisor
                    ELSE supervisor' = place /\ UNCHANGED caller

\* Where a thread goes when prepare() raises: the constructor starts over in
\* the background after a timeout, and passes other errors on; the supervisor
\* ends on a start-up error and counts the attempts before it ends on another.
AfterError(t, error) ==
    IF t = "caller"
    THEN CASE error = "timeout" -> "restart"
           [] error = "startup" -> "closing"
           [] OTHER -> "gone"
    ELSE IF error = "startup" THEN "ended" ELSE "count"

Raise(t, error) ==
    /\ Goto(t, AfterError(t, error))
    /\ holder' = "none"
    /\ closed' = (closed \/ (t = "caller" /\ error = "startup"))

PrepareRefuses(t) ==
    /\ At(t) = "prepare" /\ holder = "none"
    /\ closed \/ failed
    /\ Raise(t, "other")
    /\ UNCHANGED <<ready, failed, failures, process, released, child,
                   running, work, told, unreaped>>

\* A child that is there is taken as it is.
PrepareReuses(t) ==
    /\ At(t) = "prepare" /\ holder = "none"
    /\ ~closed /\ ~failed
    /\ Runs(process)
    /\ ready' = TRUE
    /\ Goto(t, IF t = "caller" THEN "idle" ELSE "parked")
    /\ UNCHANGED <<holder, closed, failed, failures, process, released, child,
                   running, work, told, unreaped>>

PrepareSpawns(t) ==
    /\ At(t) = "prepare" /\ holder = "none"
    /\ ~closed /\ ~failed
    /\ ~Runs(process)
    /\ holder' = t
    /\ Goto(t, "spawn")
    /\ IF process # NoChild THEN Reap
       ELSE UNCHANGED <<ready, process, child, released, unreaped>>
    /\ UNCHANGED <<closed, failed, failures, running, work, told>>

\* process.start() raises; no child was reaped, so nobody is woken.
SpawnRefused(t) ==
    /\ At(t) = "spawn"
    /\ failures' = failures + 1
    /\ Raise(t, "other")
    /\ UNCHANGED <<ready, failed, process, released, child, running, work,
                   told, unreaped>>

\* close() came before the new child was noted: it is terminated at once.
SpawnTooLate(t) ==
    /\ At(t) = "spawn" /\ closed
    /\ \E c \in Child :
          /\ ~Runs(c)
          /\ \/ child' = child /\ UNCHANGED unreaped
             \/ /\ child' = [child EXCEPT ![c] = [Dead EXCEPT !.state = "dying"]]
                /\ unreaped' = TRUE
    /\ Raise(t, "other")
    /\ UNCHANGED <<ready, failed, failures, process, released, running, work,
                   told>>

Spawn(t) ==
    /\ At(t) = "spawn" /\ ~closed
    /\ \E c \in Child \ {running} :
          /\ ~Runs(c)
          /\ process' = c
          /\ child' = [child EXCEPT ![c] = [Dead EXCEPT !.state = "starting"]]
    /\ Goto(t, "await")
    /\ UNCHANGED <<holder, closed, ready, failed, failures, released, running,
                   work, told, unreaped>>

Says(c, kind) == child[c].outbox # <<>> /\ Head(child[c].outbox).kind = kind
HungUp(c) == child[c].outbox = <<>> /\ ~Runs(c)

\* Mutant: nobody asks whether the worker was closed in the meantime.
BecomesReady_AfterClose(t) ==
    /\ At(t) = "await"
    /\ Says(process, "ready")
    /\ ready' = TRUE
    /\ child' = [child EXCEPT ![process].outbox = Tail(@)]
    /\ holder' = "none"
    /\ Goto(t, IF t = "caller" THEN "idle" ELSE "parked")
    /\ UNCHANGED <<closed, failed, failures, process, released, running, work,
                   told, unreaped>>

BecomesReady(t) ==
    /\ At(t) = "await"
    /\ Says(process, "ready") /\ ~closed
    /\ ready' = TRUE
    /\ child' = [child EXCEPT ![process].outbox = Tail(@)]
    /\ holder' = "none"
    /\ Goto(t, IF t = "caller" THEN "idle" ELSE "parked")
    /\ UNCHANGED <<closed, failed, failures, process, released, running, work,
                   told, unreaped>>

\* The child answered after close(), reported a failed initializer, hung up, or
\* did not answer in time; _terminate_and_reap raises when it cannot reap.
StartupFails(t) ==
    /\ At(t) = "await"
    /\ \E error \in {"closed", "startup", "other", "timeout"} :
          /\ CASE error = "closed" -> Says(process, "ready") /\ closed
               [] error = "startup" -> Says(process, "failure")
               [] error = "other" -> HungUp(process)
               [] OTHER -> child[process].outbox = <<>>
          /\ failures' = IF error = "closed" THEN failures ELSE failures + 1
          /\ \/ /\ Reap
                /\ failed' = (failed \/ error = "startup")
                /\ Raise(t, error)
             \/ /\ Unreaped
                /\ UNCHANGED failed
                /\ Raise(t, "other")
    /\ UNCHANGED <<running, work, told>>

Preparation(t) ==
    \/ PrepareRefuses(t) \/ PrepareReuses(t) \/ PrepareSpawns(t)
    \/ SpawnRefused(t) \/ SpawnTooLate(t) \/ Spawn(t)
    \/ BecomesReady(t) \/ StartupFails(t)

-----------------------------------------------------------------------------
(* The supervisor thread, _background_prepare *)

Enter ==
    /\ supervisor = "loop"
    /\ supervisor' = IF closed THEN "ended" ELSE "prepare"
    /\ UNCHANGED <<caller, holder, flags, child, running, work, told, unreaped>>

\* A failed prepare() ends the thread; the next question of the caller starts
\* another, unless the attempts are exhausted.
Count ==
    /\ supervisor = "count"
    /\ failures >= MaxAttempts => holder = "none"
    /\ failed' = (failed \/ failures >= MaxAttempts)
    /\ supervisor' = "ended"
    /\ UNCHANGED <<caller, holder, closed, ready, failures, process, released,
                   child, running, work, told, unreaped>>

Wake ==
    /\ supervisor = "parked" /\ released
    /\ supervisor' = IF closed THEN "ended" ELSE "renew"
    /\ UNCHANGED <<caller, holder, flags, child, running, work, told, unreaped>>

\* A new event for the next child.
Renew ==
    /\ supervisor = "renew"
    /\ released' = FALSE
    /\ supervisor' = "loop"
    /\ UNCHANGED <<caller, holder, closed, ready, failed, failures, process,
                   child, running, work, told, unreaped>>

Supervisor == Enter \/ Count \/ Wake \/ Renew \/ Preparation("supervisor")

-----------------------------------------------------------------------------
(* The caller *)

\* The next actor step begins, or the teacher is closed.
Ask ==
    /\ caller = "idle"
    /\ caller' = "ask"
    /\ UNCHANGED <<supervisor, holder, flags, child, running, work, told, unreaped>>

Batch ==
    /\ caller = "ask" /\ holder = "none"
    /\ caller' = IF IsReady THEN "batch" ELSE "restart"
    /\ Notice
    /\ UNCHANGED <<supervisor, holder, closed, failed, failures, running, work,
                   told>>

\* The next candidate of the batch, or the end of the actor step.
NextRequest ==
    /\ caller = "batch"
    /\ caller' \in {"execute", "idle"}
    /\ UNCHANGED <<supervisor, holder, flags, child, running, work, told, unreaped>>

\* What a dead or dying child is sent is never read.
Send(c, message) ==
    IF Executes(c) THEN [child EXCEPT ![c].inbox = Append(@, message)] ELSE child

Execute ==
    /\ caller = "execute" /\ holder = "none"
    /\ IF IsReady
       THEN /\ running' = process
            /\ work' = (work + 1) % WorkIds
            /\ child' = Send(process, About("work", work', TRUE))
            /\ caller' = "work"
            /\ UNCHANGED <<ready, process, released, told, unreaped>>
       ELSE /\ Notice
            /\ caller' = IF failed THEN "batch" ELSE "warm"
            /\ told' = IF failed THEN "failed" ELSE told
            /\ UNCHANGED <<running, work>>
    /\ UNCHANGED <<supervisor, holder, closed, failed, failures>>

\* restart_in_background(), and what the caller is told: before and in execute()
\* that a replacement is warming, after a kill why its own request failed.
RestartInBackground ==
    /\ caller \in {"restart", "warm", "rewarm"} /\ holder = "none"
    /\ caller' = CASE caller = "restart" -> "idle"
                   [] caller = "warm" -> "batch"
                   [] OTHER -> "finally"
    /\ IF IsReady \/ failed \/ supervisor \notin {"none", "ended"}
       THEN Notice /\ UNCHANGED supervisor
       ELSE /\ supervisor' = "loop"
            /\ IF ready THEN Forget
               ELSE UNCHANGED <<ready, process, child, unreaped>>
            /\ released' = FALSE
    /\ told' = IF caller = "rewarm" THEN told
               ELSE IF failed /\ ~IsReady THEN "failed" ELSE "warming"
    /\ UNCHANGED <<holder, closed, failed, failures, running, work>>

BrokerCall ==
    /\ caller = "work"
    /\ Says(running, "call")
    /\ Head(child[running].outbox).work = work
    /\ child' = LET heard == [child EXCEPT ![running].outbox = Tail(@)]
                IN IF Executes(running)
                   THEN [heard EXCEPT ![running].inbox =
                            Append(@, About("reply", work, TRUE))]
                   ELSE heard
    /\ UNCHANGED <<threads, flags, running, work, told, unreaped>>

\* The result, or the exception the handler raised, which leaves the child in
\* place.
WorkResult ==
    /\ caller = "work"
    /\ Says(running, "result")
    /\ Head(child[running].outbox).work = work
    /\ told' = IF Head(child[running].outbox).ok THEN "result" ELSE "error"
    /\ child' = [child EXCEPT ![running].outbox = Tail(@)]
    /\ caller' = "finally"
    /\ UNCHANGED <<supervisor, holder, flags, running, work, unreaped>>

\* The deadline, a closed socket, or a message that is not of this work.
Broken ==
    /\ caller = "work"
    /\ \/ told' = "timeout" /\ UNCHANGED child
       \/ /\ HungUp(running)
          /\ told' = "unavailable" /\ UNCHANGED child
       \/ /\ child[running].outbox # <<>>
          /\ LET message == Head(child[running].outbox)
             IN ~(message.kind \in {"call", "result"} /\ message.work = work)
          /\ told' = "unavailable"
          /\ child' = [child EXCEPT ![running].outbox = Tail(@)]
    /\ UNCHANGED <<supervisor, holder, flags, running, work, unreaped>>

\* Mutant: the child is spared.
Breaks_Spares == Broken /\ caller' = "finally"
Breaks == Broken /\ caller' = "kill"

\* _terminate_and_reap, of the process that is there by now.
Kill ==
    /\ caller = "kill" /\ holder = "none"
    /\ \/ /\ IF process = NoChild THEN Forget /\ UNCHANGED released ELSE Reap
          /\ caller' = "rewarm" /\ UNCHANGED told
       \/ Unreaped /\ caller' = "finally" /\ told' = "unavailable"
    /\ UNCHANGED <<supervisor, holder, closed, failed, failures, running, work>>

\* Mutant: whichever process is there by now.
Finally_AnyProcess ==
    /\ caller = "finally"
    /\ caller' = IF process # NoChild /\ ~Runs(running) THEN "reap" ELSE "batch"
    /\ UNCHANGED <<supervisor, holder, flags, child, running, work, told, unreaped>>

\* The finally clause of execute().
Finally ==
    /\ caller = "finally"
    /\ caller' = IF process = running /\ ~Runs(running) THEN "reap" ELSE "batch"
    /\ UNCHANGED <<supervisor, holder, flags, child, running, work, told, unreaped>>

\* Process.close() raises when the process it finds is a running one.
ReapStopped ==
    /\ caller = "reap" /\ holder = "none"
    /\ caller' = "batch"
    /\ IF Runs(process)
       THEN ready' = FALSE /\ UNCHANGED <<process, child, released, unreaped>>
       ELSE Reap
    /\ UNCHANGED <<supervisor, holder, closed, failed, failures, running, work,
                   told>>

-----------------------------------------------------------------------------
(* close() *)

Close ==
    /\ caller = "idle"
    /\ closed' = TRUE
    /\ caller' = "closing"
    /\ UNCHANGED <<supervisor, holder, ready, failed, failures, process,
                   released, child, running, work, told, unreaped>>

\* An initializer under way keeps the lock; close() waits a bounded time for it.
CloseWithoutLock ==
    /\ caller = "closing" /\ holder = "supervisor"
    /\ caller' = "stop"
    /\ UNCHANGED <<supervisor, holder, flags, child, running, work, told, unreaped>>

Shutdown ==
    /\ caller = "closing" /\ holder = "none"
    /\ caller' = IF process = NoChild THEN "stop" ELSE "join"
    /\ child' = Send(process, Message("shutdown"))
    /\ UNCHANGED <<supervisor, holder, flags, running, work, told, unreaped>>

\* The child has stopped, or it is killed; a child that cannot be reaped leaves
\* the supervisor waiting.
Join ==
    /\ caller = "join"
    /\ \/ Reap /\ caller' = "stop"
       \/ Unreaped /\ caller' = "gone"
    /\ UNCHANGED <<supervisor, holder, closed, failed, failures, running, work,
                   told>>

StopSupervisor ==
    /\ caller = "stop"
    /\ released' = TRUE
    /\ caller' = "gone"
    /\ UNCHANGED <<supervisor, holder, closed, ready, failed, failures, process,
                   child, running, work, told, unreaped>>

\* What the caller does on its own account once it has called.
Caller ==
    \/ Preparation("caller") \/ Batch \/ NextRequest \/ Execute
    \/ RestartInBackground \/ BrokerCall \/ WorkResult \/ Breaks \/ Kill
    \/ Finally \/ ReapStopped
    \/ CloseWithoutLock \/ Shutdown \/ Join \/ StopSupervisor

-----------------------------------------------------------------------------
(* The child, worker_main *)

Becomes(c, state, message) ==
    /\ child' = [child EXCEPT ![c].state = state,
                              ![c].outbox = Append(@, message)]
    /\ UNCHANGED <<threads, flags, running, work, told, unreaped>>

Initialize(c) ==
    /\ child[c].state = "starting"
    /\ \/ Becomes(c, "idle", Message("ready"))
       \/ Becomes(c, "dead", Message("failure"))

Hears(c, kind) == child[c].inbox # <<>> /\ Head(child[c].inbox).kind = kind

Receive(c) ==
    /\ LET rest == Tail(child[c].inbox)
       IN \/ /\ child[c].state = "idle" /\ Hears(c, "work")
             /\ child' = [child EXCEPT
                   ![c] = [@ EXCEPT !.state = "busy", !.inbox = rest,
                                    !.work = Head(child[c].inbox).work]]
          \/ /\ child[c].state = "idle" /\ Hears(c, "shutdown")
             /\ child' = [child EXCEPT ![c] = [@ EXCEPT !.state = "dead",
                                                        !.inbox = <<>>]]
          \/ /\ child[c].state = "calling" /\ Hears(c, "reply")
             /\ child' = [child EXCEPT ![c] = [@ EXCEPT !.state = "busy",
                                                        !.inbox = rest]]
    /\ UNCHANGED <<threads, flags, running, work, told, unreaped>>

CallBroker(c) ==
    /\ child[c].state = "busy"
    /\ Becomes(c, "calling", About("call", child[c].work, TRUE))

Finish(c) ==
    /\ child[c].state = "busy"
    /\ \E ok \in BOOLEAN :
          Becomes(c, "idle", About("result", child[c].work, ok))

\* It crashes, finds its deadline over, or, once killed, is gone at last.
Die(c) ==
    /\ Runs(c)
    /\ child' = [child EXCEPT ![c] = [@ EXCEPT !.state = "dead", !.inbox = <<>>]]
    /\ UNCHANGED <<threads, flags, running, work, told, unreaped>>

ChildStep(c) == Initialize(c) \/ Receive(c) \/ CallBroker(c) \/ Finish(c) \/ Die(c)

-----------------------------------------------------------------------------
Init ==
    /\ caller = "prepare" /\ supervisor = "none" /\ holder = "none"
    /\ closed = FALSE /\ ready = FALSE /\ failed = FALSE /\ failures = 0
    /\ process = NoChild /\ released = FALSE
    /\ child = [c \in Child |-> Dead]
    /\ running = NoChild /\ work = 0 /\ told = "nothing"
    /\ unreaped = FALSE

Next ==
    \/ Ask \/ Close \/ Caller \/ Supervisor
    \/ \E c \in Child : ChildStep(c)

Spec == Init /\ [][Next]_vars

\* Both threads keep running, and steps of the actor begin until it closes the
\* teacher; nothing is assumed of the children.
FairSpec == Spec /\ WF_vars(Ask) /\ WF_vars(Caller) /\ WF_vars(Supervisor)
=============================================================================
