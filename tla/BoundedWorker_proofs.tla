------------------------- MODULE BoundedWorker_proofs -------------------------
(***************************************************************************)
(* Proofs about the bounded worker, for any number of children, attempts   *)
(* and work ids: at most one child runs, a channel that may be used is in  *)
(* step, and a caller ends only the child that had its request.            *)
(***************************************************************************)
EXTENDS BoundedWorkerProperties, FiniteSetTheorems, Integers, TLAPS

Kind == {"ready", "failure", "work", "shutdown", "call", "reply", "result"}
Note == [kind : Kind, work : Nat, ok : BOOLEAN]
ChildState == {"starting", "idle", "busy", "calling", "dying", "dead"}
ChildRow == [state : ChildState, work : Nat, inbox : Seq(Note), outbox : Seq(Note)]

FlagsOK ==
    /\ closed \in BOOLEAN /\ ready \in BOOLEAN /\ failed \in BOOLEAN
    /\ released \in BOOLEAN /\ unreaped \in BOOLEAN

\* The type of every variable.
WorkerTypeOK ==
    /\ caller \in {"prepare", "spawn", "await", "idle", "ask", "batch", "execute",
                   "work", "restart", "warm", "kill", "rewarm", "finally", "reap",
                   "closing", "join", "stop", "gone"}
    /\ supervisor \in {"none", "loop", "prepare", "spawn", "await", "parked",
                       "renew", "count", "ended"}
    /\ holder \in {"none", "caller", "supervisor"}
    /\ FlagsOK
    /\ failures \in Nat
    /\ process \in Child \cup {NoChild}
    /\ running \in Child \cup {NoChild}
    /\ child \in [Child -> ChildRow]
    /\ work \in Nat
    /\ told \in {"nothing", "result", "error", "timeout", "unavailable", "failed",
                "warming"}

Starts == {"spawn", "await"}

\* Who holds the lock, and when the two threads exclude each other otherwise.
LockOK ==
    /\ holder = "caller" <=> caller \in Starts
    /\ holder = "supervisor" <=> supervisor \in Starts
    /\ caller \in {"prepare", "spawn", "await"} => supervisor = "none"
    /\ closed => caller \in {"closing", "join", "stop", "gone"}
    /\ caller \in {"closing", "join", "stop"} => closed
    /\ caller = "join" => holder = "none"

\* A child that runs is the process that is noted, until close() takes it away
\* from a thread that is starting one.
AloneOK ==
    /\ \A c, d \in Child : Runs(c) /\ Runs(d) => c = d
    /\ ~closed => \A c \in Child : Runs(c) => c = process
    /\ "spawn" \in {caller, supervisor} =>
          process = NoChild /\ \A c \in Child : ~Runs(c)
    /\ "await" \in {caller, supervisor} => process # NoChild /\ ~ready
    /\ ready => process # NoChild

\* A process that is noted is ready or being started, the supervisor only runs
\* when there is none, and it is released only when there is none.
NotedOK ==
    \/ unreaped \/ closed
    \/ /\ process # NoChild => ready \/ "await" \in {caller, supervisor}
       /\ supervisor \in {"loop", "prepare", "spawn", "renew", "count"} =>
             process = NoChild
       /\ supervisor \in {"loop", "prepare", "spawn", "await"} => ~released
       /\ supervisor = "parked" /\ released => process = NoChild

Quiet == {"none", "ended", "parked"}

\* While a request runs its child is the process, and the supervisor is quiet.
RequestOK ==
    /\ caller \in Executing => running # NoChild
    /\ \/ unreaped
       \/ /\ caller \in {"work", "kill", "reap"} => process = running
          /\ caller = "rewarm" => process # running
          /\ caller \in Executing /\ process = running => supervisor \in Quiet
          /\ caller = "reap" => ~Runs(running)

Clean(row) ==
    row.inbox = <<>> /\ row.outbox = <<>> /\ row.state \in {"idle", "dead"}

\* A child that has not answered yet, or whose first answer is under way.
Starting(row) ==
    /\ row.inbox = <<>>
    /\ \/ row.state = "starting" /\ row.outbox = <<>>
       \/ row.state \in {"idle", "dead"} /\ row.outbox = <<Message("ready")>>
       \/ row.state = "dead" /\ row.outbox \in {<<>>, <<Message("failure")>>}

\* A child with a request of that id, at any point of the exchange.
Serving(row, id) ==
    \/ /\ row.state = "idle"
       /\ row.inbox = <<About("work", id, TRUE)>> /\ row.outbox = <<>>
    \/ /\ row.state = "busy" /\ row.work = id
       /\ row.inbox = <<>> /\ row.outbox = <<>>
    \/ /\ row.state \in {"calling", "dead"}
       /\ row.state = "calling" => row.work = id
       /\ row.inbox = <<>> /\ row.outbox = <<About("call", id, TRUE)>>
    \/ /\ row.state = "calling" /\ row.work = id
       /\ row.inbox = <<About("reply", id, TRUE)>> /\ row.outbox = <<>>
    \/ /\ row.state \in {"idle", "dead"} /\ row.inbox = <<>>
       /\ \E ok \in BOOLEAN : row.outbox = <<About("result", id, ok)>>
    \/ row.state = "dead" /\ row.inbox = <<>> /\ row.outbox = <<>>

\* What is under way in a channel belongs to what is being done with the child.
ChannelOK ==
    \/ unreaped \/ closed
    \/ /\ "await" \in {caller, supervisor} => Starting(child[process])
       /\ caller = "work" => Serving(child[running], work)
       /\ ready /\ caller \notin {"work", "kill"} => Clean(child[process])

WorkerInv ==
    /\ WorkerTypeOK
    /\ LockOK
    /\ AloneOK
    /\ NotedOK
    /\ RequestOK
    /\ ChannelOK

-----------------------------------------------------------------------------
(* Ends of a child *)

LEMMA ForgetFacts ==
    ASSUME WorkerTypeOK, Forget
    PROVE  /\ ready' = FALSE /\ process' = NoChild /\ unreaped' = unreaped
           /\ child' \in [Child -> ChildRow]
           /\ \A c \in Child : IF c = process THEN child'[c].state = "dead"
                                              ELSE child'[c] = child[c]
<1>1. Dead \in ChildRow /\ Dead.state = "dead"
  BY DEF Dead, ChildRow, ChildState
<1> QED BY <1>1 DEF Forget, WorkerTypeOK, FlagsOK

LEMMA UnreapedFacts ==
    ASSUME WorkerTypeOK, Unreaped
    PROVE  /\ ready' = FALSE /\ process' = process /\ released' = released
           /\ unreaped' = TRUE
           /\ child' \in [Child -> ChildRow]
           /\ Runs(process)
           /\ \A c \in Child : c # process => child'[c] = child[c]
<1>1. process \in Child
  BY DEF Unreaped, Runs, WorkerTypeOK, FlagsOK
<1>2. child[process] \in ChildRow
  BY <1>1 DEF WorkerTypeOK, FlagsOK
<1>3. [child[process] EXCEPT !.state = "dying"] \in ChildRow
  BY <1>2 DEF ChildRow, ChildState
<1> QED BY <1>1, <1>3 DEF Unreaped, WorkerTypeOK, FlagsOK

-----------------------------------------------------------------------------
(* Who runs and who may: all but the channel *)

CoreInv == WorkerTypeOK /\ LockOK /\ AloneOK /\ NotedOK /\ RequestOK

LEMMA InitInv == Init => WorkerInv
<1> SUFFICES ASSUME Init
             PROVE  WorkerInv
  OBVIOUS
<1>1. Dead \in ChildRow
  BY DEF Dead, ChildRow, ChildState
<1>2. WorkerTypeOK
  BY <1>1 DEF Init, WorkerTypeOK, FlagsOK, NoChild
<1>3. \A c \in Child : ~Runs(c)
  BY DEF Init, Runs, Dead
<1>4. LockOK /\ AloneOK /\ NotedOK /\ RequestOK /\ ChannelOK
  BY <1>3 DEF Init, LockOK, AloneOK, NotedOK, RequestOK, ChannelOK, Starts, Executing,
         Quiet, NoChild
<1> QED BY <1>2, <1>4 DEF WorkerInv

\* A step that changes no child and starts none.
Idle(t) == PrepareRefuses(t) \/ PrepareReuses(t) \/ SpawnRefused(t)

LEMMA IdleCoreKeeps ==
    ASSUME CoreInv, NEW t \in {"caller", "supervisor"}, Idle(t)
    PROVE  CoreInv'
<1> USE DEF CoreInv
<1>1. child' = child /\ process' = process /\ running' = running /\ unreaped' = unreaped
  BY DEF Idle, PrepareRefuses, PrepareReuses, SpawnRefused
<1>2. \A c : Runs(c)' <=> Runs(c)
  BY <1>1 DEF Runs
<1>3. WorkerTypeOK'
  <2>1. /\ caller' \in {caller, "idle", "gone"}
        /\ supervisor' \in {supervisor, "parked", "count"}
    BY DEF Idle, PrepareRefuses, PrepareReuses, SpawnRefused, Raise, AfterError, Goto
  <2>2. holder' \in {holder, "none"} /\ failures' \in {failures, failures + 1}
    BY DEF Idle, PrepareRefuses, PrepareReuses, SpawnRefused, Raise
  <2>3. closed' \in BOOLEAN
    <3>1. closed' = closed \/ closed' = (closed \/ (t = "caller" /\ "other" = "startup"))
      BY Zenon DEF Idle, PrepareRefuses, PrepareReuses, SpawnRefused, Raise
    <3> QED BY <3>1, Zenon DEF WorkerTypeOK, FlagsOK
  <2>4. ready' \in BOOLEAN
    BY DEF Idle, PrepareRefuses, PrepareReuses, SpawnRefused, WorkerTypeOK, FlagsOK
  <2>5. UNCHANGED <<failed, released, work, told>>
    BY DEF Idle, PrepareRefuses, PrepareReuses, SpawnRefused
  <2> QED BY <1>1, <2>1, <2>2, <2>3, <2>4, <2>5 DEF WorkerTypeOK, FlagsOK
<1>4. CASE t = "caller"
  <2>1. LockOK'
    BY <1>4 DEF Idle, PrepareRefuses, PrepareReuses, SpawnRefused, Raise, AfterError,
           Goto, At, LockOK, Starts, WorkerTypeOK, FlagsOK
  <2>2. AloneOK' /\ NotedOK' /\ RequestOK'
    BY <1>1, <1>2, <1>4 DEF Idle, PrepareRefuses, PrepareReuses, SpawnRefused, Raise,
           AfterError, Goto, At, LockOK, Starts, AloneOK, NotedOK, RequestOK, Quiet,
           Executing, Runs, WorkerTypeOK, FlagsOK
  <2> QED BY <1>3, <2>1, <2>2
<1>5. CASE t = "supervisor"
  <2>1. LockOK'
    BY <1>5 DEF Idle, PrepareRefuses, PrepareReuses, SpawnRefused, Raise, AfterError,
           Goto, At, LockOK, Starts, WorkerTypeOK, FlagsOK
  <2>2. AloneOK' /\ NotedOK' /\ RequestOK'
    BY <1>1, <1>2, <1>5 DEF Idle, PrepareRefuses, PrepareReuses, SpawnRefused, Raise,
           AfterError, Goto, At, LockOK, Starts, AloneOK, NotedOK, RequestOK, Quiet,
           Executing, Runs, WorkerTypeOK, FlagsOK
  <2> QED BY <1>3, <2>1, <2>2
<1> QED BY <1>4, <1>5

Turns == \/ Enter \/ Count \/ Wake \/ Renew \/ Ask \/ NextRequest \/ Finally
         \/ Close \/ CloseWithoutLock \/ StopSupervisor

LEMMA TurnsCoreKeeps ==
    ASSUME CoreInv, Turns
    PROVE  CoreInv'
<1> USE DEF CoreInv
<1>1. child' = child /\ process' = process /\ running' = running /\ unreaped' = unreaped
  BY DEF Turns, Enter, Count, Wake, Renew, Ask, NextRequest, Finally, Close,
         CloseWithoutLock, StopSupervisor, flags
<1>2. \A c : Runs(c)' <=> Runs(c)
  BY <1>1 DEF Runs
<1>3. WorkerTypeOK'
  <2>1. CASE Enter \/ Wake \/ Renew
    <3>1. /\ supervisor' \in {"ended", "prepare", "renew", "loop"}
          /\ UNCHANGED <<caller, holder, closed, ready, failed, failures, process,
                         child, running, work, told, unreaped>>
      BY <2>1 DEF Enter, Wake, Renew, flags
    <3>2. released' = released \/ released' = FALSE
      BY <2>1, Zenon DEF Enter, Wake, Renew, flags
    <3>3. released' \in BOOLEAN
      BY <3>2, Zenon DEF WorkerTypeOK, FlagsOK
    <3> QED BY <3>1, <3>3 DEF WorkerTypeOK, FlagsOK
  <2>2. CASE Count
    <3>1. failed' \in BOOLEAN
      <4>1. failed' = (failed \/ failures >= MaxAttempts)
        BY <2>2, Zenon DEF Count
      <4> QED BY <4>1, Zenon DEF WorkerTypeOK, FlagsOK
    <3>2. /\ supervisor' = "ended"
          /\ UNCHANGED <<caller, holder, closed, ready, failures, process, released,
                         child, running, work, told, unreaped>>
      BY <2>2, Zenon DEF Count
    <3> QED BY <3>1, <3>2 DEF WorkerTypeOK, FlagsOK
  <2>3. CASE Ask \/ NextRequest
    BY <2>3 DEF Ask, NextRequest, flags, WorkerTypeOK, FlagsOK
  <2>4. CASE Finally \/ CloseWithoutLock
    BY <2>4 DEF Finally, CloseWithoutLock, flags, WorkerTypeOK, FlagsOK
  <2>5. CASE Close
    BY <2>5 DEF Close, WorkerTypeOK, FlagsOK
  <2>6. CASE StopSupervisor
    BY <2>6 DEF StopSupervisor, WorkerTypeOK, FlagsOK
  <2> QED BY <2>1, <2>2, <2>3, <2>4, <2>5, <2>6 DEF Turns
<1>4. LockOK'
  BY DEF Turns, Enter, Count, Wake, Renew, Ask, NextRequest, Finally, Close,
         CloseWithoutLock, StopSupervisor, flags, LockOK, Starts
<1>5. AloneOK'
  BY <1>1, <1>2 DEF Turns, Enter, Count, Wake, Renew, Ask, NextRequest, Finally, Close,
         CloseWithoutLock, StopSupervisor, flags, AloneOK
<1>6. NotedOK'
  BY <1>1 DEF Turns, Enter, Count, Wake, Renew, Ask, NextRequest, Finally, Close,
         CloseWithoutLock, StopSupervisor, flags, NotedOK, LockOK
<1>7. RequestOK'
  BY <1>1, <1>2 DEF Turns, Enter, Count, Wake, Renew, Ask, NextRequest, Finally, Close,
         CloseWithoutLock, StopSupervisor, flags, RequestOK, NotedOK, LockOK, Quiet,
         Executing, WorkerTypeOK, FlagsOK
<1> QED BY <1>3, <1>4, <1>5, <1>6, <1>7

-----------------------------------------------------------------------------
(* Messages *)

\* Reading a message from a child.
LEMMA ReadFacts ==
    ASSUME WorkerTypeOK, NEW c \in Child, child[c].outbox # <<>>,
           NEW after, after = [child EXCEPT ![c].outbox = Tail(@)]
    PROVE  /\ after \in [Child -> ChildRow]
           /\ \A d \in Child : d # c => after[d] = child[d]
           /\ after[c].state = child[c].state /\ after[c].work = child[c].work
           /\ after[c].inbox = child[c].inbox
           /\ after[c].outbox = Tail(child[c].outbox)
           /\ Head(child[c].outbox) \in Note
<1>1. child[c] \in ChildRow /\ child[c].outbox \in Seq(Note)
  BY DEF WorkerTypeOK, FlagsOK, ChildRow
<1>2. Tail(child[c].outbox) \in Seq(Note) /\ Head(child[c].outbox) \in Note
  BY <1>1
<1> DEFINE rest == Tail(child[c].outbox)
<1> DEFINE row == [child[c] EXCEPT !.outbox = rest]
<1>3. after = [child EXCEPT ![c] = row]
  OBVIOUS
<1>4. rest \in Seq(Note)
  BY <1>2
<1> HIDE DEF rest
<1>5. /\ row \in ChildRow /\ row.state = child[c].state /\ row.work = child[c].work
      /\ row.inbox = child[c].inbox /\ row.outbox = rest
  BY <1>1, <1>4 DEF ChildRow
<1>6. rest = Tail(child[c].outbox)
  BY DEF rest
<1> HIDE DEF row
<1> QED BY <1>2, <1>3, <1>5, <1>6 DEF WorkerTypeOK, FlagsOK

\* Sending a child a message.
LEMMA SendFacts ==
    ASSUME NEW row \in ChildRow, NEW m \in Note, NEW got,
           got = [row EXCEPT !.inbox = Append(row.inbox, m)]
    PROVE  /\ got \in ChildRow
           /\ got.state = row.state /\ got.work = row.work
           /\ got.inbox = Append(row.inbox, m) /\ got.outbox = row.outbox
<1> DEFINE box == Append(row.inbox, m)
<1>1. box \in Seq(Note) /\ box = Append(row.inbox, m)
  BY DEF ChildRow
<1>2. got = [row EXCEPT !.inbox = box]
  OBVIOUS
<1> HIDE DEF box
<1>3. /\ got \in ChildRow
      /\ got.state = row.state /\ got.work = row.work
      /\ got.inbox = box /\ got.outbox = row.outbox
  BY <1>1, <1>2 DEF ChildRow
<1> QED BY <1>1, <1>3

LEMMA NotesAreNotes ==
    /\ Message("ready") \in Note /\ Message("failure") \in Note
    /\ Message("shutdown") \in Note
    /\ \A id \in Nat, ok \in BOOLEAN :
          /\ About("work", id, ok) \in Note /\ About("call", id, ok) \in Note
          /\ About("reply", id, ok) \in Note /\ About("result", id, ok) \in Note
BY DEF Message, About, Note, Kind

\* The row of a child that is gone.
LEMMA DeadRowFacts ==
    ASSUME NEW row \in ChildRow, NEW gone,
           gone = [row EXCEPT !.state = "dead", !.inbox = <<>>]
    PROVE  /\ gone \in ChildRow
           /\ gone.state = "dead" /\ gone.inbox = <<>>
           /\ gone.work = row.work /\ gone.outbox = row.outbox
<1> DEFINE empty == <<>>
<1>1. empty \in Seq(Note) /\ gone = [row EXCEPT !.state = "dead", !.inbox = empty]
  OBVIOUS
<1>2. empty = <<>>
  OBVIOUS
<1> HIDE DEF empty
<1>3. /\ gone \in ChildRow
      /\ gone.state = "dead" /\ gone.inbox = empty
      /\ gone.work = row.work /\ gone.outbox = row.outbox
  BY <1>1 DEF ChildRow, ChildState
<1> QED BY <1>2, <1>3

\* A child's own step changes its row, and a row that does not run stays so.
LEMMA ChildFacts ==
    ASSUME WorkerTypeOK, NEW c \in Child, ChildStep(c)
    PROVE  /\ child' \in [Child -> ChildRow]
           /\ \A d \in Child : d # c => child'[d] = child[d]
           /\ child[c].state # "dead"
           /\ UNCHANGED <<threads, flags, running, work, told, unreaped>>
<1>1. child[c] \in ChildRow
  BY DEF WorkerTypeOK, FlagsOK
<1>2. ASSUME NEW s \in ChildState, NEW m \in Note, Becomes(c, s, m)
      PROVE  /\ child' \in [Child -> ChildRow]
             /\ \A d \in Child : d # c => child'[d] = child[d]
             /\ UNCHANGED <<threads, flags, running, work, told, unreaped>>
  <2> DEFINE box == Append(child[c].outbox, m)
  <2> DEFINE row == [child[c] EXCEPT !.state = s, !.outbox = box]
  <2>1. child' = [child EXCEPT ![c] = row]
    BY <1>2 DEF Becomes
  <2>2. box \in Seq(Note)
    BY <1>1 DEF ChildRow
  <2> HIDE DEF box
  <2>3. row \in ChildRow
    BY <1>1, <2>2 DEF ChildRow
  <2> HIDE DEF row
  <2> QED BY <1>2, <2>1, <2>3 DEF Becomes, WorkerTypeOK, FlagsOK
<1>3. CASE Initialize(c)
  BY <1>2, <1>3, NotesAreNotes DEF Initialize, ChildState
<1>4. CASE CallBroker(c)
  BY <1>1, <1>2, <1>4, NotesAreNotes DEF CallBroker, ChildState, ChildRow
<1>5. CASE Finish(c)
  BY <1>1, <1>2, <1>5, NotesAreNotes DEF Finish, ChildState, ChildRow
<1>6. CASE Die(c)
  <2>1. [child[c] EXCEPT !.state = "dead", !.inbox = <<>>] \in ChildRow
    BY <1>1, DeadRowFacts
  <2> QED BY <1>6, <2>1 DEF Die, Runs, WorkerTypeOK, FlagsOK
<1>7. CASE Receive(c)
  <2>1. ASSUME child[c].inbox # <<>>
        PROVE  Tail(child[c].inbox) \in Seq(Note) /\ Head(child[c].inbox).work \in Nat
    <3>1. child[c].inbox \in Seq(Note)
      BY <1>1 DEF ChildRow
    <3>2. Tail(child[c].inbox) \in Seq(Note) /\ Head(child[c].inbox) \in Note
      BY <2>1, <3>1
    <3> QED BY <3>2 DEF Note
  <2>2. CASE child[c].state = "idle" /\ Hears(c, "shutdown")
             /\ child' = [child EXCEPT ![c] = [@ EXCEPT !.state = "dead", !.inbox = <<>>]]
    <3>1. [child[c] EXCEPT !.state = "dead", !.inbox = <<>>] \in ChildRow
      BY <1>1, DeadRowFacts
    <3> QED BY <1>7, <2>2, <3>1 DEF Receive, WorkerTypeOK, FlagsOK
  <2>3. CASE child[c].state = "idle" /\ Hears(c, "work")
             /\ child' = [child EXCEPT
                   ![c] = [@ EXCEPT !.state = "busy", !.inbox = Tail(child[c].inbox),
                                    !.work = Head(child[c].inbox).work]]
    <3> DEFINE rest == Tail(child[c].inbox)
    <3> DEFINE id == Head(child[c].inbox).work
    <3> DEFINE row == [child[c] EXCEPT !.state = "busy", !.inbox = rest, !.work = id]
    <3>1. child' = [child EXCEPT ![c] = row]
      BY <2>3
    <3>2. rest \in Seq(Note) /\ id \in Nat
      BY <1>1, <2>1, <2>3 DEF Hears, ChildRow
    <3> HIDE DEF rest, id
    <3>3. row \in ChildRow
      BY <1>1, <3>2 DEF ChildRow, ChildState
    <3> HIDE DEF row
    <3> QED BY <1>7, <2>3, <3>1, <3>3 DEF Receive, WorkerTypeOK, FlagsOK
  <2>4. CASE child[c].state = "calling" /\ Hears(c, "reply")
             /\ child' = [child EXCEPT
                   ![c] = [@ EXCEPT !.state = "busy", !.inbox = Tail(child[c].inbox)]]
    <3> DEFINE rest == Tail(child[c].inbox)
    <3> DEFINE row == [child[c] EXCEPT !.state = "busy", !.inbox = rest]
    <3>1. child' = [child EXCEPT ![c] = row]
      BY <2>4
    <3>2. rest \in Seq(Note)
      BY <1>1, <2>1, <2>4 DEF Hears, ChildRow
    <3> HIDE DEF rest
    <3>3. row \in ChildRow
      BY <1>1, <3>2 DEF ChildRow, ChildState
    <3> HIDE DEF row
    <3> QED BY <1>7, <2>4, <3>1, <3>3 DEF Receive, WorkerTypeOK, FlagsOK
  <2> QED BY <1>7, <2>2, <2>3, <2>4 DEF Receive
<1> QED BY <1>3, <1>4, <1>5, <1>6, <1>7 DEF ChildStep

-----------------------------------------------------------------------------
(* The core invariant, continued *)

LEMMA ChildCoreKeeps ==
    ASSUME CoreInv, NEW c \in Child, ChildStep(c)
    PROVE  CoreInv'
<1> USE DEF CoreInv
<1>1. /\ child' \in [Child -> ChildRow]
      /\ \A d \in Child : d # c => child'[d] = child[d]
      /\ child[c].state # "dead"
      /\ UNCHANGED <<caller, supervisor, holder, closed, ready, failed, failures,
                     process, released, running, work, told, unreaped>>
  BY ChildFacts DEF threads, flags
<1>2. \A d \in Child : Runs(d)' => Runs(d)
  BY <1>1, WorkerAssumption DEF Runs, NoChild
<1>3. WorkerTypeOK'
  BY <1>1 DEF WorkerTypeOK, FlagsOK
<1>4. AloneOK'
  BY <1>1, <1>2 DEF AloneOK
<1>5. LockOK' /\ NotedOK'
  BY <1>1 DEF LockOK, NotedOK
<1>6. RequestOK'
  BY <1>1, <1>2 DEF RequestOK, Executing, WorkerTypeOK, FlagsOK
<1> QED BY <1>3, <1>4, <1>5, <1>6

Messages == BrokerCall \/ WorkResult \/ Breaks \/ Shutdown

\* Reading and sending changes what is under way, not who runs.
LEMMA MessagesFacts ==
    ASSUME WorkerTypeOK, caller = "work" => running \in Child, Messages
    PROVE  /\ child' \in [Child -> ChildRow]
           /\ \A d \in Child : child'[d].state = child[d].state
           /\ UNCHANGED <<supervisor, holder, closed, ready, failed, failures,
                          process, released, running, work, unreaped>>
<1>1. UNCHANGED <<supervisor, holder, closed, ready, failed, failures,
                  process, released, running, work, unreaped>>
  BY DEF Messages, BrokerCall, WorkResult, Breaks, Broken, Shutdown, threads, flags
<1>2. CASE child' = child
  BY <1>1, <1>2 DEF WorkerTypeOK, FlagsOK
<1>3. CASE caller = "work" /\ child[running].outbox # <<>>
           /\ child' = [child EXCEPT ![running].outbox = Tail(@)]
  <2>1. /\ child' \in [Child -> ChildRow]
        /\ \A d \in Child : d # running => child'[d] = child[d]
        /\ child'[running].state = child[running].state
    BY <1>3, ReadFacts
  <2> QED BY <1>1, <2>1
<1>4. CASE BrokerCall
  <2>1. running \in Child /\ child[running].outbox # <<>>
    BY <1>4 DEF BrokerCall, Says
  <2> DEFINE heard == [child EXCEPT ![running].outbox = Tail(@)]
  <2>2. /\ heard \in [Child -> ChildRow]
        /\ \A d \in Child : d # running => heard[d] = child[d]
        /\ heard[running].state = child[running].state
    BY <2>1, ReadFacts
  <2>3. CASE ~Executes(running)
    <3>1. child' = heard
      BY <1>4, <2>3 DEF BrokerCall
    <3> QED BY <1>1, <2>2, <3>1
  <2>4. CASE Executes(running)
    <3> DEFINE got == [heard[running] EXCEPT !.inbox =
                          Append(heard[running].inbox, About("reply", work, TRUE))]
    <3>1. child' = [heard EXCEPT ![running] = got]
      BY <1>4, <2>4 DEF BrokerCall
    <3> HIDE DEF heard
    <3>2. About("reply", work, TRUE) \in Note
      BY NotesAreNotes DEF WorkerTypeOK, FlagsOK
    <3>3. heard[running] \in ChildRow
      BY <2>1, <2>2
    <3>4. got \in ChildRow /\ got.state = heard[running].state
      <4> DEFINE row == heard[running]
      <4>1. row \in ChildRow /\ got = [row EXCEPT !.inbox =
                                         Append(row.inbox, About("reply", work, TRUE))]
        BY <3>3
      <4> HIDE DEF row, got
      <4>2. got \in ChildRow /\ got.state = row.state
        BY <3>2, <4>1, SendFacts
      <4> QED BY <4>2 DEF row
    <3> HIDE DEF got
    <3>5. /\ child' \in [Child -> ChildRow]
          /\ \A d \in Child : d # running => child'[d] = heard[d]
          /\ child'[running].state = heard[running].state
      BY <2>1, <2>2, <3>1, <3>4
    <3> QED BY <1>1, <2>2, <3>5
  <2> QED BY <2>3, <2>4
<1>5. CASE WorkResult
  BY <1>3, <1>5 DEF WorkResult, Says
<1>6. CASE Breaks
  BY <1>2, <1>3, <1>6 DEF Breaks, Broken
<1>7. CASE Shutdown
  <2>1. CASE ~Executes(process)
    BY <1>2, <1>7, <2>1 DEF Shutdown, Send
  <2>2. CASE Executes(process)
    <3> DEFINE got == [child[process] EXCEPT !.inbox =
                          Append(child[process].inbox, Message("shutdown"))]
    <3>1. child' = [child EXCEPT ![process] = got]
      BY <1>7, <2>2 DEF Shutdown, Send
    <3>2. process \in Child /\ child \in [Child -> ChildRow]
      BY <2>2 DEF Executes, Runs, WorkerTypeOK, FlagsOK
    <3>3. got \in ChildRow /\ got.state = child[process].state
      BY <3>2, NotesAreNotes, SendFacts
    <3> HIDE DEF got
    <3>4. /\ child' \in [Child -> ChildRow]
          /\ \A d \in Child : d # process => child'[d] = child[d]
          /\ child'[process].state = child[process].state
      BY <3>1, <3>2, <3>3
    <3> QED BY <1>1, <3>2, <3>4
  <2> QED BY <2>1, <2>2
<1> QED BY <1>4, <1>5, <1>6, <1>7 DEF Messages

LEMMA MessagesCoreKeeps ==
    ASSUME CoreInv, Messages
    PROVE  CoreInv'
<1> USE DEF CoreInv
<1>1. caller = "work" => running \in Child
  BY DEF RequestOK, Executing, WorkerTypeOK, FlagsOK
<1>2. /\ child' \in [Child -> ChildRow]
      /\ \A d \in Child : child'[d].state = child[d].state
      /\ UNCHANGED <<supervisor, holder, closed, ready, failed, failures,
                     process, released, running, work, unreaped>>
  BY <1>1, MessagesFacts
<1>3. \A d \in Child : Runs(d)' <=> Runs(d)
  BY <1>2 DEF Runs
<1>4. \/ caller = "work" /\ caller' \in {"work", "finally", "kill"}
      \/ caller = "closing" /\ caller' \in {"stop", "join"} /\ holder = "none"
  BY DEF Messages, BrokerCall, WorkResult, Breaks, Broken, Shutdown, threads
<1>5. told' \in {told, "result", "error", "timeout", "unavailable"}
  BY DEF Messages, BrokerCall, WorkResult, Breaks, Broken, Shutdown
<1>6. WorkerTypeOK'
  BY <1>2, <1>4, <1>5 DEF WorkerTypeOK, FlagsOK
<1>7. AloneOK'
  BY <1>2, <1>3, <1>4 DEF AloneOK
<1>8. LockOK' /\ NotedOK'
  BY <1>2, <1>4 DEF LockOK, NotedOK, Starts
<1>9. RequestOK'
  BY <1>2, <1>3, <1>4 DEF RequestOK, Executing
<1> QED BY <1>6, <1>7, <1>8, <1>9

-----------------------------------------------------------------------------
(* The core invariant, concluded: ends and beginnings of children *)

\* What Forget and Unreaped do to who runs.
LEMMA EndsRun ==
    ASSUME CoreInv, Forget \/ Unreaped
    PROVE  /\ child' \in [Child -> ChildRow]
           /\ \A c \in Child : Runs(c)' => Runs(c)
           /\ ready' = FALSE /\ process' \in {process, NoChild}
           /\ Forget => \A c \in Child : Runs(c)' => c # process
           /\ Forget => process' = NoChild /\ unreaped' = unreaped
           /\ Unreaped => process' = process /\ unreaped' = TRUE /\ released' = released
<1> USE DEF CoreInv
<1>1. CASE Forget
  <2>1. /\ ready' = FALSE /\ process' = NoChild /\ unreaped' = unreaped
        /\ child' \in [Child -> ChildRow]
        /\ \A c \in Child : IF c = process THEN child'[c].state = "dead"
                                           ELSE child'[c] = child[c]
    BY <1>1, ForgetFacts
  <2>2. ~(Unreaped /\ process' # process)
    BY DEF Unreaped
  <2>3. Unreaped => FALSE
    BY <2>1 DEF Unreaped, Runs
  <2> QED BY <2>1, <2>3 DEF Runs
<1>2. CASE Unreaped
  <2>1. /\ ready' = FALSE /\ process' = process /\ released' = released
        /\ unreaped' = TRUE
        /\ child' \in [Child -> ChildRow]
        /\ Runs(process)
        /\ \A c \in Child : c # process => child'[c] = child[c]
    BY <1>2, UnreapedFacts
  <2>2. ~Forget
    BY <2>1 DEF Forget, Runs
  <2> QED BY <2>1, <2>2 DEF Runs
<1> QED BY <1>1, <1>2

\* Steps of a caller at which a child may end: those that only take notice of
\* a death, those that end a child, and that in which a supervisor starts.
Notices ==
    \/ Batch
    \/ Execute /\ ~IsReady
    \/ RestartInBackground /\ supervisor' = supervisor

LEMMA NoticesCoreKeeps ==
    ASSUME CoreInv, Notices
    PROVE  CoreInv'
<1> USE DEF CoreInv
<1>1. /\ caller \in {"ask", "execute", "restart", "warm", "rewarm"} /\ holder = "none"
      /\ UNCHANGED <<supervisor, holder, closed, failed, failures, running, work>>
      /\ caller' \in {"batch", "restart", "idle", "warm", "finally"}
      /\ caller' = "finally" => caller = "rewarm"
      /\ told' \in {told, "failed", "warming"}
  BY DEF Notices, Batch, Execute, RestartInBackground
<1>2. Notice
  BY DEF Notices, Batch, Execute, RestartInBackground, Notice, IsReady
<1>3. CASE UNCHANGED <<ready, process, child, released, unreaped>>
  <2>1. \A c : Runs(c)' <=> Runs(c)
    BY <1>3 DEF Runs
  <2>2. WorkerTypeOK'
    BY <1>1, <1>3 DEF WorkerTypeOK, FlagsOK
  <2>3. LockOK' /\ AloneOK' /\ NotedOK' /\ RequestOK'
    BY <1>1, <1>3, <2>1 DEF LockOK, Starts, AloneOK, NotedOK, RequestOK, Executing
  <2> QED BY <2>2, <2>3
<1>4. CASE ready /\ ~IsReady /\ Reap
  <2>1. Forget /\ released' = TRUE
    BY <1>4 DEF Reap
  <2>2. /\ child' \in [Child -> ChildRow]
        /\ \A c \in Child : Runs(c)' => Runs(c) /\ c # process
        /\ ready' = FALSE /\ process' = NoChild /\ unreaped' = unreaped
    BY <2>1, EndsRun
  <2>3. WorkerTypeOK'
    <3>1. FlagsOK'
      BY <1>1, <2>1, <2>2, Zenon DEF WorkerTypeOK, FlagsOK
    <3> QED BY <1>1, <2>1, <2>2, <3>1 DEF WorkerTypeOK
  <2>4. LockOK'
    BY <1>1 DEF LockOK, Starts
  <2>5. AloneOK'
    BY <1>1, <1>4, <2>2 DEF AloneOK, LockOK, Starts
  <2>6. NotedOK'
    BY <1>1, <1>4, <2>1, <2>2 DEF NotedOK, AloneOK, LockOK, Starts
  <2>7. RequestOK'
    BY <1>1, <2>2 DEF RequestOK, Executing
  <2> QED BY <2>3, <2>4, <2>5, <2>6, <2>7
<1> QED BY <1>2, <1>3, <1>4 DEF Notice

LEMMA BackgroundCoreKeeps ==
    ASSUME CoreInv, RestartInBackground, supervisor' # supervisor
    PROVE  CoreInv'
<1> USE DEF CoreInv
<1>1. /\ caller \in {"restart", "warm", "rewarm"} /\ holder = "none"
      /\ caller' \in {"idle", "batch", "finally"}
      /\ caller' = "finally" => caller = "rewarm"
      /\ supervisor \in {"none", "ended"} /\ supervisor' = "loop"
      /\ ~IsReady /\ released' = FALSE
      /\ UNCHANGED <<holder, closed, failed, failures, running, work>>
      /\ told' \in {told, "failed", "warming"}
      /\ IF ready THEN Forget ELSE UNCHANGED <<ready, process, child, unreaped>>
  BY DEF RestartInBackground
<1>2. /\ child' \in [Child -> ChildRow]
      /\ \A c \in Child : Runs(c)' => Runs(c) /\ (ready => c # process)
      /\ ready' = FALSE /\ unreaped' = unreaped
      /\ IF ready THEN process' = NoChild ELSE process' = process
  <2>1. CASE ready
    BY <1>1, <2>1, EndsRun
  <2>2. CASE ~ready
    <3>1. ready' = FALSE
      BY <1>1, <2>2 DEF WorkerTypeOK, FlagsOK
    <3> QED BY <1>1, <2>2, <3>1 DEF Runs, WorkerTypeOK, FlagsOK
  <2> QED BY <2>1, <2>2
<1>3. WorkerTypeOK'
  BY <1>1, <1>2 DEF WorkerTypeOK, FlagsOK
<1>4. LockOK'
  BY <1>1 DEF LockOK, Starts
<1>5. AloneOK'
  BY <1>1, <1>2 DEF AloneOK, LockOK, Starts
<1>6. NotedOK'
  BY <1>1, <1>2 DEF NotedOK, LockOK, Starts
<1>7. RequestOK'
  BY <1>1, <1>2 DEF RequestOK, NotedOK, LockOK, Starts, Executing, Quiet
<1> QED BY <1>3, <1>4, <1>5, <1>6, <1>7

Endings == Kill \/ ReapStopped \/ Join

LEMMA EndingsCoreKeeps ==
    ASSUME CoreInv, Endings
    PROVE  CoreInv'
<1> USE DEF CoreInv
<1>1. /\ caller \in {"kill", "reap", "join"} /\ holder = "none"
      /\ caller' \in {"rewarm", "finally", "batch", "stop", "gone"}
      /\ caller = "kill" => caller' \in {"rewarm", "finally"}
      /\ caller = "reap" => caller' = "batch"
      /\ caller = "join" => caller' \in {"stop", "gone"}
      /\ UNCHANGED <<supervisor, holder, closed, failed, failures, running, work>>
      /\ told' \in {told, "unavailable"}
  BY DEF Endings, Kill, ReapStopped, Join, LockOK
<1>2. \/ /\ Forget
         /\ released' \in {released, TRUE}
         /\ released' = TRUE \/ process = NoChild
         /\ caller' \in {"rewarm", "stop", "batch"}
      \/ Unreaped /\ caller' \in {"finally", "gone"}
      \/ /\ caller = "reap" /\ Runs(process) /\ ready' = FALSE
         /\ UNCHANGED <<process, child, released, unreaped>>
  BY DEF Endings, Kill, ReapStopped, Join, Reap
<1>3. LockOK'
  BY <1>1 DEF LockOK, Starts
<1>4. CASE /\ Forget
           /\ released' \in {released, TRUE}
           /\ released' = TRUE \/ process = NoChild
           /\ caller' \in {"rewarm", "stop", "batch"}
  <2>1. /\ child' \in [Child -> ChildRow]
        /\ \A c \in Child : Runs(c)' => Runs(c) /\ c # process
        /\ ready' = FALSE /\ process' = NoChild /\ unreaped' = unreaped
    BY <1>4, EndsRun
  <2>2. released' \in BOOLEAN
    <3>1. released' = released \/ released' = TRUE
      BY <1>4
    <3> QED BY <3>1, Zenon DEF WorkerTypeOK, FlagsOK
  <2>3. WorkerTypeOK'
    <3>1. FlagsOK'
      BY <1>1, <2>1, <2>2, Zenon DEF WorkerTypeOK, FlagsOK
    <3> QED BY <1>1, <2>1, <2>2, <3>1 DEF WorkerTypeOK
  <2>4. AloneOK'
    BY <1>1, <2>1 DEF AloneOK, LockOK, Starts
  <2>5. NotedOK'
    BY <1>1, <1>4, <2>1 DEF NotedOK, AloneOK, LockOK, Starts, RequestOK, Executing, Quiet
  <2>6. RequestOK'
    BY <1>1, <1>4, <2>1 DEF RequestOK, Executing
  <2> QED BY <1>3, <2>3, <2>4, <2>5, <2>6
<1>5. CASE Unreaped /\ caller' \in {"finally", "gone"}
  <2>1. /\ child' \in [Child -> ChildRow]
        /\ \A c \in Child : Runs(c)' => Runs(c)
        /\ ready' = FALSE /\ process' = process /\ unreaped' = TRUE
        /\ released' = released
    BY <1>5, EndsRun
  <2>2. WorkerTypeOK'
    <3>1. FlagsOK'
      BY <1>1, <2>1, Zenon DEF WorkerTypeOK, FlagsOK
    <3> QED BY <1>1, <2>1, <3>1 DEF WorkerTypeOK
  <2>3. AloneOK'
    BY <1>1, <2>1 DEF AloneOK, LockOK, Starts
  <2>4. NotedOK' /\ RequestOK'
    BY <1>1, <1>5, <2>1 DEF NotedOK, RequestOK, Executing
  <2> QED BY <1>3, <2>2, <2>3, <2>4
<1>6. CASE /\ caller = "reap" /\ Runs(process) /\ ready' = FALSE
           /\ UNCHANGED <<process, child, released, unreaped>>
  <2>1. unreaped
    BY <1>6 DEF RequestOK, Runs
  <2>2. \A c : Runs(c)' <=> Runs(c)
    BY <1>6 DEF Runs
  <2>3. WorkerTypeOK'
    <3>1. FlagsOK'
      BY <1>1, <1>6, Zenon DEF WorkerTypeOK, FlagsOK
    <3> QED BY <1>1, <1>6, <3>1 DEF WorkerTypeOK
  <2>4. AloneOK'
    BY <1>1, <1>6, <2>2 DEF AloneOK, LockOK, Starts
  <2>5. NotedOK' /\ RequestOK'
    BY <1>1, <1>6, <2>1 DEF NotedOK, RequestOK, Executing
  <2> QED BY <1>3, <2>3, <2>4, <2>5
<1> QED BY <1>2, <1>4, <1>5, <1>6, Zenon

LEMMA ExecuteCoreKeeps ==
    ASSUME CoreInv, Execute, IsReady
    PROVE  /\ CoreInv'
           /\ process \in Child
           /\ \A d \in Child : d # process => child'[d] = child[d]
           /\ child'[process] = child[process]
              \/ /\ child'[process].state = child[process].state
                 /\ child'[process].inbox =
                       Append(child[process].inbox, About("work", work', TRUE))
                 /\ child'[process].outbox = child[process].outbox
           /\ ~Executes(process) => child'[process] = child[process]
<1> USE DEF CoreInv
<1>1. /\ caller = "execute" /\ caller' = "work" /\ holder = "none"
      /\ running' = process /\ work' = (work + 1) % WorkIds
      /\ child' = Send(process, About("work", work', TRUE))
      /\ UNCHANGED <<supervisor, holder, closed, ready, failed, failures, process,
                     released, told, unreaped>>
  BY DEF Execute
<1>2. ready /\ Runs(process) /\ process \in Child
  BY DEF IsReady, Runs, WorkerTypeOK
<1>3. work' \in Nat
  BY <1>1, WorkerAssumption DEF WorkerTypeOK
<1>4. /\ child' \in [Child -> ChildRow]
      /\ \A d \in Child : d # process => child'[d] = child[d]
      /\ child'[process].state = child[process].state
      /\ ~Executes(process) => child'[process] = child[process]
      /\ Executes(process) =>
            /\ child'[process].inbox =
                  Append(child[process].inbox, About("work", work', TRUE))
            /\ child'[process].outbox = child[process].outbox
  <2>1. CASE ~Executes(process)
    BY <1>1, <2>1 DEF Send, WorkerTypeOK
  <2>2. CASE Executes(process)
    <3> DEFINE got == [child[process] EXCEPT !.inbox =
                          Append(child[process].inbox, About("work", work', TRUE))]
    <3>1. child' = [child EXCEPT ![process] = got]
      BY <1>1, <2>2 DEF Send
    <3>2. child[process] \in ChildRow /\ About("work", work', TRUE) \in Note
      BY <1>2, <1>3, NotesAreNotes DEF WorkerTypeOK
    <3>3. /\ got \in ChildRow /\ got.state = child[process].state
          /\ got.inbox = Append(child[process].inbox, About("work", work', TRUE))
          /\ got.outbox = child[process].outbox
      <4> DEFINE row == child[process]
      <4> DEFINE m == About("work", work', TRUE)
      <4>1. row \in ChildRow /\ m \in Note
            /\ got = [row EXCEPT !.inbox = Append(row.inbox, m)]
        BY <3>2
      <4> HIDE DEF row, m, got
      <4>2. /\ got \in ChildRow /\ got.state = row.state
            /\ got.inbox = Append(row.inbox, m) /\ got.outbox = row.outbox
        BY <4>1, SendFacts
      <4> QED BY <4>2 DEF row, m
    <3> HIDE DEF got
    <3> QED BY <1>2, <2>2, <3>1, <3>3 DEF WorkerTypeOK
  <2> QED BY <2>1, <2>2
<1>5. \A d \in Child : Runs(d)' <=> Runs(d)
  BY <1>2, <1>4 DEF Runs
<1>6. WorkerTypeOK'
  <2>1. FlagsOK'
    BY <1>1, Zenon DEF WorkerTypeOK, FlagsOK
  <2> QED BY <1>1, <1>2, <1>3, <1>4, <2>1 DEF WorkerTypeOK
<1>7. LockOK' /\ NotedOK'
  BY <1>1 DEF LockOK, NotedOK, Starts
<1>8. AloneOK'
  BY <1>1, <1>5 DEF AloneOK
<1>9. RequestOK'
  BY <1>1, <1>2 DEF RequestOK, Executing, Quiet, NotedOK, AloneOK, LockOK, WorkerTypeOK
<1> QED BY <1>2, <1>4, <1>6, <1>7, <1>8, <1>9

\* What holds of a thread that holds the lock or takes it.
LEMMA StarterFacts ==
    ASSUME CoreInv, NEW t \in {"caller", "supervisor"},
           At(t) \in {"prepare", "spawn", "await"},
           At(t) = "prepare" => holder = "none"
    PROVE  /\ t = "caller" => supervisor = "none" /\ caller = At(t)
           /\ t = "supervisor" => supervisor = At(t) /\ caller \notin {"spawn", "await"}
           /\ caller \notin {"work", "kill", "reap"} \/ unreaped
           /\ t = "caller" => caller \notin Executing
<1> USE DEF CoreInv
<1>1. CASE t = "caller"
  BY <1>1 DEF At, LockOK, Starts, Executing
<1>2. CASE t = "supervisor"
  <2>1. supervisor = At(t) /\ caller \notin {"spawn", "await"}
    BY <1>2 DEF At, LockOK, Starts
  <2>2. caller \notin {"work", "kill", "reap"} \/ unreaped
    BY <1>2, <2>1 DEF RequestOK, Executing, Quiet
  <2> QED BY <1>2, <2>1, <2>2
<1> QED BY <1>1, <1>2

LEMMA PrepareSpawnsCoreKeeps ==
    ASSUME CoreInv, NEW t \in {"caller", "supervisor"}, PrepareSpawns(t)
    PROVE  CoreInv'
<1> USE DEF CoreInv
<1>1. /\ At(t) = "prepare" /\ holder = "none" /\ ~closed
      /\ ~Runs(process) /\ holder' = t
      /\ IF process # NoChild THEN Reap
         ELSE UNCHANGED <<ready, process, child, released, unreaped>>
      /\ UNCHANGED <<closed, failed, failures, running, work, told>>
  BY DEF PrepareSpawns
<1>2. IF t = "caller" THEN caller' = "spawn" /\ supervisor' = supervisor
                      ELSE supervisor' = "spawn" /\ caller' = caller
  BY DEF PrepareSpawns, Goto
<1>3. /\ t = "caller" => supervisor = "none" /\ caller = At(t)
      /\ t = "supervisor" => supervisor = At(t) /\ caller \notin {"spawn", "await"}
      /\ caller \notin {"work", "kill", "reap"} \/ unreaped
      /\ t = "caller" => caller \notin Executing
  BY <1>1, StarterFacts
<1>4. /\ child' \in [Child -> ChildRow] /\ process' = NoChild
      /\ \A c \in Child : Runs(c)' => Runs(c)
      /\ unreaped' = unreaped
      /\ ready' = FALSE
      /\ released' = released \/ (process # NoChild /\ released' = TRUE)
  <2>1. CASE process = NoChild
    <3>1. ready' = FALSE
      BY <1>1, <2>1 DEF AloneOK, WorkerTypeOK, FlagsOK
    <3> QED BY <1>1, <2>1, <3>1 DEF Runs, WorkerTypeOK
  <2>2. CASE process # NoChild
    <3>1. Forget /\ released' = TRUE
      BY <1>1, <2>2 DEF Reap
    <3> QED BY <2>2, <3>1, EndsRun
  <2> QED BY <2>1, <2>2
<1>5. \A c \in Child : ~Runs(c)'
  BY <1>1, <1>4 DEF AloneOK
<1>6. WorkerTypeOK'
  <2>1. FlagsOK'
    BY <1>1, <1>4, Zenon DEF WorkerTypeOK, FlagsOK
  <2> QED BY <1>1, <1>2, <1>4, <2>1 DEF WorkerTypeOK
<1>7. LockOK'
  BY <1>1, <1>2, <1>3 DEF LockOK, Starts
<1>8. AloneOK'
  BY <1>1, <1>2, <1>3, <1>4, <1>5 DEF AloneOK, LockOK, Starts
<1>9. NotedOK'
  BY <1>1, <1>2, <1>3, <1>4 DEF NotedOK, LockOK, Starts
<1>10. RequestOK'
  BY <1>1, <1>2, <1>3, <1>4 DEF RequestOK, Executing
<1> QED BY <1>6, <1>7, <1>8, <1>9, <1>10

LEMMA SpawnTooLateCoreKeeps ==
    ASSUME CoreInv, NEW t \in {"caller", "supervisor"}, SpawnTooLate(t)
    PROVE  CoreInv'
<1> USE DEF CoreInv
<1>1. /\ At(t) = "spawn" /\ closed /\ Raise(t, "other")
      /\ UNCHANGED <<ready, failed, failures, process, released, running, work, told>>
  BY DEF SpawnTooLate
<1>2. PICK c \in Child :
         /\ ~Runs(c)
         /\ \/ child' = child /\ UNCHANGED unreaped
            \/ /\ child' = [child EXCEPT ![c] = [Dead EXCEPT !.state = "dying"]]
               /\ unreaped' = TRUE
  BY DEF SpawnTooLate
<1>3. t = "supervisor" /\ supervisor = "spawn" /\ caller \in {"closing", "join", "stop", "gone"}
  BY <1>1 DEF At, LockOK, Starts
<1>4. /\ supervisor' = "count" /\ caller' = caller /\ holder' = "none"
      /\ closed' = closed
  <2>1. closed' = (closed \/ (t = "caller" /\ "other" = "startup"))
    BY <1>1 DEF Raise
  <2>2. closed' = closed
    BY <1>3, <2>1 DEF WorkerTypeOK, FlagsOK
  <2> QED BY <1>1, <1>3, <2>2 DEF Raise, AfterError, Goto
<1>5. \A d \in Child : ~Runs(d)
  BY <1>3 DEF AloneOK
<1>6. /\ child' \in [Child -> ChildRow]
      /\ \A d \in Child : d # c => child'[d] = child[d]
      /\ unreaped' = unreaped \/ unreaped' = TRUE
  <2>1. [Dead EXCEPT !.state = "dying"] \in ChildRow
    <3>1. Dead \in ChildRow
      BY DEF Dead, ChildRow, ChildState
    <3> QED BY <3>1 DEF ChildRow, ChildState
  <2> QED BY <1>2, <2>1 DEF WorkerTypeOK
<1>7. \A d \in Child : Runs(d)' => d = c
  BY <1>5, <1>6 DEF Runs
<1>8. WorkerTypeOK'
  <2>1. FlagsOK'
    BY <1>1, <1>4, <1>6, Zenon DEF WorkerTypeOK, FlagsOK
  <2> QED BY <1>1, <1>4, <1>6, <2>1 DEF WorkerTypeOK
<1>9. LockOK'
  BY <1>3, <1>4 DEF LockOK, Starts
<1>10. AloneOK'
  BY <1>1, <1>3, <1>4, <1>7 DEF AloneOK
<1>11. NotedOK' /\ RequestOK'
  BY <1>1, <1>3, <1>4 DEF NotedOK, RequestOK, Executing
<1> QED BY <1>8, <1>9, <1>10, <1>11

LEMMA SpawnCoreKeeps ==
    ASSUME CoreInv, NEW t \in {"caller", "supervisor"}, Spawn(t)
    PROVE  /\ CoreInv' /\ process' \in Child
           /\ child'[process'] = [Dead EXCEPT !.state = "starting"]
<1> USE DEF CoreInv
<1>1. /\ At(t) = "spawn" /\ ~closed
      /\ UNCHANGED <<holder, closed, ready, failed, failures, released, running,
                     work, told, unreaped>>
  BY DEF Spawn
<1>2. PICK c \in Child \ {running} :
         /\ ~Runs(c) /\ process' = c
         /\ child' = [child EXCEPT ![c] = [Dead EXCEPT !.state = "starting"]]
  BY DEF Spawn
<1>3. IF t = "caller" THEN caller' = "await" /\ supervisor' = supervisor
                      ELSE supervisor' = "await" /\ caller' = caller
  BY DEF Spawn, Goto
<1>4. /\ t = "caller" => supervisor = "none" /\ caller = At(t)
      /\ t = "supervisor" => supervisor = At(t) /\ caller \notin {"spawn", "await"}
      /\ caller \notin {"work", "kill", "reap"} \/ unreaped
      /\ t = "caller" => caller \notin Executing
  BY <1>1, StarterFacts
<1>5. /\ \A d \in Child : ~Runs(d)
      /\ process = NoChild
  BY <1>1, <1>4 DEF AloneOK
<1>6. /\ child' \in [Child -> ChildRow]
      /\ \A d \in Child : d # c => child'[d] = child[d]
      /\ child'[c] = [Dead EXCEPT !.state = "starting"]
  <2>1. [Dead EXCEPT !.state = "starting"] \in ChildRow
    <3>1. Dead \in ChildRow
      BY DEF Dead, ChildRow, ChildState
    <3> QED BY <3>1 DEF ChildRow, ChildState
  <2> QED BY <1>2, <2>1 DEF WorkerTypeOK
<1>7. \A d \in Child : Runs(d)' => d = c
  BY <1>5, <1>6 DEF Runs
<1>8. c # NoChild /\ ~ready
  BY <1>5, WorkerAssumption DEF NoChild, AloneOK
<1>9. WorkerTypeOK'
  <2>1. FlagsOK'
    BY <1>1, Zenon DEF WorkerTypeOK, FlagsOK
  <2> QED BY <1>1, <1>2, <1>3, <1>6, <2>1 DEF WorkerTypeOK
<1>10. LockOK'
  BY <1>1, <1>3, <1>4 DEF LockOK, Starts
<1>11. AloneOK'
  BY <1>1, <1>2, <1>3, <1>4, <1>7, <1>8 DEF AloneOK
<1>12. NotedOK'
  BY <1>1, <1>3, <1>4 DEF NotedOK
<1>13. RequestOK'
  BY <1>1, <1>2, <1>3, <1>4 DEF RequestOK, Executing
<1> QED BY <1>2, <1>6, <1>9, <1>10, <1>11, <1>12, <1>13

LEMMA BecomesReadyCoreKeeps ==
    ASSUME CoreInv, NEW t \in {"caller", "supervisor"}, BecomesReady(t)
    PROVE  /\ CoreInv' /\ process \in Child /\ process' = process
           /\ child'[process].state = child[process].state
           /\ child'[process].inbox = child[process].inbox
           /\ child'[process].outbox = Tail(child[process].outbox)
<1> USE DEF CoreInv
<1>1. /\ At(t) = "await" /\ ~closed /\ Says(process, "ready") /\ ready' = TRUE
      /\ child' = [child EXCEPT ![process].outbox = Tail(@)] /\ holder' = "none"
      /\ UNCHANGED <<closed, failed, failures, process, released, running, work, told,
                     unreaped>>
  BY DEF BecomesReady
<1>2. IF t = "caller" THEN caller' = "idle" /\ supervisor' = supervisor
                      ELSE supervisor' = "parked" /\ caller' = caller
  BY DEF BecomesReady, Goto
<1>3. /\ t = "caller" => supervisor = "none" /\ caller = At(t)
      /\ t = "supervisor" => supervisor = At(t) /\ caller \notin {"spawn", "await"}
      /\ caller \notin {"work", "kill", "reap"} \/ unreaped
      /\ t = "caller" => caller \notin Executing
  BY <1>1, StarterFacts
<1>4. process \in Child /\ process # NoChild
  BY <1>1, <1>3 DEF AloneOK, WorkerTypeOK
<1>5. /\ child' \in [Child -> ChildRow]
      /\ \A d \in Child : d # process => child'[d] = child[d]
      /\ child'[process].state = child[process].state
      /\ child'[process].inbox = child[process].inbox
      /\ child'[process].outbox = Tail(child[process].outbox)
  BY <1>1, <1>4, ReadFacts DEF Says
<1>6. \A d \in Child : Runs(d)' <=> Runs(d)
  BY <1>4, <1>5 DEF Runs
<1>7. WorkerTypeOK'
  <2>1. FlagsOK'
    BY <1>1, Zenon DEF WorkerTypeOK, FlagsOK
  <2> QED BY <1>1, <1>2, <1>5, <2>1 DEF WorkerTypeOK
<1>8. LockOK'
  BY <1>1, <1>2, <1>3 DEF LockOK, Starts
<1>9. AloneOK'
  BY <1>1, <1>2, <1>3, <1>4, <1>6 DEF AloneOK, LockOK, Starts
<1>10. NotedOK'
  BY <1>1, <1>2, <1>3, <1>4 DEF NotedOK
<1>11. RequestOK'
  BY <1>1, <1>2, <1>3 DEF RequestOK, Executing, Quiet
<1> QED BY <1>1, <1>4, <1>5, <1>7, <1>8, <1>9, <1>10, <1>11

LEMMA StartupFailsCoreKeeps ==
    ASSUME CoreInv, NEW t \in {"caller", "supervisor"}, StartupFails(t)
    PROVE  /\ CoreInv' /\ ready' = FALSE
           /\ {caller', supervisor'} \cap {"await", "work"} = {} \/ unreaped'
<1> USE DEF CoreInv
<1>1. PICK error \in {"closed", "startup", "other", "timeout"} :
         /\ failures' = IF error = "closed" THEN failures ELSE failures + 1
         /\ \/ /\ Reap
               /\ failed' = (failed \/ error = "startup")
               /\ Raise(t, error)
            \/ /\ Unreaped
               /\ UNCHANGED failed
               /\ Raise(t, "other")
  BY DEF StartupFails
<1>2. At(t) = "await" /\ UNCHANGED <<running, work, told>>
  BY DEF StartupFails
<1>3. PICK raised \in {"closed", "startup", "other", "timeout"} : Raise(t, raised)
  BY <1>1
<1>4. /\ t = "caller" => supervisor = "none" /\ caller = At(t)
      /\ t = "supervisor" => supervisor = At(t) /\ caller \notin {"spawn", "await"}
      /\ caller \notin {"work", "kill", "reap"} \/ unreaped
      /\ t = "caller" => caller \notin Executing
  BY <1>2, StarterFacts
<1>5. /\ IF t = "caller"
         THEN /\ caller' = IF raised = "timeout" THEN "restart"
                           ELSE IF raised = "startup" THEN "closing" ELSE "gone"
              /\ supervisor' = supervisor
         ELSE /\ supervisor' = IF raised = "startup" THEN "ended" ELSE "count"
              /\ caller' = caller
      /\ holder' = "none"
  BY <1>3 DEF Raise, AfterError, Goto
<1>6. closed' = (closed \/ (t = "caller" /\ raised = "startup"))
  BY <1>3 DEF Raise
<1>7. /\ child' \in [Child -> ChildRow]
      /\ \A c \in Child : Runs(c)' => Runs(c)
      /\ ready' = FALSE /\ process' \in {process, NoChild}
      /\ \/ /\ process' = NoChild /\ unreaped' = unreaped /\ released' = TRUE
            /\ \A c \in Child : Runs(c)' => c # process
         \/ process' = process /\ unreaped' = TRUE /\ released' = released
  <2>1. CASE Reap
    BY <2>1, EndsRun DEF Reap
  <2>2. CASE Unreaped
    BY <2>2, EndsRun
  <2> QED BY <1>1, <2>1, <2>2
<1>8. WorkerTypeOK'
  <2>1. failed' \in BOOLEAN
    <3>1. failed' = failed \/ failed' = (failed \/ error = "startup")
      BY <1>1, Zenon
    <3> QED BY <3>1, Zenon DEF WorkerTypeOK, FlagsOK
  <2>2. closed' \in BOOLEAN
    BY <1>6, Zenon DEF WorkerTypeOK, FlagsOK
  <2>3. FlagsOK'
    BY <1>7, <2>1, <2>2, Zenon DEF WorkerTypeOK, FlagsOK
  <2>4. failures' \in Nat
    BY <1>1 DEF WorkerTypeOK
  <2> QED BY <1>2, <1>5, <1>7, <2>3, <2>4 DEF WorkerTypeOK
<1>9. closed => closed' /\ (closed' => closed \/ caller' = "closing")
  BY <1>5, <1>6
<1>10. closed' <=> closed \/ (t = "caller" /\ raised = "startup")
  BY <1>6
<1>11. LockOK'
  BY <1>2, <1>4, <1>5, <1>10 DEF LockOK, Starts
<1>12. AloneOK'
  BY <1>2, <1>4, <1>5, <1>7, <1>10 DEF AloneOK, LockOK, Starts
<1>13. NotedOK'
  BY <1>2, <1>4, <1>5, <1>7, <1>10 DEF NotedOK
<1>14. RequestOK'
  BY <1>2, <1>4, <1>5, <1>7 DEF RequestOK, Executing, Quiet
<1>15. {caller', supervisor'} \cap {"await", "work"} = {} \/ unreaped'
  BY <1>2, <1>4, <1>5, <1>7, <1>11 DEF LockOK, Starts
<1> QED BY <1>7, <1>8, <1>11, <1>12, <1>13, <1>14, <1>15

-----------------------------------------------------------------------------
(* What is under way in a channel *)

LEMMA BoxFacts ==
    ASSUME NEW x
    PROVE  /\ <<x>> # <<>> /\ Head(<<x>>) = x /\ Tail(<<x>>) = <<>>
           /\ Append(<<>>, x) = <<x>>
OBVIOUS

\* What a child's own step does to its row.
RowSteps(row, new) ==
    \/ /\ row.state = "starting" /\ new.inbox = row.inbox
       /\ \/ new.state = "idle" /\ new.outbox = Append(row.outbox, Message("ready"))
          \/ new.state = "dead" /\ new.outbox = Append(row.outbox, Message("failure"))
    \/ /\ row.state = "idle" /\ row.inbox # <<>> /\ new.outbox = row.outbox
       /\ \/ /\ Head(row.inbox).kind = "work" /\ new.state = "busy"
             /\ new.work = Head(row.inbox).work /\ new.inbox = Tail(row.inbox)
          \/ /\ Head(row.inbox).kind = "shutdown" /\ new.state = "dead"
             /\ new.inbox = <<>>
    \/ /\ row.state = "calling" /\ row.inbox # <<>> /\ new.outbox = row.outbox
       /\ Head(row.inbox).kind = "reply" /\ new.state = "busy"
       /\ new.inbox = Tail(row.inbox) /\ new.work = row.work
    \/ /\ row.state = "busy" /\ new.inbox = row.inbox
       /\ \/ /\ new.state = "calling" /\ new.work = row.work
             /\ new.outbox = Append(row.outbox, About("call", row.work, TRUE))
          \/ /\ new.state = "idle"
             /\ \E ok \in BOOLEAN :
                   new.outbox = Append(row.outbox, About("result", row.work, ok))
    \/ /\ row.state # "dead" /\ new.state = "dead" /\ new.inbox = <<>>
       /\ new.outbox = row.outbox

LEMMA ChildRowSteps ==
    ASSUME WorkerTypeOK, NEW c \in Child, ChildStep(c)
    PROVE  RowSteps(child[c], child'[c])
<1>1. child \in [Child -> ChildRow] /\ child[c] \in ChildRow
  BY DEF WorkerTypeOK
<1>2. ASSUME NEW s, NEW m, Becomes(c, s, m)
      PROVE  /\ child'[c].state = s /\ child'[c].outbox = Append(child[c].outbox, m)
             /\ child'[c].inbox = child[c].inbox /\ child'[c].work = child[c].work
  <2> DEFINE box == Append(child[c].outbox, m)
  <2> DEFINE row == [child[c] EXCEPT !.state = s, !.outbox = box]
  <2>1. child' = [child EXCEPT ![c] = row]
    BY <1>2 DEF Becomes
  <2>2. box = Append(child[c].outbox, m)
    OBVIOUS
  <2> HIDE DEF box
  <2>3. /\ row.state = s /\ row.outbox = box /\ row.inbox = child[c].inbox
        /\ row.work = child[c].work
    BY <1>1 DEF ChildRow
  <2> HIDE DEF row
  <2> QED BY <1>1, <2>1, <2>2, <2>3
<1>3. CASE Initialize(c)
  BY <1>2, <1>3 DEF Initialize, RowSteps
<1>4. CASE CallBroker(c)
  BY <1>2, <1>4 DEF CallBroker, RowSteps
<1>5. CASE Finish(c)
  BY <1>2, <1>5 DEF Finish, RowSteps
<1>6. CASE Die(c)
  <2>1. child' = [child EXCEPT ![c] = [child[c] EXCEPT !.state = "dead", !.inbox = <<>>]]
    BY <1>6 DEF Die
  <2>2. child'[c] = [child[c] EXCEPT !.state = "dead", !.inbox = <<>>]
    BY <1>1, <2>1
  <2>3. /\ child'[c].state = "dead" /\ child'[c].inbox = <<>>
        /\ child'[c].outbox = child[c].outbox
    BY <1>1, <2>2, DeadRowFacts
  <2> QED BY <1>6, <2>3 DEF Die, Runs, RowSteps
<1>7. CASE Receive(c)
  <2> DEFINE rest == Tail(child[c].inbox)
  <2> DEFINE id == Head(child[c].inbox).work
  <2> DEFINE served == [child[c] EXCEPT !.state = "busy", !.inbox = rest, !.work = id]
  <2> DEFINE gone == [child[c] EXCEPT !.state = "dead", !.inbox = <<>>]
  <2> DEFINE told0 == [child[c] EXCEPT !.state = "busy", !.inbox = rest]
  <2>1. \/ /\ child[c].state = "idle" /\ Hears(c, "work")
           /\ child' = [child EXCEPT ![c] = served]
        \/ /\ child[c].state = "idle" /\ Hears(c, "shutdown")
           /\ child' = [child EXCEPT ![c] = gone]
        \/ /\ child[c].state = "calling" /\ Hears(c, "reply")
           /\ child' = [child EXCEPT ![c] = told0]
    BY <1>7 DEF Receive
  <2>2. rest = Tail(child[c].inbox) /\ id = Head(child[c].inbox).work
    OBVIOUS
  <2>3. gone.state = "dead" /\ gone.inbox = <<>> /\ gone.outbox = child[c].outbox
    BY <1>1, DeadRowFacts
  <2> HIDE DEF rest, id
  <2>4. /\ served.state = "busy" /\ served.inbox = rest /\ served.work = id
        /\ served.outbox = child[c].outbox
    BY <1>1 DEF ChildRow
  <2>5. /\ told0.state = "busy" /\ told0.inbox = rest /\ told0.work = child[c].work
        /\ told0.outbox = child[c].outbox
    BY <1>1 DEF ChildRow
  <2> HIDE DEF served, gone, told0
  <2>6. CASE child[c].state = "idle" /\ Hears(c, "work")
             /\ child' = [child EXCEPT ![c] = served]
    <3>1. child'[c] = served
      BY <1>1, <2>6
    <3> QED BY <2>2, <2>4, <2>6, <3>1 DEF Hears, RowSteps
  <2>7. CASE child[c].state = "idle" /\ Hears(c, "shutdown")
             /\ child' = [child EXCEPT ![c] = gone]
    <3>1. child'[c] = gone
      BY <1>1, <2>7
    <3> QED BY <2>3, <2>7, <3>1 DEF Hears, RowSteps
  <2>8. CASE child[c].state = "calling" /\ Hears(c, "reply")
             /\ child' = [child EXCEPT ![c] = told0]
    <3>1. child'[c] = told0
      BY <1>1, <2>8
    <3> QED BY <2>2, <2>5, <2>8, <3>1 DEF Hears, RowSteps
  <2> QED BY <2>1, <2>6, <2>7, <2>8
<1> QED BY <1>3, <1>4, <1>5, <1>6, <1>7 DEF ChildStep

\* A child keeps to the protocol by itself.
LEMMA RowsKeep ==
    ASSUME NEW row, NEW new, NEW id, RowSteps(row, new)
    PROVE  /\ Starting(row) => Starting(new)
           /\ Clean(row) => Clean(new)
           /\ Serving(row, id) => Serving(new, id)
<1> DEFINE request == About("work", id, TRUE)
<1> DEFINE reply == About("reply", id, TRUE)
<1>1. /\ <<request>> # <<>> /\ Head(<<request>>).kind = "work"
      /\ Head(<<request>>).work = id /\ Tail(<<request>>) = <<>>
  BY BoxFacts DEF About
<1>2. /\ <<reply>> # <<>> /\ Head(<<reply>>).kind = "reply" /\ Tail(<<reply>>) = <<>>
  BY BoxFacts DEF About
<1>3. Starting(row) => Starting(new)
  BY BoxFacts DEF Starting, RowSteps
<1>4. Clean(row) => Clean(new)
  BY DEF Clean, RowSteps
<1>5. ASSUME Serving(row, id) PROVE Serving(new, id)
  <2>1. CASE /\ row.state = "idle" /\ row.inbox = <<request>> /\ row.outbox = <<>>
    BY <1>1, <2>1 DEF RowSteps, Serving
  <2>2. CASE /\ row.state = "busy" /\ row.work = id
             /\ row.inbox = <<>> /\ row.outbox = <<>>
    BY <2>2, BoxFacts DEF RowSteps, Serving
  <2>3. CASE /\ row.state \in {"calling", "dead"}
             /\ row.state = "calling" => row.work = id
             /\ row.inbox = <<>> /\ row.outbox = <<About("call", id, TRUE)>>
    BY <2>3 DEF RowSteps, Serving
  <2>4. CASE /\ row.state = "calling" /\ row.work = id
             /\ row.inbox = <<reply>> /\ row.outbox = <<>>
    BY <1>2, <2>4 DEF RowSteps, Serving
  <2>5. CASE /\ row.state \in {"idle", "dead"} /\ row.inbox = <<>>
             /\ \E ok \in BOOLEAN : row.outbox = <<About("result", id, ok)>>
    BY <2>5 DEF RowSteps, Serving
  <2>6. CASE row.state = "dead" /\ row.inbox = <<>> /\ row.outbox = <<>>
    BY <2>6 DEF RowSteps, Serving
  <2> QED BY <1>5, <2>1, <2>2, <2>3, <2>4, <2>5, <2>6 DEF Serving
<1> QED BY <1>3, <1>4, <1>5

LEMMA ChildChannelKeeps ==
    ASSUME WorkerInv, NEW c \in Child, ChildStep(c)
    PROVE  ChannelOK'
<1>1. /\ \A d \in Child : d # c => child'[d] = child[d]
      /\ UNCHANGED <<caller, supervisor, closed, ready, process, running, work, unreaped>>
  BY ChildFacts DEF WorkerInv, threads, flags
<1>2. RowSteps(child[c], child'[c])
  BY ChildRowSteps DEF WorkerInv
<1>3. \A d \in Child :
         /\ Starting(child[d]) => Starting(child'[d])
         /\ Clean(child[d]) => Clean(child'[d])
         /\ Serving(child[d], work) => Serving(child'[d], work)
  <2> TAKE d \in Child
  <2>1. CASE d = c
    BY <1>2, <2>1, RowsKeep
  <2>2. CASE d # c
    BY <1>1, <2>2
  <2> QED BY <2>1, <2>2
<1>4. /\ "await" \in {caller, supervisor} \/ ready => process \in Child
      /\ caller = "work" => running \in Child
  BY DEF WorkerInv, WorkerTypeOK, AloneOK, RequestOK, Executing
<1>5. CASE unreaped \/ closed
  BY <1>1, <1>5 DEF ChannelOK
<1>6. CASE ~unreaped /\ ~closed
  <2>1. "await" \in {caller, supervisor} => Starting(child'[process])
    BY <1>3, <1>4, <1>6 DEF WorkerInv, ChannelOK
  <2>2. caller = "work" => Serving(child'[running], work)
    BY <1>3, <1>4, <1>6 DEF WorkerInv, ChannelOK
  <2>3. ready /\ caller \notin {"work", "kill"} => Clean(child'[process])
    BY <1>3, <1>4, <1>6 DEF WorkerInv, ChannelOK
  <2> QED BY <1>1, <2>1, <2>2, <2>3 DEF ChannelOK
<1> QED BY <1>5, <1>6

\* A step that changes no row, makes no child ready that was not, and sends
\* nobody into a request or a start-up.
LEMMA StillChannelKeeps ==
    ASSUME WorkerInv, child' = child, process' = process, running' = running,
           work' = work, unreaped' = unreaped, closed => closed',
           ready' => ready \/ unreaped,
           "await" \in {caller', supervisor'} => "await" \in {caller, supervisor},
           caller' = "work" => caller = "work",
           caller \in {"work", "kill"} => caller' = caller
    PROVE  ChannelOK'
<1>1. CASE unreaped \/ closed
  BY <1>1 DEF ChannelOK
<1>2. CASE ~unreaped /\ ~closed
  <2>1. "await" \in {caller', supervisor'} => Starting(child[process])
    BY <1>2 DEF WorkerInv, ChannelOK
  <2>2. caller' = "work" => Serving(child[running], work)
    BY <1>2 DEF WorkerInv, ChannelOK
  <2>3. ready' /\ caller' \notin {"work", "kill"} => Clean(child[process])
    BY <1>2 DEF WorkerInv, ChannelOK
  <2> QED BY <2>1, <2>2, <2>3 DEF ChannelOK
<1> QED BY <1>1, <1>2

\* A step that leaves no child ready and nobody at work.
LEMMA EndedChannelKeeps ==
    ASSUME ~ready', {caller', supervisor'} \cap {"await", "work"} = {} \/ unreaped'
    PROVE  ChannelOK'
BY DEF ChannelOK

LEMMA MessagesChannelKeeps ==
    ASSUME WorkerInv, Messages
    PROVE  ChannelOK'
<1> USE DEF WorkerInv
<1>1. caller = "work" => running \in Child
  BY DEF RequestOK, Executing, WorkerTypeOK
<1>2. UNCHANGED <<supervisor, closed, ready, process, running, work, unreaped>>
  BY <1>1, MessagesFacts
<1>3. CASE unreaped \/ closed
  BY <1>2, <1>3 DEF ChannelOK
<1>4. CASE ~unreaped /\ ~closed /\ Breaks
  <2>1. caller = "work" /\ caller' = "kill" /\ supervisor # "await"
    BY <1>4 DEF Breaks, Broken, RequestOK, Executing, Quiet
  <2> QED BY <1>2, <2>1 DEF ChannelOK
<1>5. CASE ~unreaped /\ ~closed /\ (BrokerCall \/ WorkResult)
  <2>1. /\ caller = "work" /\ running \in Child /\ process = running
        /\ supervisor # "await" /\ Serving(child[running], work)
        /\ child[running].outbox # <<>> /\ child[running] \in ChildRow
        /\ Head(child[running].outbox).work = work
    BY <1>1, <1>5 DEF BrokerCall, WorkResult, Says, RequestOK, Executing, Quiet, ChannelOK,
           WorkerTypeOK
  <2> DEFINE heard == [child EXCEPT ![running].outbox = Tail(@)]
  <2>2. /\ heard \in [Child -> ChildRow]
        /\ heard[running].state = child[running].state
        /\ heard[running].work = child[running].work
        /\ heard[running].inbox = child[running].inbox
        /\ heard[running].outbox = Tail(child[running].outbox)
    BY <2>1, ReadFacts
  <2>3. CASE WorkResult
    <3>1. Head(child[running].outbox).kind = "result" /\ child' = heard /\ caller' = "finally"
      BY <2>3 DEF WorkResult, Says
    <3>2. \E ok \in BOOLEAN : child[running].outbox = <<About("result", work, ok)>>
      <4>1. Head(<<About("call", work, TRUE)>>).kind = "call"
        BY BoxFacts DEF About
      <4> QED BY <2>1, <3>1, <4>1 DEF Serving
    <3>3. child[running].state \in {"idle", "dead"} /\ child[running].inbox = <<>>
      <4>1. \A ok \in BOOLEAN : Head(<<About("result", work, ok)>>).kind = "result"
        BY BoxFacts DEF About
      <4>2. Head(<<About("call", work, TRUE)>>).kind = "call"
        BY BoxFacts DEF About
      <4> QED BY <2>1, <3>1, <4>2 DEF Serving
    <3>4. Clean(child'[process])
      BY <2>1, <2>2, <3>1, <3>2, <3>3, BoxFacts DEF Clean
    <3> QED BY <1>2, <2>1, <3>1, <3>4 DEF ChannelOK
  <2>4. CASE BrokerCall
    <3>1. Head(child[running].outbox).kind = "call" /\ caller' = caller
      BY <2>4 DEF BrokerCall, Says, threads
    <3>2. /\ child[running].outbox = <<About("call", work, TRUE)>>
          /\ child[running].inbox = <<>> /\ child[running].state \in {"calling", "dead"}
          /\ child[running].state = "calling" => child[running].work = work
      <4>1. \A ok \in BOOLEAN : Head(<<About("result", work, ok)>>).kind = "result"
        BY BoxFacts DEF About
      <4> QED BY <2>1, <3>1, <4>1 DEF Serving
    <3>3. heard[running].outbox = <<>>
      BY <2>2, <3>2, BoxFacts
    <3>4. CASE Executes(running)
      <4>1. child[running].state = "calling"
        BY <3>2, <3>4 DEF Executes, Runs
      <4> DEFINE row == heard[running]
      <4> DEFINE m == About("reply", work, TRUE)
      <4> DEFINE got == [row EXCEPT !.inbox = Append(row.inbox, m)]
      <4>2. child' = [heard EXCEPT ![running] = got]
        BY <2>4, <3>4 DEF BrokerCall
      <4>3. child'[running] = got
        BY <2>1, <2>2, <4>2
      <4>4. row \in ChildRow /\ m \in Note
        BY <2>1, <2>2, NotesAreNotes DEF WorkerTypeOK
      <4>5. /\ row.state = "calling" /\ row.work = work /\ row.inbox = <<>>
            /\ row.outbox = <<>>
        BY <2>2, <3>2, <3>3, <4>1
      <4> HIDE DEF row, m, heard
      <4>6. /\ got.state = row.state /\ got.work = row.work
            /\ got.inbox = Append(row.inbox, m) /\ got.outbox = row.outbox
        BY <4>4, SendFacts
      <4> HIDE DEF got
      <4>7. got.inbox = <<m>>
        BY <4>5, <4>6, BoxFacts
      <4>8. Serving(child'[running], work)
        BY <4>3, <4>5, <4>6, <4>7 DEF Serving, m
      <4> QED BY <1>2, <2>1, <3>1, <4>8 DEF ChannelOK
    <3>5. CASE ~Executes(running)
      <4>1. child' = heard
        BY <2>4, <3>5 DEF BrokerCall
      <4>2. child[running].state = "dead"
        BY <2>1, <3>2, <3>5, WorkerAssumption DEF Executes, Runs, NoChild
      <4>3. Serving(child'[running], work)
        BY <2>2, <3>2, <3>3, <4>1, <4>2 DEF Serving
      <4> QED BY <1>2, <2>1, <3>1, <4>3 DEF ChannelOK
    <3> QED BY <3>4, <3>5
  <2> QED BY <1>5, <2>3, <2>4
<1>6. CASE ~unreaped /\ ~closed /\ Shutdown
  BY <1>6 DEF Shutdown, LockOK
<1> QED BY <1>3, <1>4, <1>5, <1>6 DEF Messages

LEMMA ExecuteChannelKeeps ==
    ASSUME WorkerInv, Execute, IsReady
    PROVE  ChannelOK'
<1> USE DEF WorkerInv
<1>1. /\ caller = "execute" /\ caller' = "work" /\ running' = process
      /\ UNCHANGED <<supervisor, closed, ready, process, unreaped>>
      /\ child' = Send(process, About("work", work', TRUE))
  BY DEF Execute
<1>2. CASE unreaped \/ closed
  BY <1>1, <1>2 DEF ChannelOK
<1>3. CASE ~unreaped /\ ~closed
  <2>1. Clean(child[process]) /\ ready /\ Runs(process) /\ supervisor # "await"
    BY <1>1, <1>3 DEF ChannelOK, IsReady, AloneOK
  <2>2. Executes(process)
    BY <2>1 DEF Executes, Clean
  <2>3. CoreInv
    BY DEF CoreInv
  <2>4. /\ process \in Child
        /\ child'[process] = child[process]
           \/ /\ child'[process].state = child[process].state
              /\ child'[process].inbox =
                    Append(child[process].inbox, About("work", work', TRUE))
              /\ child'[process].outbox = child[process].outbox
    BY <2>3, ExecuteCoreKeeps
  <2>5. child' = [child EXCEPT ![process].inbox = Append(@, About("work", work', TRUE))]
    BY <1>1, <2>2 DEF Send
  <2>6. child'[process].inbox = Append(child[process].inbox, About("work", work', TRUE))
    BY <2>4, <2>5 DEF WorkerTypeOK, ChildRow
  <2>7. child'[process].inbox = <<About("work", work', TRUE)>>
    BY <2>1, <2>6, BoxFacts DEF Clean
  <2>8. child'[process].state = "idle" /\ child'[process].outbox = <<>>
    BY <2>1, <2>4 DEF Clean, Runs
  <2>9. Serving(child'[running'], work')
    BY <1>1, <2>7, <2>8 DEF Serving
  <2> QED BY <1>1, <2>1, <2>9 DEF ChannelOK
<1> QED BY <1>2, <1>3

LEMMA BecomesReadyChannelKeeps ==
    ASSUME WorkerInv, NEW t \in {"caller", "supervisor"}, BecomesReady(t)
    PROVE  ChannelOK'
<1> USE DEF WorkerInv
<1>1. CoreInv
  BY DEF CoreInv
<1>2. /\ At(t) = "await" /\ ~closed /\ Says(process, "ready")
      /\ UNCHANGED <<closed, process, unreaped>>
  BY DEF BecomesReady
<1>3. IF t = "caller" THEN caller' = "idle" /\ supervisor' = supervisor
                      ELSE supervisor' = "parked" /\ caller' = caller
  BY DEF BecomesReady, Goto
<1>4. /\ t = "caller" => supervisor = "none" /\ caller = At(t)
      /\ t = "supervisor" => supervisor = At(t) /\ caller \notin {"spawn", "await"}
      /\ caller \notin {"work", "kill", "reap"} \/ unreaped
  BY <1>1, <1>2, StarterFacts
<1>5. CASE unreaped
  BY <1>2, <1>5 DEF ChannelOK
<1>6. CASE ~unreaped
  <2>1. Starting(child[process])
    BY <1>2, <1>4, <1>6 DEF ChannelOK
  <2>2. /\ process \in Child
        /\ child'[process].state = child[process].state
        /\ child'[process].inbox = child[process].inbox
        /\ child'[process].outbox = Tail(child[process].outbox)
    BY <1>1, BecomesReadyCoreKeeps
  <2>3. /\ child[process].outbox = <<Message("ready")>> /\ child[process].inbox = <<>>
        /\ child[process].state \in {"idle", "dead"}
    <3>1. Head(<<Message("failure")>>).kind = "failure"
      BY BoxFacts DEF Message
    <3> QED BY <1>2, <2>1, <3>1 DEF Starting, Says
  <2>4. Clean(child'[process])
    BY <2>2, <2>3, BoxFacts DEF Clean
  <2> QED BY <1>2, <1>3, <1>4, <1>6, <2>4 DEF ChannelOK
<1> QED BY <1>5, <1>6

LEMMA SpawnChannelKeeps ==
    ASSUME WorkerInv, NEW t \in {"caller", "supervisor"}, Spawn(t)
    PROVE  ChannelOK'
<1> USE DEF WorkerInv
<1>1. CoreInv
  BY DEF CoreInv
<1>2. At(t) = "spawn" /\ UNCHANGED <<closed, unreaped, ready>>
  BY DEF Spawn
<1>3. IF t = "caller" THEN caller' = "await" /\ supervisor' = supervisor
                      ELSE supervisor' = "await" /\ caller' = caller
  BY DEF Spawn, Goto
<1>4. /\ t = "caller" => supervisor = "none" /\ caller = At(t)
      /\ t = "supervisor" => supervisor = At(t) /\ caller \notin {"spawn", "await"}
      /\ caller \notin {"work", "kill", "reap"} \/ unreaped
  BY <1>1, <1>2, StarterFacts
<1>5. child'[process'] = [Dead EXCEPT !.state = "starting"]
  BY <1>1, SpawnCoreKeeps
<1>6. Starting(child'[process'])
  BY <1>5 DEF Starting, Dead
<1>7. ~ready
  BY <1>2, <1>4 DEF AloneOK
<1> QED BY <1>2, <1>3, <1>4, <1>6, <1>7 DEF ChannelOK

-----------------------------------------------------------------------------
(* The invariant *)

LEMMA PreparationKeeps ==
    ASSUME WorkerInv, NEW t \in {"caller", "supervisor"}, Preparation(t)
    PROVE  WorkerInv'
<1>1. CoreInv
  BY DEF CoreInv, WorkerInv
<1>2. CASE Idle(t)
  <2>1. CoreInv'
    BY <1>1, <1>2, IdleCoreKeeps
  <2>2. /\ child' = child /\ process' = process /\ running' = running
        /\ work' = work /\ unreaped' = unreaped
    BY <1>2 DEF Idle, PrepareRefuses, PrepareReuses, SpawnRefused
  <2>3. /\ At(t) \in {"prepare", "spawn", "await"}
        /\ At(t) = "prepare" => holder = "none"
    BY <1>2 DEF Idle, PrepareRefuses, PrepareReuses, SpawnRefused
  <2>4. /\ t = "caller" => supervisor = "none" /\ caller = At(t)
        /\ t = "supervisor" => supervisor = At(t) /\ caller \notin {"spawn", "await"}
    BY <1>1, <2>3, StarterFacts
  <2>5. closed => closed'
    BY <1>2 DEF Idle, PrepareRefuses, PrepareReuses, SpawnRefused, Raise
  <2>6. ready' => ready \/ unreaped \/ closed
    BY <1>1, <1>2, <2>4 DEF Idle, PrepareRefuses, PrepareReuses, SpawnRefused, CoreInv,
           NotedOK, LockOK, Starts, Runs
  <2>7. CASE closed
    BY <2>1, <2>5, <2>7 DEF ChannelOK, CoreInv, WorkerInv
  <2>8. CASE ~closed
    <3>1. IF t = "caller" THEN caller' \in {"idle", "gone"} /\ supervisor' = supervisor
          ELSE supervisor' \in {"parked", "count"} /\ caller' = caller
      BY <1>2 DEF Idle, PrepareRefuses, PrepareReuses, SpawnRefused, Raise, AfterError,
             Goto
    <3>2. ChannelOK'
      BY <2>2, <2>3, <2>4, <2>5, <2>6, <2>8, <3>1, StillChannelKeeps
    <3> QED BY <2>1, <3>2 DEF CoreInv, WorkerInv
  <2> QED BY <2>7, <2>8
<1>3. CASE PrepareSpawns(t)
  <2>1. CoreInv'
    BY <1>1, <1>3, PrepareSpawnsCoreKeeps
  <2>2. At(t) = "prepare" /\ holder = "none" /\ unreaped' = unreaped
    BY <1>3 DEF PrepareSpawns, Reap, Forget
  <2>3. /\ t = "caller" => supervisor = "none" /\ caller = At(t)
        /\ t = "supervisor" => supervisor = At(t) /\ caller \notin {"spawn", "await"}
        /\ caller \notin {"work", "kill", "reap"} \/ unreaped
    BY <1>1, <2>2, StarterFacts
  <2>4. IF t = "caller" THEN caller' = "spawn" /\ supervisor' = supervisor
                        ELSE supervisor' = "spawn" /\ caller' = caller
    BY <1>3 DEF PrepareSpawns, Goto
  <2>5. ~ready'
    BY <2>1, <2>4 DEF CoreInv, AloneOK
  <2>6. {caller', supervisor'} \cap {"await", "work"} = {} \/ unreaped'
    BY <2>2, <2>3, <2>4
  <2> QED BY <2>1, <2>5, <2>6, EndedChannelKeeps DEF CoreInv, WorkerInv
<1>4. CASE SpawnTooLate(t)
  <2>1. CoreInv'
    BY <1>1, <1>4, SpawnTooLateCoreKeeps
  <2>2. closed'
    BY <1>4 DEF SpawnTooLate, Raise
  <2> QED BY <2>1, <2>2 DEF CoreInv, WorkerInv, ChannelOK
<1>5. CASE Spawn(t)
  BY <1>1, <1>5, SpawnCoreKeeps, SpawnChannelKeeps DEF CoreInv, WorkerInv
<1>6. CASE BecomesReady(t)
  BY <1>1, <1>6, BecomesReadyCoreKeeps, BecomesReadyChannelKeeps DEF CoreInv, WorkerInv
<1>7. CASE StartupFails(t)
  BY <1>1, <1>7, StartupFailsCoreKeeps, EndedChannelKeeps DEF CoreInv, WorkerInv
<1> QED BY <1>2, <1>3, <1>4, <1>5, <1>6, <1>7 DEF Preparation, Idle

LEMMA TurnsKeep ==
    ASSUME WorkerInv, Turns
    PROVE  WorkerInv'
<1>1. CoreInv'
  BY TurnsCoreKeeps DEF CoreInv, WorkerInv
<1>2. /\ child' = child /\ process' = process /\ running' = running
      /\ work' = work /\ unreaped' = unreaped /\ ready' = ready
  BY DEF Turns, Enter, Count, Wake, Renew, Ask, NextRequest, Finally, Close,
         CloseWithoutLock, StopSupervisor, flags
<1>3. /\ closed => closed'
      /\ "await" \in {caller', supervisor'} => "await" \in {caller, supervisor}
      /\ caller' = "work" => caller = "work"
      /\ caller \in {"work", "kill"} => caller' = caller
  BY DEF Turns, Enter, Count, Wake, Renew, Ask, NextRequest, Finally, Close,
         CloseWithoutLock, StopSupervisor, flags
<1>4. ChannelOK'
  BY <1>2, <1>3, StillChannelKeeps
<1> QED BY <1>1, <1>4 DEF CoreInv, WorkerInv

LEMMA NoticesKeep ==
    ASSUME WorkerInv, Notices
    PROVE  WorkerInv'
<1>1. CoreInv'
  BY NoticesCoreKeeps DEF CoreInv, WorkerInv
<1>2. /\ caller \in {"ask", "execute", "restart", "warm", "rewarm"} /\ holder = "none"
      /\ UNCHANGED <<supervisor, closed, running, work>>
      /\ caller' \in {"batch", "restart", "idle", "warm", "finally"}
  BY DEF Notices, Batch, Execute, RestartInBackground
<1>3. Notice
  BY DEF Notices, Batch, Execute, RestartInBackground, Notice, IsReady
<1>4. CASE UNCHANGED <<ready, process, child, released, unreaped>>
  <2>1. ChannelOK'
    BY <1>2, <1>4, StillChannelKeeps
  <2> QED BY <1>1, <2>1 DEF CoreInv, WorkerInv
<1>5. CASE Reap
  <2>1. ready' = FALSE /\ supervisor' # "await"
    BY <1>2, <1>5 DEF Reap, Forget, WorkerInv, LockOK, Starts
  <2> QED BY <1>1, <1>2, <2>1, EndedChannelKeeps DEF CoreInv, WorkerInv
<1> QED BY <1>3, <1>4, <1>5 DEF Notice

LEMMA EndingsKeep ==
    ASSUME WorkerInv, \/ Endings
                      \/ RestartInBackground /\ supervisor' # supervisor
    PROVE  WorkerInv'
<1>1. CoreInv'
  BY EndingsCoreKeeps, BackgroundCoreKeeps DEF CoreInv, WorkerInv
<1>2. CASE Endings
  <2>1. ready' = FALSE
    BY <1>2 DEF Endings, Kill, ReapStopped, Join, Reap, Forget, Unreaped
  <2>2. caller' \notin {"await", "work"} /\ supervisor' = supervisor /\ holder = "none"
    BY <1>2 DEF Endings, Kill, ReapStopped, Join, WorkerInv, LockOK
  <2>3. supervisor' # "await"
    BY <2>2 DEF WorkerInv, LockOK, Starts
  <2> QED BY <1>1, <2>1, <2>2, <2>3, EndedChannelKeeps DEF CoreInv, WorkerInv
<1>3. CASE RestartInBackground /\ supervisor' # supervisor
  <2>1. ~ready'
    BY <1>3 DEF RestartInBackground, Forget, WorkerInv
  <2>2. caller' \notin {"await", "work"} /\ supervisor' = "loop"
    BY <1>3 DEF RestartInBackground
  <2> QED BY <1>1, <2>1, <2>2, EndedChannelKeeps DEF CoreInv, WorkerInv
<1> QED BY <1>2, <1>3

LEMMA NextKeeps == WorkerInv /\ [Next]_vars => WorkerInv'
<1> SUFFICES ASSUME WorkerInv, [Next]_vars
             PROVE  WorkerInv'
  OBVIOUS
<1>1. CASE \E c \in Child : ChildStep(c)
  BY <1>1, ChildCoreKeeps, ChildChannelKeeps DEF CoreInv, WorkerInv
<1>2. CASE Messages
  BY <1>2, MessagesCoreKeeps, MessagesChannelKeeps DEF CoreInv, WorkerInv
<1>3. CASE Turns
  BY <1>3, TurnsKeep
<1>4. CASE Preparation("caller") \/ Preparation("supervisor")
  BY <1>4, PreparationKeeps
<1>5. CASE Execute /\ IsReady
  BY <1>5, ExecuteCoreKeeps, ExecuteChannelKeeps DEF CoreInv, WorkerInv
<1>6. CASE Notices
  BY <1>6, NoticesKeep
<1>7. CASE Endings \/ (RestartInBackground /\ supervisor' # supervisor)
  BY <1>7, EndingsKeep
<1>8. CASE UNCHANGED vars
  <2>1. /\ UNCHANGED <<caller, supervisor, holder, closed, ready, failed, failures>>
        /\ UNCHANGED <<process, released, child, running, work, told, unreaped>>
    BY <1>8 DEF vars, threads, flags
  <2> QED BY <2>1 DEF WorkerInv, WorkerTypeOK, FlagsOK, LockOK, AloneOK, NotedOK,
             RequestOK, ChannelOK, Runs
<1>9. CASE Caller
  <2>1. CASE RestartInBackground
    BY <1>6, <1>7, <2>1 DEF Notices
  <2>2. CASE Execute
    BY <1>5, <1>6, <2>2 DEF Notices
  <2>3. CASE Batch
    BY <1>6, <2>3 DEF Notices
  <2>4. CASE NextRequest \/ Finally \/ CloseWithoutLock \/ StopSupervisor
    BY <1>3, <2>4 DEF Turns
  <2>5. CASE BrokerCall \/ WorkResult \/ Breaks \/ Shutdown
    BY <1>2, <2>5 DEF Messages
  <2>6. CASE Kill \/ ReapStopped \/ Join
    BY <1>7, <2>6 DEF Endings
  <2> QED BY <1>4, <1>9, <2>1, <2>2, <2>3, <2>4, <2>5, <2>6 DEF Caller
<1>10. CASE Ask \/ Close \/ Supervisor
  BY <1>3, <1>4, <1>10 DEF Turns, Supervisor
<1> QED BY <1>1, <1>8, <1>9, <1>10 DEF Next

LEMMA InvHolds == Spec => []WorkerInv
<1> QED BY InitInv, NextKeeps, PTL DEF Spec

-----------------------------------------------------------------------------
(* Theorems *)

\* Never two native workers at a time, with any number of them to choose from,
\* of attempts and of requests.
THEOREM OneChildAtATime == Spec => []OneChild
<1>1. WorkerInv => OneChild
  <2> SUFFICES ASSUME WorkerInv
               PROVE  OneChild
    OBVIOUS
  <2> DEFINE alive == {c \in Child : Runs(c)}
  <2>1. \A c, d \in alive : c = d
    BY DEF WorkerInv, AloneOK
  <2>2. CASE alive = {}
    BY <2>2, FS_EmptySet DEF OneChild
  <2>3. CASE alive # {}
    <3>1. PICK c : c \in alive
      BY <2>3
    <3>2. alive = {c}
      BY <2>1, <3>1
    <3>3. Cardinality(alive) = 1
      BY <3>2, FS_Singleton
    <3> QED BY <3>3 DEF OneChild
  <2> QED BY <2>2, <2>3
<1> QED BY <1>1, InvHolds, PTL

\* A child that may be used has nothing of an earlier request under way in its
\* channel, whatever failed, was killed or was replaced before.
THEOREM ChannelStaysInStep == Spec => []ChannelIsInStep
<1>1. WorkerInv => ChannelIsInStep
  BY DEF WorkerInv, ChannelOK, ChannelIsInStep, Executing, Clean
<1> QED BY <1>1, InvHolds, PTL

\* A caller ends only the child that had its request.
THEOREM CallersKillTheirOwn == Spec => []KillsItsOwn
<1>1. WorkerInv => KillsItsOwn
  BY DEF WorkerInv, RequestOK, KillsItsOwn
<1> QED BY <1>1, InvHolds, PTL

=============================================================================
