---------------------------- MODULE NativeService ----------------------------
(***************************************************************************)
(* The coordinator behind its sockets (service.py, server.py) and the      *)
(* worker processes that talk to it (worker.py).                           *)
(*                                                                         *)
(* One I/O thread serves one message at a time; the learner thread calls   *)
(* the coordinator in between.  A worker asks one question on its control  *)
(* channel, waits for the next reply with a timeout, and takes whatever    *)
(* arrives as the answer.  Messages of one worker arrive in order; replies *)
(* may come late or be dropped, and processes may die.                     *)
(***************************************************************************)
EXTENDS NativeCoordinator, Sequences

CONSTANTS
    LearnerDrains,  \* the learner thread asks for a drain when it is ready
    AbortRaces,     \* it may abort while the I/O thread starts a lease
    PlanningFails,  \* no shard plan may fit a window that has just opened
    MaxFaults       \* bound: replies that come late or are dropped

ASSUME WireAssumption ==
    /\ Nobody \notin Worker
    /\ LearnerDrains \in BOOLEAN
    /\ AbortRaces \in BOOLEAN
    /\ PlanningFails \in BOOLEAN
    /\ MaxFaults \in Nat

VARIABLES
    \* worker processes
    at,          \* "off", collecting or uploading, or the answer it waits for
    own,         \* its session, counted from 1
    held,        \* _active_attempt_id
    discarding,  \* discard_attempt in _await_collection
    sent,        \* part_sequence: parts acknowledged
    heard,       \* window of the last receipt it has read, 0 for none
    \* channels
    requests,    \* control messages to the coordinator
    replies,     \* control replies to the process
    uploads,     \* data messages to the coordinator
    acks,        \* data replies to the process
    \* service
    delivered,   \* _receipt_delivered
    chosen,      \* what the I/O thread has begun: the lease it has picked and
                 \* not yet started, or NoPlan
    faults       \* late or dropped replies so far

process  == <<own, held, discarding, sent, heard>>
channels == <<requests, replies, uploads, acks>>
service  == <<delivered, chosen>>
wireVars == <<at, process, channels, service, faults>>
allVars  == <<vars, wireVars>>

NoAttempt == [window |-> 0, lease |-> 0, try |-> 0]
Nothing   == [worker |-> Nobody, lease |-> 0, session |-> 0]
NoPlan    == [worker |-> Nobody, lease |-> 0, session |-> 1]

LoopStates == {"register", "ready", "work", "poll"}
Waiting    == LoopStates \cup {"beat", "final", "complete", "failed"}

Free == chosen = Nothing

(***************************************************************************)
(* Channels                                                                *)
(***************************************************************************)

Request(w, kind) ==
    [kind |-> kind, session |-> own[w],
     attempt |-> IF kind \in {"ready", "work"} THEN NoAttempt ELSE held[w]]

\* _request_control: send and wait in state s
Ask(w, s, kind) ==
    /\ at' = [at EXCEPT ![w] = s]
    /\ requests' = [requests EXCEPT ![w] = Append(@, Request(w, kind))]

\* the process in state s takes the next reply, one of kinds, as its answer
Answered(w, s, kinds) ==
    /\ at[w] = s
    /\ replies[w] # <<>>
    /\ Head(replies[w]).kind \in kinds

Pop(channel, w) == [channel EXCEPT ![w] = Tail(@)]

\* _send_router_response: a reply to a process that is gone is dropped
Reply(w, s, kind, a) ==
    replies' = IF at[w] # "off" /\ own[w] = s
               THEN [replies EXCEPT ![w] = Append(@, [kind |-> kind, attempt |-> a])]
               ELSE replies

(***************************************************************************)
(* Worker process: run                                                     *)
(***************************************************************************)

StartProcess(w) ==
    /\ at[w] = "off"
    /\ own[w] < MaxSession
    /\ own' = [own EXCEPT ![w] = @ + 1]
    /\ at' = [at EXCEPT ![w] = "register"]
    /\ requests' = [requests EXCEPT ![w] = Append(@,
                      [kind |-> "register", session |-> own[w] + 1, attempt |-> NoAttempt])]
    /\ UNCHANGED <<vars, held, discarding, sent, heard, replies, uploads, acks,
                   service, faults>>

\* the process ends; what it has sent stays on its way
Exit(w) ==
    /\ at' = [at EXCEPT ![w] = "off"]
    /\ held' = [held EXCEPT ![w] = NoAttempt]
    /\ discarding' = [discarding EXCEPT ![w] = FALSE]
    /\ sent' = [sent EXCEPT ![w] = 0]
    /\ heard' = [heard EXCEPT ![w] = 0]
    /\ replies' = [replies EXCEPT ![w] = <<>>]
    /\ acks' = [acks EXCEPT ![w] = <<>>]
    /\ UNCHANGED <<vars, own, requests, uploads, service>>

Crash(w) ==
    /\ at[w] # "off"
    /\ Exit(w)
    /\ UNCHANGED faults

\* any other reply in the loop raises out of run
LoopRaises(w) ==
    /\ \/ Answered(w, "register", {"abort", "lease", "drain", "receipt"})
       \/ Answered(w, "ready", {"abort", "lease", "drain", "receipt"})
       \/ Answered(w, "work", {"abort"})
       \/ Answered(w, "poll", {"abort", "lease"})
    /\ Exit(w)
    /\ UNCHANGED faults

\* the process asks for work, holding nothing
AskForWork(w) ==
    /\ Ask(w, "work", "work")
    /\ held' = [held EXCEPT ![w] = NoAttempt]
    /\ discarding' = [discarding EXCEPT ![w] = FALSE]
    /\ sent' = [sent EXCEPT ![w] = 0]
    /\ UNCHANGED own

Registered(w) ==
    /\ Answered(w, "register", {"wait"})
    /\ replies' = Pop(replies, w)
    /\ Ask(w, "ready", "ready")
    /\ UNCHANGED <<vars, process, uploads, acks, service, faults>>

TakeLease(w) ==
    /\ Answered(w, "work", {"lease"})
    /\ replies' = Pop(replies, w)
    /\ at' = [at EXCEPT ![w] = "collect"]
    /\ held' = [held EXCEPT ![w] = Head(replies[w]).attempt]
    /\ UNCHANGED <<vars, own, discarding, sent, heard, requests, uploads, acks,
                   service, faults>>

\* after DRAIN the loop heartbeats once before it asks again
Poll(w) ==
    /\ Answered(w, "work", {"drain"})
    /\ replies' = Pop(replies, w)
    /\ Ask(w, "poll", "heartbeat")
    /\ UNCHANGED <<vars, process, uploads, acks, service, faults>>

\* a reply that sends the process back to the top of its loop
LoopAgain(w) ==
    /\ \/ Answered(w, "ready", {"wait"})
       \/ Answered(w, "work", {"wait", "receipt"})
       \/ Answered(w, "poll", {"wait", "drain", "receipt"})
    /\ heard' = IF Head(replies[w]).kind = "receipt"
                THEN [heard EXCEPT ![w] = Head(replies[w]).attempt.window]
                ELSE heard
    /\ replies' = Pop(replies, w)
    /\ AskForWork(w)
    /\ UNCHANGED <<vars, uploads, acks, service, faults>>

(***************************************************************************)
(* Worker process: _run_attempt                                            *)
(***************************************************************************)

\* an exception inside the attempt is reported, and the loop goes on
ReportFailure(w) ==
    /\ Ask(w, "failed", "failed")
    /\ UNCHANGED process

CollectionRaises(w) ==
    /\ at[w] = "collect"
    /\ ReportFailure(w)
    /\ UNCHANGED <<vars, replies, uploads, acks, service, faults>>

\* mutant: any acknowledgement counts
Acknowledged_Any(w) == Head(acks[w]).kind = "ack"

\* the acknowledgement of the part just sent
Acknowledged(w) ==
    Head(acks[w]) = [kind |-> "ack", attempt |-> held[w], part |-> sent[w]]

\* _send_part
Upload(w) ==
    /\ at[w] = "collect"
    /\ ~discarding[w]
    /\ sent[w] < MaxPart
    /\ at' = [at EXCEPT ![w] = "upload"]
    /\ uploads' = [uploads EXCEPT ![w] =
                     Append(@, [attempt |-> held[w], part |-> sent[w], session |-> own[w]])]
    /\ UNCHANGED <<vars, process, requests, replies, acks, service, faults>>

Uploaded(w) ==
    /\ at[w] = "upload"
    /\ acks[w] # <<>>
    /\ acks' = Pop(acks, w)
    /\ \/ /\ Acknowledged(w)
          /\ at' = [at EXCEPT ![w] = "collect"]
          /\ sent' = [sent EXCEPT ![w] = @ + 1]
          /\ UNCHANGED <<own, held, discarding, heard, requests>>
       \/ /\ Head(acks[w]).kind = "drain"
          /\ at' = [at EXCEPT ![w] = "collect"]
          /\ discarding' = [discarding EXCEPT ![w] = TRUE]
          /\ UNCHANGED <<own, held, sent, heard, requests>>
       \/ /\ Head(acks[w]).kind # "drain"
          /\ ~Acknowledged(w)
          /\ ReportFailure(w)
    /\ UNCHANGED <<vars, replies, uploads, service, faults>>

\* a heartbeat during the collection, or the one that ends it
Heartbeat(w) ==
    /\ at[w] = "collect"
    /\ \E s \in {"beat", "final"} : Ask(w, s, "heartbeat")
    /\ UNCHANGED <<vars, process, replies, uploads, acks, service, faults>>

\* mutant: a drain hint, which rides on WAIT, is taken for a drain
Discards_OnHint(w, s) == Answered(w, s, {"wait", "drain", "receipt"})

\* the answer tells the process to throw its attempt away
Discards(w, s) == Answered(w, s, {"drain", "receipt"})

Heard(w) ==
    IF Head(replies[w]).kind = "receipt" THEN Head(replies[w]).attempt.window
    ELSE heard[w]

Beaten(w) ==
    /\ Answered(w, "beat", {"wait", "drain", "receipt"})
    /\ replies' = Pop(replies, w)
    /\ at' = [at EXCEPT ![w] = "collect"]
    /\ discarding' = [discarding EXCEPT ![w] = @ \/ Discards(w, "beat")]
    /\ heard' = [heard EXCEPT ![w] = Heard(w)]
    /\ UNCHANGED <<vars, own, held, sent, requests, uploads, acks, service, faults>>

\* the attempt is discarded, or its result goes out
Collected(w) ==
    /\ Answered(w, "final", {"wait", "drain", "receipt"})
    /\ replies' = Pop(replies, w)
    /\ IF discarding[w] \/ Discards(w, "final")
       THEN /\ AskForWork(w)
            /\ heard' = [heard EXCEPT ![w] = Heard(w)]
       ELSE /\ Ask(w, "complete", "complete")
            /\ UNCHANGED process
    /\ UNCHANGED <<vars, uploads, acks, service, faults>>

AttemptRaises(w) ==
    /\ \/ Answered(w, "beat", {"abort", "lease"})
       \/ Answered(w, "final", {"abort", "lease"})
       \/ Answered(w, "complete", {"abort", "lease", "drain", "receipt"})
    /\ replies' = Pop(replies, w)
    /\ ReportFailure(w)
    /\ UNCHANGED <<vars, uploads, acks, service, faults>>

\* the completion is queued, or the failure report got some answer
AttemptEnds(w) ==
    /\ \/ Answered(w, "complete", {"wait"})
       \/ Answered(w, "failed", {"wait", "abort", "lease", "drain", "receipt"})
    /\ replies' = Pop(replies, w)
    /\ AskForWork(w)
    /\ UNCHANGED <<vars, heard, uploads, acks, service, faults>>

(***************************************************************************)
(* Timeouts: a reply that comes too late stays in the channel              *)
(***************************************************************************)

\* the messages of its channel that the running process has sent
OnTheWay(channel, w) == {i \in DOMAIN channel[w] : channel[w][i].session = own[w]}

Outstanding(w) ==
    Cardinality(OnTheWay(requests, w)) + Len(replies[w])
      + (IF chosen.worker = w /\ chosen.session = own[w] THEN 1 ELSE 0)

\* a wait that nothing can end times out; any other does within the bound
Late(w) ==
    \/ /\ faults < MaxFaults
       /\ faults' = faults + 1
    \/ /\ IF at[w] = "upload" THEN uploads[w] \o acks[w] = <<>>
          ELSE Outstanding(w) = 0
       /\ UNCHANGED faults

TimeoutInLoop(w) ==
    /\ at[w] \in LoopStates
    /\ Late(w)
    /\ Exit(w)

TimeoutInAttempt(w) ==
    /\ at[w] \in {"beat", "final", "complete", "upload"}
    /\ Late(w)
    /\ ReportFailure(w)
    /\ UNCHANGED <<vars, replies, uploads, acks, service>>

\* with suppress(BaseException): the report is sent, its answer is not needed
TimeoutInReport(w) ==
    /\ at[w] = "failed"
    /\ Late(w)
    /\ AskForWork(w)
    /\ UNCHANGED <<vars, heard, replies, uploads, acks, service>>

\* the reply found no route or a full queue
DropReply(w) ==
    /\ faults < MaxFaults
    /\ faults' = faults + 1
    /\ \/ replies[w] # <<>> /\ replies' = Pop(replies, w) /\ UNCHANGED acks
       \/ acks[w] # <<>> /\ acks' = Pop(acks, w) /\ UNCHANGED replies
    /\ UNCHANGED <<vars, at, process, requests, uploads, service>>

(***************************************************************************)
(* I/O thread: _serve_control                                              *)
(***************************************************************************)

Serving(w, kind) ==
    /\ Free
    /\ requests[w] # <<>>
    /\ Head(requests[w]).kind = kind
    /\ requests' = Pop(requests, w)

Served(w, kind, a) == Reply(w, Head(requests[w]).session, kind, a)

Receipt == [NoAttempt EXCEPT !.window = window]

ServeRegister(w) ==
    /\ Serving(w, "register")
    /\ RegisterWhileCollecting(w) \/ RegisterAtBoundary(w)
    /\ Served(w, "wait", NoAttempt)
    /\ UNCHANGED <<at, process, uploads, acks, service, faults>>

ServeReady(w) ==
    /\ Serving(w, "ready")
    /\ MarkReady(w)
    /\ Served(w, "wait", NoAttempt)
    /\ UNCHANGED <<at, process, uploads, acks, service, faults>>

\* the first receipt a worker is sent counts as delivered
ServeHeartbeat(w) ==
    LET a == Head(requests[w]).attempt
    IN  /\ Serving(w, "heartbeat")
        /\ IF Settled /\ (w \notin delivered \/ Tombstoned(a))
           THEN /\ delivered' = delivered \cup {w}
                /\ Served(w, "receipt", Receipt)
           ELSE /\ Served(w, IF Tombstoned(a) THEN "drain" ELSE "wait", NoAttempt)
                /\ UNCHANGED delivered
        /\ UNCHANGED <<vars, at, process, uploads, acks, chosen, faults>>

\* mutant: receipts go out with heartbeats only
SettledReply_HeartbeatOnly(w, s) ==
    Reply(w, s, "wait", NoAttempt) /\ UNCHANGED delivered

\* _settled_work_response
SettledReply(w, s) ==
    IF w \in delivered
    THEN Reply(w, s, "wait", NoAttempt) /\ UNCHANGED delivered
    ELSE Reply(w, s, "receipt", Receipt) /\ delivered' = delivered \cup {w}

InTopology(w) == Collecting /\ topology[w] # 0 /\ ready[w] /\ pending[w] = 0

\* The checks of _work_response that end without a lease.
ServeNoWork(w) ==
    LET s == Head(requests[w]).session
    IN  /\ Serving(w, "work")
        /\ AcknowledgeDiscards(w)
        /\ \/ Settled /\ SettledReply(w, s)
           \/ ~Settled /\ ~InTopology(w) /\ Reply(w, s, "wait", NoAttempt) /\ UNCHANGED delivered
           \/ /\ InTopology(w)
              /\ ~MayWork(w) \/ Retryable(w) = {}
              /\ Reply(w, s, "drain", NoAttempt)
              /\ UNCHANGED delivered
        /\ UNCHANGED <<at, process, uploads, acks, chosen, faults>>

\* retryable_lease found a lease, or select_capacity_tier a tier for a new one
ChooseLease(w) ==
    /\ Serving(w, "work")
    /\ AcknowledgeDiscards(w)
    /\ MayWork(w)
    /\ \E n \in First(IF Retryable(w) # {} THEN Retryable(w)
                      ELSE {m \in Fresh : WorkLeft}) :
         chosen' = [worker |-> w, lease |-> n, session |-> Head(requests[w]).session]
    /\ UNCHANGED <<at, process, replies, uploads, acks, delivered, faults>>

\* mutant: issue_shard does not look at the drain again
MayStart_WhileDraining(n, w) ==
    /\ topology[w] # 0
    /\ ready[w]
    /\ active[w] = Idle
    /\ \/ n \in Inactive /\ tries[n] < MaximumAttempts
       \/ n \in Fresh /\ Collecting

\* The checks of retry_shard and of issue_shard.  A retry does not ask whether
\* the window is still collecting.
MayStart(n, w) ==
    /\ topology[w] # 0
    /\ ready[w]
    /\ active[w] = Idle
    /\ \/ n \in Inactive /\ tries[n] < MaximumAttempts
       \/ n \in Fresh /\ Collecting /\ ~Draining

StartChosen(w) ==
    LET n == chosen.lease
    IN  /\ chosen.worker = w
        /\ MayStart(n, w)
        /\ StartAttempt(n, w)
        /\ Reply(w, chosen.session, "lease",
                 [window |-> window, lease |-> n, try |-> tries[n] + 1])
        /\ chosen' = Nothing
        /\ UNCHANGED <<session, ready, pending, pendingReady, announced, windowState,
                       results, discarded, tombstones, reservations, learner,
                       at, process, requests, uploads, acks, delivered, faults>>

\* mutant: the error is logged and the worker gets no answer
ChosenRefused_Unanswered(w) ==
    /\ chosen.worker = w
    /\ ~MayStart(chosen.lease, w)
    /\ chosen' = Nothing
    /\ UNCHANGED <<vars, at, process, channels, delivered, faults>>

\* _work_response_or_settled: the lease could not be started
ChosenRefused(w) ==
    /\ chosen.worker = w
    /\ ~MayStart(chosen.lease, w)
    /\ IF Settled THEN SettledReply(w, chosen.session)
       ELSE Reply(w, chosen.session, "abort", NoAttempt) /\ UNCHANGED delivered
    /\ chosen' = Nothing
    /\ UNCHANGED <<vars, at, process, requests, uploads, acks, faults>>

ServeFailed(w) ==
    LET a == Head(requests[w]).attempt
    IN  /\ Serving(w, "failed")
        /\ IF ~Tombstoned(a) /\ Names(a) THEN FailAttempt(a.lease) ELSE UNCHANGED vars
        /\ Served(w, IF Tombstoned(a) \/ Names(a) THEN "wait" ELSE "abort", NoAttempt)
        /\ UNCHANGED <<at, process, uploads, acks, service, faults>>

Reservable(a) ==
    Collecting /\ Names(a) /\ Current(a.lease).state = "running"

ServeComplete(w) ==
    LET a == Head(requests[w]).attempt
    IN  /\ Serving(w, "complete")
        /\ IF ~Tombstoned(a) /\ Reservable(a) THEN ReserveCompletion(a.lease)
           ELSE UNCHANGED vars
        /\ Served(w, IF Tombstoned(a) \/ Reservable(a) THEN "wait" ELSE "abort", NoAttempt)
        /\ UNCHANGED <<at, process, uploads, acks, service, faults>>

(***************************************************************************)
(* I/O thread: _serve_data                                                 *)
(***************************************************************************)

\* accept_part takes the next part of a running attempt; any other part of
\* a live attempt fails it
ServePart(w) ==
    LET m    == Head(uploads[w])
        a    == m.attempt
        next == Reservable(a) /\ m.part = Current(a.lease).parts
        Ack(kind) ==
          acks' = IF at[w] # "off" /\ own[w] = m.session
                  THEN [acks EXCEPT ![w] =
                          Append(@, [kind |-> kind, attempt |-> a, part |-> m.part])]
                  ELSE acks
    IN  /\ Free
        /\ uploads[w] # <<>>
        /\ uploads' = Pop(uploads, w)
        /\ \/ Tombstoned(a) /\ UNCHANGED vars /\ Ack("drain")
           \/ /\ ~Tombstoned(a)
              /\ next
              /\ \E k \in 0 .. MaxPart : AcceptPart(a.lease, k)
              /\ Ack("ack")
           \/ /\ ~Tombstoned(a)
              /\ ~next
              /\ IF Names(a) THEN FailAttempt(a.lease) ELSE UNCHANGED vars
              /\ Ack("abort")
        /\ UNCHANGED <<at, process, requests, replies, service, faults>>

(***************************************************************************)
(* Next-state relation                                                     *)
(***************************************************************************)

InitService ==
    /\ Init
    /\ at = [w \in Worker |-> "off"]
    /\ own = [w \in Worker |-> 0]
    /\ held = [w \in Worker |-> NoAttempt]
    /\ discarding = [w \in Worker |-> FALSE]
    /\ sent = [w \in Worker |-> 0]
    /\ heard = [w \in Worker |-> 0]
    /\ requests = [w \in Worker |-> <<>>]
    /\ replies = [w \in Worker |-> <<>>]
    /\ uploads = [w \in Worker |-> <<>>]
    /\ acks = [w \in Worker |-> <<>>]
    /\ delivered = {}
    /\ chosen = Nothing
    /\ faults = 0

ProcessStep(w) ==
    \/ LoopRaises(w)
    \/ Registered(w)
    \/ TakeLease(w)
    \/ Poll(w)
    \/ LoopAgain(w)
    \/ CollectionRaises(w)
    \/ Upload(w)
    \/ Uploaded(w)
    \/ Heartbeat(w)
    \/ Beaten(w)
    \/ Collected(w)
    \/ AttemptRaises(w)
    \/ AttemptEnds(w)
    \/ TimeoutInLoop(w)
    \/ TimeoutInAttempt(w)
    \/ TimeoutInReport(w)

Environment(w) ==
    \/ StartProcess(w)
    \/ Crash(w)
    \/ DropReply(w)

Serve(w) ==
    \/ ServeRegister(w)
    \/ ServeReady(w)
    \/ ServeHeartbeat(w)
    \/ ServeNoWork(w)
    \/ ChooseLease(w)
    \/ StartChosen(w)
    \/ ChosenRefused(w)
    \/ ServeFailed(w)
    \/ ServeComplete(w)
    \/ ServePart(w)

\* finished projections and sweeps run between two messages
Maintain ==
    /\ Free
    /\ CompletionStep \/ SweepStep
    /\ UNCHANGED wireVars

\* begin_window runs on the I/O thread, the learner's other calls do not.  It
\* aborts a window it cannot plan before it forgets the deliveries.
Boundary ==
    /\ Free
    /\ BoundaryStep
    /\ \/ /\ delivered' = IF window' # window THEN {} ELSE delivered
          /\ UNCHANGED chosen
       \/ /\ PlanningFails
          /\ window' # window
          /\ chosen' = NoPlan
          /\ UNCHANGED delivered
    /\ UNCHANGED <<at, process, channels, faults>>

AbortUnplanned ==
    /\ chosen = NoPlan
    /\ AbortWindow
    /\ chosen' = Nothing
    /\ UNCHANGED <<at, process, channels, delivered, faults>>

\* the learner thread waits while the I/O thread begins a window
Learner ==
    /\ chosen # NoPlan
    /\ \/ LearnerDrains /\ RequestLearnerReadyDrain
       \/ (AbortRaces \/ Free) /\ AbortWindow
       \/ StartCommit
       \/ FinishCommit
       \/ FailCommit
       \/ ReleaseParts
    /\ UNCHANGED wireVars

NextService ==
    \/ \E w \in Worker : ProcessStep(w) \/ Environment(w) \/ Serve(w)
    \/ Maintain
    \/ Boundary
    \/ AbortUnplanned
    \/ Learner

ServiceSpec == InitService /\ [][NextService]_allVars

(***************************************************************************)
(* Fairness.  The I/O thread polls both channels of every worker; a        *)
(* process that runs keeps running; the heartbeat of a dead one expires.   *)
(* Nothing is assumed of the learner, of restarts or of lease timeouts.    *)
(***************************************************************************)

ExpireDead(w) ==
    /\ at[w] = "off"
    /\ Free
    /\ ExpireWorkers({}, {w})
    /\ UNCHANGED wireVars

ServiceFairness ==
    \A w \in Worker :
        /\ WF_allVars(Serve(w))
        /\ WF_allVars(ProcessStep(w))
        /\ WF_allVars(ExpireDead(w))

FairServiceSpec == ServiceSpec /\ ServiceFairness

=============================================================================
