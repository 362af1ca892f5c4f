------------------------- MODULE NativeService_proofs -------------------------
(***************************************************************************)
(* The service refines the coordinator, and what a worker process and the  *)
(* coordinator know of each other.                                         *)
(*                                                                         *)
(*   ServiceInv   types, and the life of an attempt: it starts, grows,     *)
(*                completes and ends, and nothing brings it back           *)
(*   OpenInv      a lease that can be started has its window open          *)
(*   WindowInv    what the coordinator keeps in a window, and what is left *)
(*                of it in one that the learner has aborted                *)
(*   AnswerInv    one answer on its way for every question                 *)
(*   OrderInv     sessions reach the coordinator in the order they began   *)
(*   AgreeInv     an answer means what the process takes it to mean        *)
(*   OwnedInv     a message names an attempt of its own worker             *)
(*   NewInv       a lease on its way is of an attempt without parts        *)
(*   CountsInv    the process counts the parts the coordinator has taken   *)
(*                                                                         *)
(* AnswerInv and AgreeInv hold when no answer is late or dropped, OpenInv  *)
(* when no abort of the learner races with the start of a lease, and the   *)
(* others whatever the channels and the learner do.                        *)
(***************************************************************************)
EXTENDS NativeServiceProperties, NativeCoordinator_proofs, FunctionTheorems

(***************************************************************************)
(* Types                                                                   *)
(***************************************************************************)

LeaseId == [window : Nat, lease : Lease, try : Try]

\* NoAttempt, or the receipt of a window, or a lease
Id == [window : Nat, lease : {0}, try : {0}] \cup LeaseId

States == Waiting \cup {"off", "collect", "upload"}

\* the states in which a process has a lease
AttemptStates == {"collect", "upload", "beat", "final", "complete", "failed"}

ControlMessage ==
    [kind : {"register", "ready", "work"}, session : Nat, attempt : {NoAttempt}]
      \cup [kind : {"heartbeat"}, session : Nat, attempt : Id]
      \cup [kind : {"complete", "failed"}, session : Nat, attempt : LeaseId]

Answer ==
    [kind : {"wait", "drain", "abort"}, attempt : {NoAttempt}]
      \cup [kind : {"receipt"}, attempt : Id]
      \cup [kind : {"lease"}, attempt : LeaseId]

Part == [attempt : LeaseId, part : Nat, session : Nat]

PartAnswer == [kind : {"ack", "drain", "abort"}, attempt : LeaseId, part : Nat]

Choice == [worker : Worker, lease : Lease, session : Nat] \cup {Nothing, NoPlan}

WireTypeOK ==
    /\ at \in [Worker -> States]
    /\ own \in [Worker -> Nat]
    /\ held \in [Worker -> Id]
    /\ discarding \in [Worker -> BOOLEAN]
    /\ sent \in [Worker -> Nat]
    /\ heard \in [Worker -> Nat]
    /\ requests \in [Worker -> Seq(ControlMessage)]
    /\ replies \in [Worker -> Seq(Answer)]
    /\ uploads \in [Worker -> Seq(Part)]
    /\ acks \in [Worker -> Seq(PartAnswer)]
    /\ delivered \in SUBSET Worker
    /\ chosen \in Choice
    /\ faults \in 0 .. MaxFaults

HoldsLease == \A w \in Worker : at[w] \in AttemptStates => held[w] \in LeaseId

WireTypeInv == WireTypeOK /\ HoldsLease

Candidates(w) ==
    First(IF Retryable(w) # {} THEN Retryable(w) ELSE {m \in Fresh : WorkLeft})

\* A lease that has been picked is still the one to start, or starting it is
\* refused, or its window is no longer collecting.
ChosenIsWork ==
    \A w \in Worker :
        chosen.worker = w /\ Collecting /\ MayStart(chosen.lease, w) =>
            announced[w] /\ MayWork(w) /\ chosen.lease \in Candidates(w)

\* Only an abort that races with the I/O thread ends the window of a lease
\* that can be started.
ChosenIsOpen ==
    \A w \in Worker : chosen.worker = w /\ MayStart(chosen.lease, w) => Collecting


LEMMA PopTypes ==
    ASSUME NEW S, NEW channel \in [Worker -> Seq(S)], NEW w \in Worker, channel[w] # <<>>
    PROVE  Pop(channel, w) \in [Worker -> Seq(S)] /\ Head(channel[w]) \in S
BY DEF Pop

LEMMA AskTypes ==
    ASSUME WireTypeOK, NEW w \in Worker, NEW s \in States, NEW kind,
           Request(w, kind) \in ControlMessage, Ask(w, s, kind)
    PROVE  /\ at' \in [Worker -> States]
           /\ requests' \in [Worker -> Seq(ControlMessage)]
           /\ at'[w] = s
           /\ \A v \in Worker \ {w} : at'[v] = at[v]
<1>1. requests[w] \in Seq(ControlMessage)
  BY DEF WireTypeOK
<1>2. Append(requests[w], Request(w, kind)) \in Seq(ControlMessage)
  BY <1>1
<1> QED
  BY <1>2 DEF Ask, WireTypeOK

LEMMA RequestTypes ==
    ASSUME WireTypeOK, NEW w \in Worker
    PROVE  /\ Request(w, "ready") \in ControlMessage
           /\ Request(w, "work") \in ControlMessage
           /\ Request(w, "heartbeat") \in ControlMessage
           /\ held[w] \in LeaseId => /\ Request(w, "complete") \in ControlMessage
                                     /\ Request(w, "failed") \in ControlMessage
<1>1. own[w] \in Nat /\ held[w] \in Id
  BY DEF WireTypeOK
<1> QED
  BY <1>1 DEF Request, ControlMessage

LEMMA ReplyTypes ==
    ASSUME WireTypeOK, NEW w \in Worker, NEW s, NEW kind, NEW a,
           [kind |-> kind, attempt |-> a] \in Answer, Reply(w, s, kind, a)
    PROVE  replies' \in [Worker -> Seq(Answer)]
<1>1. replies[w] \in Seq(Answer)
  BY DEF WireTypeOK
<1>2. Append(replies[w], [kind |-> kind, attempt |-> a]) \in Seq(Answer)
  BY <1>1
<1> QED
  BY <1>2 DEF Reply, WireTypeOK

LEMMA AnswerTypes ==
    ASSUME TypeInv
    PROVE  /\ NoAttempt \in Id
           /\ Receipt \in Id
           /\ \A kind \in {"wait", "drain", "abort"} :
                [kind |-> kind, attempt |-> NoAttempt] \in Answer
           /\ [kind |-> "receipt", attempt |-> Receipt] \in Answer
<1>1. window \in Nat
  BY BoundAssumption DEF TypeInv, TypeOK
<1>2. NoAttempt \in Id /\ Receipt \in Id
  BY <1>1 DEF NoAttempt, Receipt, Id
<1> QED
  BY <1>2 DEF Answer

LEMMA ServingTypes ==
    ASSUME WireTypeOK, NEW w \in Worker, NEW kind, Serving(w, kind)
    PROVE  /\ requests' \in [Worker -> Seq(ControlMessage)]
           /\ Head(requests[w]) \in ControlMessage
           /\ Head(requests[w]).kind = kind
           /\ Head(requests[w]).session \in Nat
           /\ Head(requests[w]).attempt \in Id
           /\ kind \in {"complete", "failed"} => Head(requests[w]).attempt \in LeaseId
<1>1. requests \in [Worker -> Seq(ControlMessage)]
  BY DEF WireTypeOK
<1>2. requests' \in [Worker -> Seq(ControlMessage)] /\ Head(requests[w]) \in ControlMessage
  BY <1>1, PopTypes DEF Serving
<1>3. \A m \in ControlMessage :
        /\ m.session \in Nat
        /\ m.attempt \in Id
        /\ m.kind \in {"complete", "failed"} => m.attempt \in LeaseId
  BY DEF ControlMessage, NoAttempt, Id
<1> QED
  BY <1>2, <1>3 DEF Serving

\* the process ends
LEMMA ExitTypes ==
    ASSUME WireTypeInv, NEW w \in Worker, Exit(w), faults' \in 0 .. MaxFaults
    PROVE  WireTypeInv'
<1>1. NoAttempt \in Id
  BY DEF NoAttempt, Id
<1>2. WireTypeOK'
  BY <1>1 DEF WireTypeInv, WireTypeOK, Exit, States, service
<1>3. HoldsLease'
  BY DEF WireTypeInv, WireTypeOK, HoldsLease, Exit, AttemptStates
<1> QED
  BY <1>2, <1>3 DEF WireTypeInv

LEMMA AskForWorkTypes ==
    ASSUME WireTypeInv, NEW w \in Worker, AskForWork(w), replies' \in [Worker -> Seq(Answer)],
           heard' \in [Worker -> Nat], faults' \in 0 .. MaxFaults,
           UNCHANGED <<uploads, acks, service>>
    PROVE  WireTypeInv'
<1>1. NoAttempt \in Id
  BY DEF NoAttempt, Id
<1>2. WireTypeOK
  BY DEF WireTypeInv
<1>3. /\ at' \in [Worker -> States]
      /\ requests' \in [Worker -> Seq(ControlMessage)]
      /\ at'[w] = "work"
      /\ \A v \in Worker \ {w} : at'[v] = at[v]
  BY <1>2, AskTypes, RequestTypes DEF AskForWork, States, Waiting, LoopStates
<1>4. WireTypeOK'
  BY <1>1, <1>2, <1>3 DEF AskForWork, WireTypeOK, service
<1>5. HoldsLease'
  BY <1>2, <1>3 DEF AskForWork, WireTypeInv, WireTypeOK, HoldsLease, AttemptStates
<1> QED
  BY <1>4, <1>5 DEF WireTypeInv

LEMMA ReportTypes ==
    ASSUME WireTypeInv, NEW w \in Worker, at[w] \in AttemptStates, ReportFailure(w),
           replies' \in [Worker -> Seq(Answer)], acks' \in [Worker -> Seq(PartAnswer)],
           faults' \in 0 .. MaxFaults, UNCHANGED <<uploads, service>>
    PROVE  WireTypeInv'
<1>1. WireTypeOK /\ held[w] \in LeaseId
  BY DEF WireTypeInv, HoldsLease
<1>2. /\ at' \in [Worker -> States]
      /\ requests' \in [Worker -> Seq(ControlMessage)]
      /\ at'[w] = "failed"
      /\ \A v \in Worker \ {w} : at'[v] = at[v]
  BY <1>1, AskTypes, RequestTypes DEF ReportFailure, States, Waiting, LoopStates
<1>3. WireTypeOK'
  BY <1>1, <1>2 DEF ReportFailure, WireTypeOK, service, process
<1>4. HoldsLease'
  BY <1>1, <1>2 DEF ReportFailure, WireTypeInv, WireTypeOK, HoldsLease, process
<1> QED
  BY <1>3, <1>4 DEF WireTypeInv

LEMMA AnsweredTypes ==
    ASSUME WireTypeOK, NEW w \in Worker, NEW s, NEW kinds, Answered(w, s, kinds)
    PROVE  /\ Pop(replies, w) \in [Worker -> Seq(Answer)]
           /\ Head(replies[w]) \in Answer
           /\ Head(replies[w]).kind \in kinds
           /\ Head(replies[w]).attempt.window \in Nat
           /\ Head(replies[w]).kind = "lease" => Head(replies[w]).attempt \in LeaseId
<1>1. replies \in [Worker -> Seq(Answer)]
  BY DEF WireTypeOK
<1>2. Pop(replies, w) \in [Worker -> Seq(Answer)] /\ Head(replies[w]) \in Answer
  BY <1>1, PopTypes DEF Answered
<1>3. \A m \in Answer : /\ m.attempt.window \in Nat
                        /\ m.kind = "lease" => m.attempt \in LeaseId
  BY DEF Answer, NoAttempt, Id, LeaseId
<1> QED
  BY <1>2, <1>3 DEF Answered

LEMMA ProcessTypes ==
    ASSUME WireTypeInv, NEW w \in Worker, ProcessStep(w)
    PROVE  WireTypeInv' /\ UNCHANGED vars
<1> USE DEF WireTypeInv
<1>0. WireTypeOK /\ HoldsLease /\ faults \in 0 .. MaxFaults
  BY DEF WireTypeOK
<1>1. CASE LoopRaises(w)
  BY <1>0, <1>1, ExitTypes DEF LoopRaises, Exit
<1>2. CASE Registered(w)
  <2>1. /\ replies' \in [Worker -> Seq(Answer)]
        /\ at' \in [Worker -> States]
        /\ requests' \in [Worker -> Seq(ControlMessage)]
        /\ at'[w] = "ready"
        /\ \A v \in Worker \ {w} : at'[v] = at[v]
    BY <1>0, <1>2, AnsweredTypes, AskTypes, RequestTypes
    DEF Registered, States, Waiting, LoopStates
  <2>2. WireTypeOK'
    BY <1>0, <1>2, <2>1 DEF Registered, WireTypeOK, process, service
  <2>3. HoldsLease'
    BY <1>0, <1>2, <2>1 DEF Registered, HoldsLease, process, AttemptStates
  <2> QED
    BY <1>2, <2>2, <2>3 DEF Registered
<1>3. CASE TakeLease(w)
  <2>1. /\ replies' \in [Worker -> Seq(Answer)]
        /\ Head(replies[w]).attempt \in LeaseId
    BY <1>0, <1>3, AnsweredTypes DEF TakeLease
  <2>2. WireTypeOK'
    BY <1>0, <1>3, <2>1 DEF TakeLease, WireTypeOK, States, Id, service
  <2>3. HoldsLease'
    BY <1>0, <1>3, <2>1 DEF TakeLease, HoldsLease, WireTypeOK, AttemptStates
  <2> QED
    BY <1>3, <2>2, <2>3 DEF TakeLease
<1>4. CASE Poll(w)
  <2>1. /\ replies' \in [Worker -> Seq(Answer)]
        /\ at' \in [Worker -> States]
        /\ requests' \in [Worker -> Seq(ControlMessage)]
        /\ at'[w] = "poll"
        /\ \A v \in Worker \ {w} : at'[v] = at[v]
    BY <1>0, <1>4, AnsweredTypes, AskTypes, RequestTypes DEF Poll, States, Waiting, LoopStates
  <2>2. WireTypeOK'
    BY <1>0, <1>4, <2>1 DEF Poll, WireTypeOK, process, service
  <2>3. HoldsLease'
    BY <1>0, <1>4, <2>1 DEF Poll, HoldsLease, process, AttemptStates
  <2> QED
    BY <1>4, <2>2, <2>3 DEF Poll
<1>5. CASE LoopAgain(w)
  <2>1. /\ replies' \in [Worker -> Seq(Answer)]
        /\ Head(replies[w]).attempt.window \in Nat
    BY <1>0, <1>5, AnsweredTypes DEF LoopAgain
  <2>2. heard' \in [Worker -> Nat]
    BY <1>0, <1>5, <2>1 DEF LoopAgain, WireTypeOK
  <2> QED
    BY <1>0, <1>5, <2>1, <2>2, AskForWorkTypes DEF LoopAgain, service
<1>6. CASE CollectionRaises(w)
  BY <1>0, <1>6, ReportTypes DEF CollectionRaises, AttemptStates, WireTypeOK
<1>7. CASE Upload(w)
  <2>1. [attempt |-> held[w], part |-> sent[w], session |-> own[w]] \in Part
    BY <1>0, <1>7 DEF Upload, HoldsLease, WireTypeOK, AttemptStates, Part
  <2>2. Append(uploads[w], [attempt |-> held[w], part |-> sent[w], session |-> own[w]])
          \in Seq(Part)
    BY <1>0, <2>1 DEF WireTypeOK
  <2>3. WireTypeOK'
    BY <1>0, <1>7, <2>2 DEF Upload, WireTypeOK, process, service, States
  <2>4. HoldsLease'
    BY <1>0, <1>7 DEF Upload, HoldsLease, WireTypeOK, process, AttemptStates
  <2> QED
    BY <1>7, <2>3, <2>4 DEF Upload
<1>8. CASE Uploaded(w)
  <2>0. acks' \in [Worker -> Seq(PartAnswer)]
    BY <1>0, <1>8, PopTypes DEF Uploaded, WireTypeOK
  <2>1. CASE at' = [at EXCEPT ![w] = "collect"] /\ UNCHANGED <<own, held, heard, requests>>
    <3>1. \/ discarding' = discarding
          \/ discarding' = [discarding EXCEPT ![w] = TRUE]
      BY <1>8 DEF Uploaded, ReportFailure, process
    <3>2. \/ sent' = sent
          \/ sent' = [sent EXCEPT ![w] = @ + 1]
      BY <1>8 DEF Uploaded, ReportFailure, process
    <3>3. discarding' \in [Worker -> BOOLEAN]
      BY <1>0, <3>1 DEF WireTypeOK
    <3>6. sent' \in [Worker -> Nat]
      <4>1. sent \in [Worker -> Nat] /\ sent[w] + 1 \in Nat
        BY <1>0 DEF WireTypeOK
      <4> QED
        BY <3>2, <4>1
    <3>4. WireTypeOK'
      BY <1>0, <1>8, <2>0, <2>1, <3>3, <3>6 DEF Uploaded, WireTypeOK, service, States
    <3>5. HoldsLease'
      BY <1>0, <1>8, <2>1 DEF Uploaded, HoldsLease, WireTypeOK, AttemptStates
    <3> QED
      BY <1>8, <3>4, <3>5 DEF Uploaded
  <2>2. CASE ReportFailure(w)
    BY <1>0, <1>8, <2>0, <2>2, ReportTypes DEF Uploaded, AttemptStates, WireTypeOK
  <2> QED
    BY <1>8, <2>1, <2>2 DEF Uploaded
<1>9. CASE Heartbeat(w)
  <2>1. PICK s \in {"beat", "final"} : Ask(w, s, "heartbeat")
    BY <1>9 DEF Heartbeat
  <2>2. /\ at' \in [Worker -> States]
        /\ requests' \in [Worker -> Seq(ControlMessage)]
        /\ \A v \in Worker \ {w} : at'[v] = at[v]
    BY <1>0, <2>1, AskTypes, RequestTypes DEF States, Waiting
  <2>3. WireTypeOK'
    BY <1>0, <1>9, <2>2 DEF Heartbeat, WireTypeOK, process, service
  <2>4. HoldsLease'
    BY <1>0, <1>9, <2>2 DEF Heartbeat, HoldsLease, process, AttemptStates
  <2> QED
    BY <1>9, <2>3, <2>4 DEF Heartbeat
<1>10. CASE Beaten(w)
  <2>1. /\ replies' \in [Worker -> Seq(Answer)]
        /\ Head(replies[w]).attempt.window \in Nat
    BY <1>0, <1>10, AnsweredTypes DEF Beaten
  <2>2. heard' \in [Worker -> Nat]
    BY <1>0, <1>10, <2>1 DEF Beaten, Heard, WireTypeOK
  <2>3. discarding' \in [Worker -> BOOLEAN]
    BY <1>0, <1>10 DEF Beaten, WireTypeOK, Discards, Answered
  <2>4. WireTypeOK'
    BY <1>0, <1>10, <2>1, <2>2, <2>3 DEF Beaten, WireTypeOK, service, States
  <2>5. HoldsLease'
    BY <1>0, <1>10 DEF Beaten, Answered, HoldsLease, WireTypeOK, AttemptStates
  <2> QED
    BY <1>10, <2>4, <2>5 DEF Beaten
<1>11. CASE Collected(w)
  <2>1. /\ replies' \in [Worker -> Seq(Answer)]
        /\ Head(replies[w]).attempt.window \in Nat
    BY <1>0, <1>11, AnsweredTypes DEF Collected
  <2>2. CASE AskForWork(w) /\ heard' = [heard EXCEPT ![w] = Heard(w)]
    <3>1. heard' \in [Worker -> Nat]
      BY <1>0, <2>1, <2>2 DEF Heard, WireTypeOK
    <3> QED
      BY <1>0, <1>11, <2>1, <2>2, <3>1, AskForWorkTypes DEF Collected
  <2>3. CASE Ask(w, "complete", "complete") /\ UNCHANGED process
    <3>1. held[w] \in LeaseId
      BY <1>0, <1>11 DEF Collected, Answered, HoldsLease, AttemptStates
    <3>2. /\ at' \in [Worker -> States]
          /\ requests' \in [Worker -> Seq(ControlMessage)]
          /\ \A v \in Worker \ {w} : at'[v] = at[v]
      BY <1>0, <2>3, <3>1, AskTypes, RequestTypes DEF States, Waiting
    <3>3. WireTypeOK'
      BY <1>0, <1>11, <2>1, <2>3, <3>2 DEF Collected, WireTypeOK, process, service
    <3>4. HoldsLease'
      BY <1>0, <1>11, <2>3, <3>1, <3>2 DEF Collected, HoldsLease, process
    <3> QED
      BY <1>11, <3>3, <3>4 DEF Collected
  <2> QED
    BY <1>11, <2>2, <2>3 DEF Collected
<1>12. CASE AttemptRaises(w)
  <2>1. replies' \in [Worker -> Seq(Answer)] /\ at[w] \in AttemptStates
    BY <1>0, <1>12, AnsweredTypes DEF AttemptRaises, Answered, AttemptStates
  <2> QED
    BY <1>0, <1>12, <2>1, ReportTypes DEF AttemptRaises, WireTypeOK
<1>13. CASE AttemptEnds(w)
  <2>1. replies' \in [Worker -> Seq(Answer)]
    BY <1>0, <1>13, AnsweredTypes DEF AttemptEnds
  <2> QED
    BY <1>0, <1>13, <2>1, AskForWorkTypes DEF AttemptEnds, WireTypeOK
<1>14. ASSUME Late(w) PROVE faults' \in 0 .. MaxFaults
  BY <1>0, <1>14, WireAssumption DEF Late
<1>15. CASE TimeoutInLoop(w)
  BY <1>14, <1>15, ExitTypes DEF TimeoutInLoop, Exit
<1>16. CASE TimeoutInAttempt(w)
  <2>1. at[w] \in AttemptStates
    BY <1>16 DEF TimeoutInAttempt, AttemptStates
  <2> QED
    BY <1>0, <1>14, <1>16, <2>1, ReportTypes DEF TimeoutInAttempt, WireTypeOK
<1>17. CASE TimeoutInReport(w)
  BY <1>0, <1>14, <1>17, AskForWorkTypes DEF TimeoutInReport, WireTypeOK
<1> QED
  BY <1>1, <1>2, <1>3, <1>4, <1>5, <1>6, <1>7, <1>8, <1>9, <1>10, <1>11, <1>12, <1>13,
     <1>15, <1>16, <1>17, <1>0 DEF ProcessStep

LEMMA EnvironmentTypes ==
    ASSUME WireTypeInv, NEW w \in Worker, Environment(w)
    PROVE  WireTypeInv' /\ UNCHANGED vars
<1> USE DEF WireTypeInv
<1>0. WireTypeOK /\ HoldsLease /\ faults \in 0 .. MaxFaults
  BY DEF WireTypeOK
<1>1. CASE StartProcess(w)
  <2>1. own[w] + 1 \in Nat /\ requests[w] \in Seq(ControlMessage)
    BY <1>0 DEF WireTypeOK
  <2>2. [kind |-> "register", session |-> own[w] + 1, attempt |-> NoAttempt] \in ControlMessage
    BY <2>1 DEF ControlMessage
  <2>3. Append(requests[w], [kind |-> "register", session |-> own[w] + 1,
                             attempt |-> NoAttempt]) \in Seq(ControlMessage)
    BY <2>1, <2>2
  <2>4. WireTypeOK'
    BY <1>0, <1>1, <2>1, <2>3 DEF StartProcess, WireTypeOK, service, States, Waiting, LoopStates
  <2>5. HoldsLease'
    BY <1>0, <1>1 DEF StartProcess, HoldsLease, WireTypeOK, AttemptStates
  <2> QED
    BY <1>1, <2>4, <2>5 DEF StartProcess
<1>2. CASE Crash(w)
  BY <1>0, <1>2, ExitTypes DEF Crash, Exit
<1>3. CASE DropReply(w)
  <2>1. faults' \in 0 .. MaxFaults
    BY <1>0, <1>3, WireAssumption DEF DropReply
  <2>2. replies' \in [Worker -> Seq(Answer)] /\ acks' \in [Worker -> Seq(PartAnswer)]
    <3>1. replies[w] # <<>> => Pop(replies, w) \in [Worker -> Seq(Answer)]
      BY <1>0, PopTypes DEF WireTypeOK
    <3>2. acks[w] # <<>> => Pop(acks, w) \in [Worker -> Seq(PartAnswer)]
      BY <1>0, PopTypes DEF WireTypeOK
    <3> QED
      BY <1>0, <1>3, <3>1, <3>2 DEF DropReply, WireTypeOK
  <2>3. WireTypeOK' /\ HoldsLease'
    BY <1>0, <1>3, <2>1, <2>2 DEF DropReply, WireTypeOK, HoldsLease, process, service
  <2> QED
    BY <1>3, <2>3 DEF DropReply
<1> QED
  BY <1>1, <1>2, <1>3 DEF Environment

LEMMA ServeTypes ==
    ASSUME TypeInv, WireTypeInv, NEW w \in Worker, Serve(w)
    PROVE  WireTypeInv'
<1> USE DEF WireTypeInv
<1>0. WireTypeOK /\ HoldsLease /\ TypeInv
  OBVIOUS
<1>1. ASSUME UNCHANGED <<at, process, uploads, acks, faults>>,
             requests' \in [Worker -> Seq(ControlMessage)],
             replies' \in [Worker -> Seq(Answer)],
             delivered' \in SUBSET Worker, chosen' \in Choice
      PROVE  WireTypeInv'
  <2>1. WireTypeOK'
    BY <1>0, <1>1 DEF WireTypeOK, process
  <2>2. HoldsLease'
    BY <1>0, <1>1 DEF HoldsLease, process
  <2> QED
    BY <2>1, <2>2
<1>2. ASSUME NEW kind, Serving(w, kind), UNCHANGED <<at, process, uploads, acks, service, faults>>,
             \E k \in {"wait", "abort"} : Served(w, k, NoAttempt)
      PROVE  WireTypeInv'
  <2>1. PICK k \in {"wait", "abort"} : Served(w, k, NoAttempt)
    BY <1>2
  <2>2. replies' \in [Worker -> Seq(Answer)]
    BY <1>0, <2>1, ReplyTypes, AnswerTypes DEF Served
  <2>3. requests' \in [Worker -> Seq(ControlMessage)]
    BY <1>0, <1>2, ServingTypes
  <2> QED
    BY <1>0, <1>1, <1>2, <2>2, <2>3 DEF WireTypeOK, service
<1>3. ASSUME NEW s, SettledReply(w, s)
      PROVE  replies' \in [Worker -> Seq(Answer)] /\ delivered' \in SUBSET Worker
  <2>1. delivered' \in SUBSET Worker
    BY <1>0, <1>3 DEF SettledReply, WireTypeOK
  <2>2. replies' \in [Worker -> Seq(Answer)]
    BY <1>0, <1>3, ReplyTypes, AnswerTypes DEF SettledReply
  <2> QED
    BY <2>1, <2>2
<1>4. CASE ServeRegister(w)
  BY <1>2, <1>4 DEF ServeRegister
<1>5. CASE ServeReady(w)
  BY <1>2, <1>5 DEF ServeReady
<1>6. CASE ServeHeartbeat(w)
  <2>1. requests' \in [Worker -> Seq(ControlMessage)]
    BY <1>0, <1>6, ServingTypes DEF ServeHeartbeat
  <2>2. replies' \in [Worker -> Seq(Answer)]
    BY <1>0, <1>6, ReplyTypes, AnswerTypes DEF ServeHeartbeat, Served
  <2>3. delivered' \in SUBSET Worker /\ chosen' \in Choice
    BY <1>0, <1>6 DEF ServeHeartbeat, WireTypeOK
  <2> QED
    BY <1>1, <1>6, <2>1, <2>2, <2>3 DEF ServeHeartbeat
<1>7. CASE ServeNoWork(w)
  <2>1. requests' \in [Worker -> Seq(ControlMessage)]
    BY <1>0, <1>7, ServingTypes DEF ServeNoWork
  <2>2. replies' \in [Worker -> Seq(Answer)] /\ delivered' \in SUBSET Worker
    <3>1. CASE Settled /\ SettledReply(w, Head(requests[w]).session)
      BY <1>3, <3>1
    <3>2. CASE \E k \in {"wait", "drain"} : /\ Reply(w, Head(requests[w]).session, k, NoAttempt)
                                            /\ UNCHANGED delivered
      BY <1>0, <3>2, ReplyTypes, AnswerTypes DEF WireTypeOK
    <3> QED
      BY <1>7, <3>1, <3>2 DEF ServeNoWork
  <2> QED
    BY <1>0, <1>1, <1>7, <2>1, <2>2 DEF ServeNoWork, WireTypeOK
<1>8. CASE ChooseLease(w)
  <2>1. /\ requests' \in [Worker -> Seq(ControlMessage)]
        /\ Head(requests[w]).session \in Nat
    BY <1>0, <1>8, ServingTypes DEF ChooseLease
  <2>2. PICK n \in First(IF Retryable(w) # {} THEN Retryable(w) ELSE {m \in Fresh : WorkLeft}) :
          chosen' = [worker |-> w, lease |-> n, session |-> Head(requests[w]).session]
    BY <1>8 DEF ChooseLease
  <2>3. n \in Lease
    BY <2>2 DEF First, Retryable, Inactive, Unsettled, Issued, Fresh
  <2>4. chosen' \in Choice
    BY <2>1, <2>2, <2>3 DEF Choice
  <2> QED
    BY <1>0, <1>1, <1>8, <2>1, <2>4 DEF ChooseLease, WireTypeOK
<1>9. CASE StartChosen(w)
  <2>1. chosen \in Choice /\ chosen.worker = w /\ w # Nobody
    BY <1>0, <1>9, WireAssumption DEF StartChosen, WireTypeOK
  <2>2. chosen.lease \in Lease /\ tries[chosen.lease] < MaximumAttempts
    BY <1>9, <2>1, BudgetAssumption
    DEF StartChosen, MayStart, Choice, Nothing, NoPlan, Inactive, Unsettled, Issued, Fresh
  <2>3. tries[chosen.lease] + 1 \in Try /\ window \in Nat
    BY <1>0, <2>2, BudgetAssumption, BoundAssumption DEF TypeInv, TypeOK, Try
  <2>4. [kind |-> "lease", attempt |-> [window |-> window, lease |-> chosen.lease,
                                        try |-> tries[chosen.lease] + 1]] \in Answer
    BY <2>2, <2>3 DEF Answer, LeaseId
  <2>5. replies' \in [Worker -> Seq(Answer)]
    BY <1>0, <1>9, <2>4, ReplyTypes DEF StartChosen
  <2>6. chosen' \in Choice
    BY <1>9 DEF StartChosen, Choice
  <2> QED
    BY <1>0, <1>1, <1>9, <2>5, <2>6 DEF StartChosen, WireTypeOK
<1>10. CASE ChosenRefused(w)
  <2>1. replies' \in [Worker -> Seq(Answer)] /\ delivered' \in SUBSET Worker
    <3>1. CASE SettledReply(w, chosen.session)
      BY <1>3, <3>1
    <3>2. CASE Reply(w, chosen.session, "abort", NoAttempt) /\ UNCHANGED delivered
      BY <1>0, <3>2, ReplyTypes, AnswerTypes DEF WireTypeOK
    <3> QED
      BY <1>10, <3>1, <3>2 DEF ChosenRefused
  <2>2. chosen' \in Choice
    BY <1>10 DEF ChosenRefused, Choice
  <2> QED
    BY <1>0, <1>1, <1>10, <2>1, <2>2 DEF ChosenRefused, WireTypeOK
<1>11. CASE ServeFailed(w)
  BY <1>2, <1>11 DEF ServeFailed
<1>12. CASE ServeComplete(w)
  BY <1>2, <1>12 DEF ServeComplete
<1>13. CASE ServePart(w)
  <2> DEFINE m == Head(uploads[w])
  <2>1. uploads' \in [Worker -> Seq(Part)] /\ m \in Part
    BY <1>0, <1>13, PopTypes DEF ServePart, WireTypeOK
  <2>2. PICK kind \in {"ack", "drain", "abort"} :
          acks' = IF at[w] # "off" /\ own[w] = m.session
                  THEN [acks EXCEPT ![w] =
                          Append(@, [kind |-> kind, attempt |-> m.attempt, part |-> m.part])]
                  ELSE acks
    BY <1>13 DEF ServePart
  <2>3. [kind |-> kind, attempt |-> m.attempt, part |-> m.part] \in PartAnswer
    BY <2>1 DEF Part, PartAnswer
  <2>4. acks' \in [Worker -> Seq(PartAnswer)]
    <3>1. acks[w] \in Seq(PartAnswer)
      BY <1>0 DEF WireTypeOK
    <3>2. Append(acks[w], [kind |-> kind, attempt |-> m.attempt, part |-> m.part])
            \in Seq(PartAnswer)
      BY <2>3, <3>1
    <3> HIDE DEF m
    <3> QED
      BY <1>0, <2>2, <3>2 DEF WireTypeOK
  <2>5. WireTypeOK'
    BY <1>0, <1>13, <2>1, <2>4 DEF ServePart, WireTypeOK, process, service
  <2>6. HoldsLease'
    BY <1>0, <1>13 DEF ServePart, HoldsLease, process
  <2> QED
    BY <2>5, <2>6
<1> QED
  BY <1>4, <1>5, <1>6, <1>7, <1>8, <1>9, <1>10, <1>11, <1>12, <1>13 DEF Serve

LEMMA InitWireTypes == InitService => WireTypeInv
<1> SUFFICES ASSUME InitService PROVE WireTypeInv
  OBVIOUS
<1>1. NoAttempt \in Id /\ Nothing \in Choice /\ 0 \in 0 .. MaxFaults
  BY WireAssumption DEF NoAttempt, Id, Choice
<1>2. WireTypeOK
  BY <1>1 DEF InitService, WireTypeOK, States
<1>3. HoldsLease
  BY DEF InitService, HoldsLease, AttemptStates
<1> QED
  BY <1>2, <1>3 DEF WireTypeInv

LEMMA NextWireTypes ==
    ASSUME TypeInv, WireTypeInv, [NextService]_allVars
    PROVE  WireTypeInv'
<1> USE DEF WireTypeInv
<1>1. ASSUME NEW w \in Worker, ProcessStep(w) \/ Environment(w) \/ Serve(w)
      PROVE  WireTypeInv'
  BY <1>1, ProcessTypes, EnvironmentTypes, ServeTypes
<1>2. ASSUME UNCHANGED <<at, process, channels, faults>>,
             delivered' \in SUBSET Worker, chosen' \in Choice
      PROVE  WireTypeInv'
  <2>1. WireTypeOK'
    BY <1>2 DEF WireTypeOK, process, channels
  <2>2. HoldsLease'
    BY <1>2 DEF HoldsLease, process
  <2> QED
    BY <2>1, <2>2
<1>3. delivered \in SUBSET Worker /\ chosen \in Choice
  BY DEF WireTypeOK
<1>4. CASE Maintain
  BY <1>2, <1>3, <1>4 DEF Maintain, wireVars, service
<1>5. CASE Boundary
  BY <1>2, <1>3, <1>5 DEF Boundary, Choice
<1>6. CASE AbortUnplanned
  BY <1>2, <1>3, <1>6 DEF AbortUnplanned, Choice
<1>7. CASE Learner
  BY <1>2, <1>3, <1>7 DEF Learner, wireVars, service
<1>8. CASE UNCHANGED allVars
  BY <1>2, <1>3, <1>8 DEF allVars, wireVars, service
<1> QED
  BY <1>1, <1>4, <1>5, <1>6, <1>7, <1>8 DEF NextService

(***************************************************************************)
(* What the service does to the coordinator                                *)
(***************************************************************************)

\* retry_shard does not ask whether the window still collects: an abort that
\* races with the I/O thread can leave an attempt in a window that is over.
StaleRetry(n, w) ==
    /\ ~Collecting
    /\ ready[w]
    /\ n \in Inactive
    /\ tries[n] < MaximumAttempts
    /\ StartAttempt(n, w)
    /\ UNCHANGED <<session, ready, pending, pendingReady, announced, windowState,
                   results, discarded, tombstones, reservations, learner>>

StaleStep == \E n \in Lease, w \in Worker : StaleRetry(n, w)

\* A step of the service is a step of the coordinator, or a late retry.
LEMMA StepOfCoordinator ==
    ASSUME TypeInv, WireTypeInv, ChosenIsWork, [NextService]_allVars
    PROVE  [Next]_vars \/ (StaleStep /\ ~ChosenIsOpen)
<1>0. WireTypeOK /\ chosen \in Choice
  BY DEF WireTypeInv, WireTypeOK
<1>1. ASSUME NEW w \in Worker, ProcessStep(w) \/ Environment(w) PROVE UNCHANGED vars
  BY <1>1, ProcessTypes, EnvironmentTypes
<1>2. ASSUME NEW w \in Worker, Serve(w) PROVE [Next]_vars \/ (StaleStep /\ ~ChosenIsOpen)
  <2>1. CASE ServeRegister(w) \/ ServeReady(w) \/ ServeNoWork(w) \/ ChooseLease(w)
    <3>1. WorkerStep
      BY <2>1 DEF ServeRegister, ServeReady, ServeNoWork, ChooseLease, WorkerStep
    <3> QED
      BY <3>1 DEF Next
  <2>2. CASE ServeHeartbeat(w) \/ ChosenRefused(w)
    BY <2>2 DEF ServeHeartbeat, ChosenRefused
  <2>3. CASE ServeFailed(w) \/ ServeComplete(w)
    <3>1. Head(requests[w]).attempt \in LeaseId
      BY <1>0, <2>3, ServingTypes DEF ServeFailed, ServeComplete
    <3>2. Head(requests[w]).attempt.lease \in Lease
      BY <3>1 DEF LeaseId
    <3>3. UNCHANGED vars \/ AttemptStep
      BY <2>3, <3>2 DEF ServeFailed, ServeComplete, AttemptStep
    <3> QED
      BY <3>3 DEF Next
  <2>4. CASE ServePart(w)
    <3>1. Head(uploads[w]) \in Part
      BY <1>0, <2>4, PopTypes DEF ServePart, WireTypeOK
    <3>2. Head(uploads[w]).attempt.lease \in Lease
      BY <3>1 DEF Part, LeaseId
    <3>3. UNCHANGED vars \/ AttemptStep
      BY <2>4, <3>2 DEF ServePart, AttemptStep
    <3> QED
      BY <3>3 DEF Next
  <2>5. CASE StartChosen(w)
    <3> DEFINE n == chosen.lease
    <3>1. chosen.worker = w /\ MayStart(n, w) /\ StartAttempt(n, w)
      BY <2>5 DEF StartChosen
    <3>2. UNCHANGED <<session, ready, pending, pendingReady, announced, windowState,
                      results, discarded, tombstones, reservations, learner>>
      BY <2>5 DEF StartChosen
    <3>3. n \in Lease
      BY <1>0, <3>1, WireAssumption DEF Choice, Nothing, NoPlan
    <3>4. CASE Collecting
      <4>1. announced[w] /\ MayWork(w) /\ n \in Candidates(w)
        BY <3>1, <3>4 DEF ChosenIsWork
      <4>2. CASE Retryable(w) # {}
        <5>1. RetryShard(w)
          BY <3>1, <3>2, <4>1, <4>2 DEF RetryShard, Candidates
        <5> QED
          BY <5>1 DEF Next, WorkerStep
      <4>3. CASE Retryable(w) = {}
        <5>1. WorkLeft /\ n \in First(Fresh)
          BY <4>1, <4>3 DEF Candidates, First
        <5>2. IssueShard(w)
          BY <3>1, <3>2, <4>1, <4>3, <5>1 DEF IssueShard
        <5> QED
          BY <5>2 DEF Next, WorkerStep
      <4> QED
        BY <4>2, <4>3
    <3>5. CASE ~Collecting
      <4>1. StaleRetry(n, w)
        BY <3>1, <3>2, <3>5 DEF StaleRetry, MayStart
      <4>2. ~ChosenIsOpen
        BY <3>1, <3>5 DEF ChosenIsOpen
      <4> QED
        BY <3>3, <4>1, <4>2 DEF StaleStep
    <3> QED
      BY <3>4, <3>5
  <2> QED
    BY <1>2, <2>1, <2>2, <2>3, <2>4, <2>5 DEF Serve
<1>3. CASE Maintain \/ Boundary
  BY <1>3 DEF Maintain, Boundary, Next
<1>4. CASE AbortUnplanned \/ Learner
  <2>1. LearnerStep
    BY <1>4 DEF AbortUnplanned, Learner, LearnerStep
  <2> QED
    BY <2>1 DEF Next
<1>5. CASE UNCHANGED allVars
  BY <1>5 DEF allVars
<1> QED
  BY <1>1, <1>2, <1>3, <1>4, <1>5 DEF NextService

LEMMA StaleTypeInv == TypeInv /\ StaleStep => TypeInv'
<1> SUFFICES ASSUME TypeInv, NEW n \in Lease, NEW w \in Worker, StaleRetry(n, w)
             PROVE  TypeInv'
  BY DEF StaleStep
<1>1. /\ tries' \in [Lease -> 0 .. MaximumAttempts]
      /\ attempt' \in AttemptMap
      /\ active' \in [Worker -> {Idle} \cup (Lease \X Try)]
  BY StartAttemptType DEF StaleRetry
<1>2. TypeOK'
  BY <1>1 DEF TypeInv, StaleRetry, TypeOK, AttemptMap, windowState, results, learner
<1>3. ReadyIsRegistered'
  BY DEF TypeInv, StaleRetry, ReadyIsRegistered
<1> QED
  BY <1>2, <1>3 DEF TypeInv

(***************************************************************************)
(* The life of an attempt                                                  *)
(***************************************************************************)

\* the attempts of a lease are started one after the other
Counted ==
    \A n \in Lease, k \in Try : attempt[n][k].state = "unstarted" <=> k > tries[n]

\* a tombstone of the current window is that of a finished attempt
TombstonesEnded ==
    \A t \in tombstones :
        /\ t.window <= window
        /\ t.window = window => attempt[t.lease][t.try].state = "finished"

\* an attempt is owned by the current session of its worker, or an older one
OwnersKnown ==
    \A n \in Lease, k \in Try :
        /\ attempt[n][k].state # "unstarted" => attempt[n][k].owner # Nobody
        /\ attempt[n][k].owner # Nobody =>
             attempt[n][k].owner[2] <= session[attempt[n][k].owner[1]]

SessionsGrow == \A w \in Worker : pending[w] # 0 => session[w] < pending[w]

CollectsSomething == Collecting => window > 0

LifeInv ==
    /\ OneLive
    /\ Counted
    /\ TombstonesEnded
    /\ OwnersKnown
    /\ SessionsGrow
    /\ CollectsSomething

AttemptInv == OneLive /\ Counted /\ TombstonesEnded

\* what a step makes of an attempt a that it neither starts nor gives a part
Ages(a, b) ==
    /\ a.state = "unstarted" => b.state = "unstarted"
    /\ a.state # "unstarted" => b.state # "unstarted"
    /\ b.owner = a.owner
    /\ a.state = "finished" => b.state = "finished"
    /\ a.state = "completing" => b.state \in {"completing", "finished"}
    /\ Collecting /\ b.state \in LiveStates => b.parts = a.parts

AllAge == \A n \in Lease, k \in Try : Ages(attempt[n][k], attempt'[n][k])

LEMMA ClearedAges == ASSUME NEW a \in Attempt
                     PROVE  /\ Ages(a, Cleared(a))
                            /\ Cleared(a).state \notin LiveStates
                            /\ a.state # "unstarted" => Cleared(a).state = "finished"
BY DEF Ages, Cleared, Attempt, LiveStates

LEMMA SameAges == ASSUME NEW a PROVE Ages(a, a)
BY DEF Ages

LEMMA FailAges ==
    ASSUME TypeInv, LifeInv, NEW F \in SUBSET Lease, \A n \in F : Live(n), Fail(F),
           UNCHANGED <<tries, window>>
    PROVE  AttemptInv' /\ AllAge
<1>0. OneLive /\ Counted /\ TombstonesEnded
  BY DEF LifeInv
<1>1. /\ attempt \in AttemptMap
      /\ window \in Nat
      /\ tombstones \subseteq Tombstone
      /\ \A n \in Lease : tries[n] \in 0 .. MaximumAttempts
  BY BoundAssumption DEF TypeInv, TypeOK, AttemptMap
<1>2. \A n \in Lease, k \in Try : attempt[n][k] \in Attempt
  BY <1>1 DEF AttemptMap
<1>3. ASSUME NEW n \in Lease, NEW k \in Try
      PROVE  attempt'[n][k] = IF n \in F /\ k = tries[n] THEN Cleared(attempt[n][k])
                              ELSE attempt[n][k]
  BY <1>1 DEF Fail, AttemptMap
<1>4. AllAge
  <2> SUFFICES ASSUME NEW n \in Lease, NEW k \in Try
               PROVE  Ages(attempt[n][k], attempt'[n][k])
    BY DEF AllAge
  <2> QED
    BY <1>2, <1>3, ClearedAges, SameAges
<1>5. OneLive'
  BY <1>0, FailEffect
<1>6. Counted'
  BY <1>0, <1>4 DEF Counted, AllAge, Ages
<1>7. TombstonesEnded'
  <2> SUFFICES ASSUME NEW t \in tombstones'
               PROVE  t.window <= window /\ (t.window = window =>
                                              attempt'[t.lease][t.try].state = "finished")
    BY DEF TombstonesEnded
  <2>1. CASE t \in tombstones
    <3>1. t.lease \in Lease /\ t.try \in Try
      BY <1>1, <2>1 DEF Tombstone
    <3> QED
      BY <1>0, <1>4, <2>1, <3>1 DEF TombstonesEnded, AllAge, Ages
  <2>2. CASE t \in TombstonesOf(F)
    <3>1. PICK n \in F, k \in Try : /\ attempt[n][k].state # "unstarted"
                                    /\ t.window = window /\ t.lease = n /\ t.try = k
      BY <2>2 DEF TombstonesOf
    <3>2. n \in Lease /\ attempt[n][k] \in Attempt
      BY <1>2
    <3>3. attempt'[n][k].state = "finished"
      <4>1. CASE k = tries[n]
        BY <1>3, <3>1, <3>2, <4>1, ClearedAges
      <4>2. CASE k # tries[n]
        <5>1. attempt[n][k].state \notin LiveStates
          BY <1>0, <3>2, <4>2 DEF OneLive
        <5> QED
          BY <1>3, <3>1, <3>2, <4>2, <5>1 DEF Attempt, LiveStates
      <4> QED
        BY <4>1, <4>2
    <3> QED
      BY <1>1, <3>1, <3>3
  <2> QED
    BY <2>1, <2>2 DEF Fail
<1> QED
  BY <1>4, <1>5, <1>6, <1>7 DEF AttemptInv

\* The attempts of m, which may have aged, and of them the leases D cleared.
LEMMA ClearAges ==
    ASSUME TypeInv, LifeInv, NEW m \in AttemptMap, NEW D \in SUBSET Lease,
           attempt' = ClearShards(m, D),
           \A n \in Lease, k \in Try : m[n][k].state \in LiveStates => k = tries[n],
           \A n \in Lease, k \in Try : m[n][k].state = "unstarted" <=> k > tries[n],
           \A n \in Lease, k \in Try :
             attempt[n][k].state = "finished" => m[n][k].state = "finished",
           tombstones' \subseteq tombstones \cup TombstonesOf(D),
           UNCHANGED <<tries, window>>
    PROVE  AttemptInv'
<1>1. /\ window \in Nat
      /\ tombstones \subseteq Tombstone
      /\ TombstonesEnded /\ Counted
  BY BoundAssumption DEF TypeInv, TypeOK, LifeInv
<1>2. \A n \in Lease, k \in Try : m[n][k] \in Attempt
  BY DEF AttemptMap
<1>3. ASSUME NEW n \in Lease, NEW k \in Try
      PROVE  attempt'[n][k] = IF n \in D THEN Cleared(m[n][k]) ELSE m[n][k]
  BY DEF ClearShards, AttemptMap
<1>4. OneLive'
  BY ClearEffect
<1>5. Counted'
  <2> SUFFICES ASSUME NEW n \in Lease, NEW k \in Try
               PROVE  attempt'[n][k].state = "unstarted" <=> k > tries[n]
    BY DEF Counted
  <2>1. Ages(m[n][k], Cleared(m[n][k]))
    BY <1>2, ClearedAges
  <2> QED
    BY <1>3, <2>1 DEF Ages
<1>6. TombstonesEnded'
  <2> SUFFICES ASSUME NEW t \in tombstones'
               PROVE  t.window <= window /\ (t.window = window =>
                                              attempt'[t.lease][t.try].state = "finished")
    BY DEF TombstonesEnded
  <2>1. CASE t \in tombstones
    <3>1. t.lease \in Lease /\ t.try \in Try
      BY <1>1, <2>1 DEF Tombstone
    <3>2. ASSUME t.window = window PROVE attempt'[t.lease][t.try].state = "finished"
      <4>1. m[t.lease][t.try].state = "finished"
        BY <1>1, <2>1, <3>1, <3>2 DEF TombstonesEnded
      <4>2. Ages(m[t.lease][t.try], Cleared(m[t.lease][t.try]))
        BY <1>2, <3>1, ClearedAges
      <4> QED
        BY <1>3, <3>1, <4>1, <4>2 DEF Ages
    <3> QED
      BY <1>1, <2>1, <3>2 DEF TombstonesEnded
  <2>2. CASE t \in TombstonesOf(D)
    <3>1. PICK n \in D, k \in Try : /\ attempt[n][k].state # "unstarted"
                                    /\ t.window = window /\ t.lease = n /\ t.try = k
      BY <2>2 DEF TombstonesOf
    <3>2. n \in Lease /\ m[n][k].state # "unstarted"
      BY <1>1, <3>1 DEF Counted
    <3>3. attempt'[n][k].state = "finished"
      BY <1>2, <1>3, <3>1, <3>2, ClearedAges
    <3> QED
      BY <1>1, <3>1, <3>3
  <2> QED
    BY <2>1, <2>2
<1> QED
  BY <1>4, <1>5, <1>6 DEF AttemptInv

\* Starting the next attempt of a lease that is not live.
LEMMA StartAges ==
    ASSUME TypeInv, LifeInv, NEW w \in Worker, NEW n \in Lease, ~Live(n),
           tries[n] < MaximumAttempts, StartAttempt(n, w), UNCHANGED <<window, tombstones>>
    PROVE  /\ AttemptInv'
           /\ attempt'[n][tries[n] + 1] =
                [owner |-> <<w, session[w]>>, state |-> "running", parts |-> 0, term |-> 0]
           /\ attempt[n][tries[n] + 1].state = "unstarted"
           /\ tries[n] + 1 \in Try
           /\ \A m \in Lease, k \in Try :
                m # n \/ k # tries[n] + 1 => attempt'[m][k] = attempt[m][k]
<1>1. /\ attempt \in AttemptMap
      /\ tombstones \subseteq Tombstone
      /\ \A m \in Lease : tries[m] \in 0 .. MaximumAttempts
      /\ tries \in [Lease -> 0 .. MaximumAttempts]
      /\ tries[n] + 1 \in Try
      /\ MaximumAttempts \in Nat
  BY BudgetAssumption DEF TypeInv, TypeOK, AttemptMap, Try
<1>2. /\ attempt'[n][tries[n] + 1] =
           [owner |-> <<w, session[w]>>, state |-> "running", parts |-> 0, term |-> 0]
      /\ \A m \in Lease, k \in Try :
           m # n \/ k # tries[n] + 1 => attempt'[m][k] = attempt[m][k]
  BY <1>1 DEF StartAttempt, AttemptMap
<1>3. /\ tries'[n] = tries[n] + 1
      /\ \A m \in Lease \ {n} : tries'[m] = tries[m]
  BY <1>1 DEF StartAttempt
<1>4. OneLive /\ Counted /\ TombstonesEnded
  BY DEF LifeInv
<1>5. attempt[n][tries[n] + 1].state = "unstarted"
  BY <1>1, <1>4 DEF Counted
<1>6. OneLive'
  <2> SUFFICES ASSUME NEW m \in Lease, NEW k \in Try, attempt'[m][k].state \in LiveStates
               PROVE  k = tries'[m]
    BY DEF OneLive
  <2>1. CASE m = n /\ k = tries[n] + 1
    BY <1>3, <2>1
  <2>2. CASE m # n
    BY <1>2, <1>3, <1>4, <2>2 DEF OneLive
  <2>3. CASE m = n /\ k # tries[n] + 1
    <3>1. attempt[n][k].state \in LiveStates /\ k = tries[n]
      BY <1>2, <1>4, <2>3 DEF OneLive
    <3>2. Live(n)
      BY <3>1 DEF Live, Current, LiveStates, Try
    <3> QED
      BY <3>2
  <2> QED
    BY <2>1, <2>2, <2>3
<1>7. Counted'
  <2> SUFFICES ASSUME NEW m \in Lease, NEW k \in Try
               PROVE  attempt'[m][k].state = "unstarted" <=> k > tries'[m]
    BY DEF Counted
  <2>1. CASE m = n /\ k = tries[n] + 1
    BY <1>1, <1>2, <1>3, <2>1
  <2>2. CASE m # n
    BY <1>2, <1>3, <1>4, <2>2 DEF Counted
  <2>3. CASE m = n /\ k # tries[n] + 1
    <3>1. attempt'[m][k] = attempt[m][k] /\ tries'[m] = tries[n] + 1
      BY <1>2, <1>3, <2>3
    <3>2. attempt[m][k].state = "unstarted" <=> k > tries[n]
      BY <1>4, <2>3 DEF Counted
    <3>3. k \in Int /\ tries[n] \in Int /\ k # tries[n] + 1
      BY <1>1, <2>3 DEF Try
    <3> QED
      BY <3>1, <3>2, <3>3
  <2> QED
    BY <2>1, <2>2, <2>3
<1>8. TombstonesEnded'
  <2> SUFFICES ASSUME NEW t \in tombstones
               PROVE  t.window <= window /\ (t.window = window =>
                                              attempt'[t.lease][t.try].state = "finished")
    BY DEF TombstonesEnded
  <2>1. t.lease \in Lease /\ t.try \in Try
    BY <1>1 DEF Tombstone
  <2>2. t.window = window => attempt[t.lease][t.try].state = "finished"
    BY <1>4 DEF TombstonesEnded
  <2> QED
    BY <1>2, <1>4, <1>5, <2>1, <2>2 DEF TombstonesEnded
<1> QED
  BY <1>1, <1>2, <1>5, <1>6, <1>7, <1>8 DEF AttemptInv

\* The sessions of a worker only grow, and only by registering.
LEMMA RegistryStep ==
    ASSUME TypeInv, LifeInv, [Next]_vars \/ StaleStep
    PROVE  /\ SessionsGrow'
           /\ CollectsSomething'
           /\ \A w \in Worker : session[w] <= session'[w]
           /\ \A w \in Worker : \/ Latest(w)' = Latest(w)
                                \/ RegisterWhileCollecting(w)
                                \/ RegisterAtBoundary(w)
<1> DEFINE Grow == /\ SessionsGrow'
                   /\ CollectsSomething'
                   /\ \A w \in Worker : session[w] <= session'[w]
                   /\ \A w \in Worker : \/ Latest(w)' = Latest(w)
                                        \/ RegisterWhileCollecting(w)
                                        \/ RegisterAtBoundary(w)
<1>0. /\ session \in [Worker -> Nat]
      /\ pending \in [Worker -> Nat]
      /\ window \in Nat
      /\ SessionsGrow
      /\ CollectsSomething
  BY BoundAssumption DEF TypeInv, TypeOK, LifeInv
<1>1. ASSUME UNCHANGED <<session, pending, window>>, Collecting' => Collecting PROVE Grow
  BY <1>0, <1>1 DEF SessionsGrow, CollectsSomething, Latest
<1>2. ASSUME NEW w \in Worker, RegisterWhileCollecting(w) PROVE Grow
  <2>1. UNCHANGED <<session, window, phase>> /\ pending' = [pending EXCEPT ![w] = Latest(w) + 1]
    BY <1>2 DEF RegisterWhileCollecting, windowState
  <2> QED
    BY <1>0, <1>2, <2>1 DEF SessionsGrow, CollectsSomething, Latest, Collecting
<1>3. ASSUME NEW w \in Worker, RegisterAtBoundary(w) PROVE Grow
  <2>1. /\ UNCHANGED <<window, phase>>
        /\ session' = [session EXCEPT ![w] = Latest(w) + 1]
        /\ pending' = [pending EXCEPT ![w] = 0]
    BY <1>3 DEF RegisterAtBoundary, windowState
  <2> QED
    BY <1>0, <1>3, <2>1 DEF SessionsGrow, CollectsSomething, Latest, Collecting
<1>4. ASSUME NEW stale, PromotePending(stale), window' \in {window, window + 1},
             Collecting' => window' = window + 1
      PROVE  Grow
  <2>1. /\ session' = [w \in Worker |-> PromotedSession(w)]
        /\ pending' = [w \in Worker |-> 0]
    BY <1>4 DEF PromotePending
  <2>2. \A w \in Worker : /\ session'[w] = Latest(w)
                          /\ pending'[w] = 0
                          /\ session[w] <= Latest(w)
    BY <1>0, <2>1 DEF SessionsGrow, Latest, PromotedSession
  <2>3. SessionsGrow'
    BY <2>2 DEF SessionsGrow
  <2>5. \A w \in Worker : session[w] <= session'[w]
    BY <2>2
  <2>6. \A w \in Worker : Latest(w)' = Latest(w)
    BY <2>2 DEF Latest
  <2>4. CollectsSomething'
    BY <1>0, <1>4 DEF CollectsSomething
  <2> QED
    BY <2>3, <2>4, <2>5, <2>6
<1>5. ASSUME NEW w \in Worker,
             MarkReady(w) \/ AcknowledgeDiscards(w) \/ RetryShard(w) \/ IssueShard(w)
      PROVE  Grow
  BY <1>1, <1>5 DEF MarkReady, AcknowledgeDiscards, RetryShard, IssueShard, windowState,
                    registry, Collecting
<1>6. CASE AttemptStep \/ CompletionStep
  <2>1. UNCHANGED <<session, pending, window, phase>>
    <3>1. ASSUME NEW n \in Lease, NEW k, AcceptPart(n, k)
          PROVE  UNCHANGED <<session, pending, window, phase>>
      BY <3>1 DEF AcceptPart
    <3>2. ASSUME NEW n \in Lease, FailAttempt(n) \/ ReserveCompletion(n)
          PROVE  UNCHANGED <<session, pending, window, phase>>
      BY <3>2 DEF FailAttempt, ReserveCompletion, windowState, registry
    <3>3. ASSUME NEW r, NEW shown, FinalizeCompletion(r, shown)
          PROVE  UNCHANGED <<session, pending, window, phase>>
      BY <3>3 DEF FinalizeCompletion
    <3>4. ASSUME NEW r, RejectCompletion(r)
          PROVE  UNCHANGED <<session, pending, window, phase>>
      BY <3>4 DEF RejectCompletion, windowState
    <3> QED
      BY <1>6, <3>1, <3>2, <3>3, <3>4 DEF AttemptStep, CompletionStep
  <2> QED
    BY <1>1, <2>1 DEF Collecting
<1>7. CASE SweepStep
  BY <1>1, <1>7 DEF SweepStep, ExpireWorkers, windowState, Collecting
<1>8. CASE BoundaryStep
  <2>1. ASSUME NEW stale, NEW mode, BeginWindow(stale, mode) PROVE Grow
    BY <1>4, <2>1 DEF BeginWindow
  <2>2. ASSUME NEW stale, RefuseWindow(stale) PROVE Grow
    BY <1>4, <2>2 DEF RefuseWindow, windowState, Collecting
  <2> QED
    BY <1>8, <2>1, <2>2 DEF BoundaryStep
<1>9. CASE LearnerStep
  BY <1>1, <1>9 DEF LearnerStep, RequestLearnerReadyDrain, StartCommit, FinishCommit,
                    FailCommit, AbortWindow, ReleaseParts, windowState, registry, Collecting
<1>10. CASE StaleStep
  BY <1>1, <1>10 DEF StaleStep, StaleRetry, windowState, Collecting
<1>11. CASE UNCHANGED vars
  BY <1>1, <1>11 DEF vars, registry, windowState, Collecting
<1> QED
  BY <1>2, <1>3, <1>5, <1>6, <1>7, <1>8, <1>9, <1>10, <1>11 DEF Next, WorkerStep

\* What a step that takes no part makes of attempt k of lease n.
Keeps(n, k) ==
    \/ Ages(attempt[n][k], attempt'[n][k])
    \/ \E w \in Worker :
         /\ StartAttempt(n, w)
         /\ k = tries[n] + 1
         /\ attempt[n][k].state = "unstarted"
         /\ attempt'[n][k] = [owner |-> <<w, session[w]>>, state |-> "running",
                              parts |-> 0, term |-> 0]

\* one part more for the running attempt of n
Grows(n) ==
    LET k == tries[n]
    IN  /\ k \in Try
        /\ attempt[n][k].state = "running"
        /\ attempt'[n][k].state = "running"
        /\ attempt'[n][k].owner = attempt[n][k].owner
        /\ attempt'[n][k].parts = attempt[n][k].parts + 1

NewWindow ==
    window' = window + 1 /\ \A n \in Lease, k \in Try : attempt'[n][k] = Unstarted

QuietLife ==
    \/ NewWindow
    \/ /\ window' = window
       /\ Collecting' => Collecting
       /\ \A n \in Lease, k \in Try : Keeps(n, k)

\* n takes a part, and the other attempts only age
PartLife(n) ==
    /\ window' = window
    /\ Collecting
    /\ Grows(n)
    /\ \A m \in Lease, k \in Try :
          m # n \/ k # tries[n] => Ages(attempt[m][k], attempt'[m][k])

LifeStep == QuietLife \/ \E n \in Lease : PartLife(n)

\* every step of the coordinator but the acceptance of a part
QuietStep ==
    \/ WorkerStep
    \/ \E n \in Lease : FailAttempt(n) \/ ReserveCompletion(n)
    \/ CompletionStep
    \/ SweepStep
    \/ BoundaryStep
    \/ LearnerStep
    \/ StaleStep
    \/ UNCHANGED vars

LEMMA QuietLives ==
    ASSUME TypeInv, LifeInv, QuietStep
    PROVE  AttemptInv' /\ QuietLife
<1> DEFINE Goal == AttemptInv' /\ QuietLife
<1>0. /\ OneLive /\ Counted /\ TombstonesEnded
      /\ attempt \in AttemptMap
      /\ \A n \in Lease, k \in Try : attempt[n][k] \in Attempt
      /\ \A n \in Lease : tries[n] \in 0 .. MaximumAttempts
      /\ tombstones \subseteq Tombstone
      /\ window \in Nat
  BY BoundAssumption DEF LifeInv, TypeInv, TypeOK, AttemptMap
<1>1. ASSUME AllAge, AttemptInv', window' = window, Collecting' => Collecting PROVE Goal
  BY <1>1 DEF AllAge, QuietLife, Keeps
<1>2. ASSUME UNCHANGED <<attempt, tries, window>>, tombstones' \subseteq tombstones,
             Collecting' => Collecting
      PROVE  Goal
  <2>1. AllAge
    BY <1>2, SameAges DEF AllAge
  <2>2. OneLive' /\ Counted'
    BY <1>0, <1>2 DEF OneLive, Counted
  <2>3. TombstonesEnded'
    BY <1>0, <1>2 DEF TombstonesEnded
  <2> QED
    BY <1>1, <1>2, <2>1, <2>2, <2>3 DEF AttemptInv
<1>3. ASSUME NEW F \in SUBSET Lease, \A n \in F : Live(n), Fail(F),
             UNCHANGED <<tries, windowState>>
      PROVE  Goal
  BY <1>1, <1>3, FailAges DEF windowState, Collecting
<1>4. ASSUME NEW w \in Worker, RegisterWhileCollecting(w) PROVE Goal
  BY <1>3, <1>4 DEF RegisterWhileCollecting
<1>5. ASSUME NEW w \in Worker, RegisterAtBoundary(w) \/ MarkReady(w) \/ AcknowledgeDiscards(w)
      PROVE  Goal
  BY <1>2, <1>5 DEF RegisterAtBoundary, MarkReady, AcknowledgeDiscards, windowState, Collecting
<1>6. ASSUME NEW n \in Lease, NEW w \in Worker, ~Live(n), tries[n] < MaximumAttempts,
             StartAttempt(n, w), UNCHANGED <<windowState, tombstones>>
      PROVE  Goal
  <2>1. UNCHANGED <<window, phase>>
    BY <1>6 DEF windowState
  <2>2. /\ AttemptInv'
        /\ attempt'[n][tries[n] + 1] =
             [owner |-> <<w, session[w]>>, state |-> "running", parts |-> 0, term |-> 0]
        /\ attempt[n][tries[n] + 1].state = "unstarted"
        /\ \A m \in Lease, k \in Try :
             m # n \/ k # tries[n] + 1 => attempt'[m][k] = attempt[m][k]
    BY <1>6, <2>1, StartAges
  <2>3. ASSUME NEW m \in Lease, NEW k \in Try PROVE Keeps(m, k)
    <3>1. CASE m = n /\ k = tries[n] + 1
      BY <1>6, <2>2, <3>1 DEF Keeps
    <3>2. CASE m # n \/ k # tries[n] + 1
      BY <2>2, <3>2, SameAges DEF Keeps
    <3> QED
      BY <3>1, <3>2
  <2> QED
    BY <2>1, <2>2, <2>3 DEF QuietLife, Collecting
<1>7. ASSUME NEW w \in Worker, RetryShard(w) \/ IssueShard(w) PROVE Goal
  <2>1. PICK n \in Lease : ~Live(n) /\ tries[n] < MaximumAttempts /\ StartAttempt(n, w)
    BY <1>7, BudgetAssumption
    DEF RetryShard, IssueShard, First, Retryable, Inactive, Unsettled, Issued, Fresh, Live
  <2> QED
    BY <1>6, <1>7, <2>1 DEF RetryShard, IssueShard
<1>8. CASE StaleStep
  <2>1. PICK n \in Lease, w \in Worker : StaleRetry(n, w)
    BY <1>8 DEF StaleStep
  <2>2. ~Live(n)
    BY <2>1 DEF StaleRetry, Inactive
  <2> QED
    BY <1>6, <2>1, <2>2 DEF StaleRetry
<1>9. CASE SweepStep
  <2>1. PICK L \in SUBSET Lease, W \in SUBSET Worker : ExpireWorkers(L, W)
    BY <1>9 DEF SweepStep
  <2> DEFINE F == L \cup {n \in Lease : /\ Live(n)
                                         /\ Current(n).state # "completing"
                                         /\ \E w \in W : active[w] = <<n, tries[n]>>}
  <2>2. F \in SUBSET Lease /\ (\A n \in F : Live(n)) /\ Fail(F)
    BY <2>1 DEF ExpireWorkers
  <2> HIDE DEF F
  <2> QED
    BY <1>3, <2>1, <2>2 DEF ExpireWorkers
<1>10. ASSUME NEW n \in Lease, FailAttempt(n) PROVE Goal
  BY <1>3, <1>10 DEF FailAttempt
<1>11. ASSUME NEW r \in reservations, RejectCompletion(r) PROVE Goal
  <2>1. r.lease \in Lease
    BY DEF TypeInv, TypeOK, Reservation
  <2> DEFINE F == IF ~Tombstoned(r) /\ Names(r) THEN {r.lease} ELSE {}
  <2>2. F \in SUBSET Lease /\ (\A n \in F : Live(n)) /\ Fail(F)
    BY <1>11, <2>1 DEF RejectCompletion, Names
  <2> HIDE DEF F
  <2> QED
    BY <1>3, <1>11, <2>2 DEF RejectCompletion
<1>12. CASE UNCHANGED vars
  BY <1>2, <1>12 DEF vars, windowState, Collecting
<1>13. CASE StartCommit \/ FinishCommit \/ FailCommit
  BY <1>2, <1>13 DEF StartCommit, FinishCommit, FailCommit, windowState, Collecting
<1>14. ASSUME NEW stale, RefuseWindow(stale) PROVE Goal
  BY <1>2, <1>14 DEF RefuseWindow, windowState, Collecting
<1>15. ASSUME NEW stale, NEW mode, BeginWindow(stale, mode) PROVE Goal
  <2>1. /\ window' = window + 1
        /\ tries' = [n \in Lease |-> 0]
        /\ attempt' = [n \in Lease |-> [k \in Try |-> Unstarted]]
        /\ tombstones' = tombstones
    BY <1>15 DEF BeginWindow
  <2>2. \A n \in Lease, k \in Try : attempt'[n][k] = Unstarted /\ tries'[n] = 0
    BY <2>1
  <2>3. OneLive'
    BY <2>2 DEF OneLive, Unstarted, LiveStates
  <2>4. Counted'
    BY <2>2 DEF Counted, Unstarted, Try
  <2>5. TombstonesEnded'
    BY <1>0, <2>1 DEF TombstonesEnded, Tombstone
  <2> QED
    BY <2>1, <2>2, <2>3, <2>4, <2>5 DEF AttemptInv, QuietLife, NewWindow
<1>16. CASE ReleaseParts
  <2>1. /\ attempt' = [n \in Lease |-> [k \in Try |->
                        [attempt[n][k] EXCEPT !.parts = 0, !.term = 0]]]
        /\ UNCHANGED <<windowState, tries, tombstones>>
        /\ ~Collecting
    BY <1>16 DEF ReleaseParts, Settled, Collecting
  <2>2. ASSUME NEW n \in Lease, NEW k \in Try
        PROVE  /\ attempt'[n][k].state = attempt[n][k].state
               /\ attempt'[n][k].owner = attempt[n][k].owner
    BY <1>0, <2>1 DEF Attempt
  <2>3. AllAge
    BY <2>1, <2>2 DEF AllAge, Ages
  <2>4. OneLive' /\ Counted'
    BY <1>0, <2>1, <2>2 DEF OneLive, Counted
  <2>5. TombstonesEnded'
    <3>1. \A t \in tombstones : t.lease \in Lease /\ t.try \in Try
      BY <1>0 DEF Tombstone
    <3> QED
      BY <1>0, <2>1, <2>2, <3>1 DEF TombstonesEnded, windowState
  <2> QED
    BY <1>1, <2>1, <2>3, <2>4, <2>5 DEF AttemptInv, windowState, Collecting
<1>17. CASE AbortWindow
  <2>1. /\ attempt' = ClearShards(attempt, Lease)
        /\ UNCHANGED <<window, tries, tombstones>>
        /\ ~Collecting'
    BY <1>17 DEF AbortWindow, Collecting
  <2>2. AttemptInv'
    <3>1. \A n \in Lease, k \in Try : attempt[n][k].state \in LiveStates => k = tries[n]
      BY <1>0 DEF OneLive
    <3>2. \A n \in Lease, k \in Try : attempt[n][k].state = "unstarted" <=> k > tries[n]
      BY <1>0 DEF Counted
    <3> QED
      BY <1>0, <2>1, <3>1, <3>2, ClearAges
  <2>3. AllAge
    <3>1. \A n \in Lease, k \in Try : attempt'[n][k] = Cleared(attempt[n][k])
      BY <2>1 DEF ClearShards
    <3> QED
      BY <1>0, <3>1, ClearedAges DEF AllAge
  <2> QED
    BY <1>1, <2>1, <2>2, <2>3
<1>18. CASE RequestLearnerReadyDrain
  <2>1. /\ attempt' = ClearShards(attempt, Inactive)
        /\ tombstones' = tombstones \cup TombstonesOf(Inactive)
        /\ Inactive \in SUBSET Lease
        /\ UNCHANGED <<window, tries, phase>>
    BY <1>18 DEF RequestLearnerReadyDrain, Inactive, Unsettled, Issued
  <2>2. AttemptInv'
    <3>1. \A n \in Lease, k \in Try : attempt[n][k].state \in LiveStates => k = tries[n]
      BY <1>0 DEF OneLive
    <3>2. \A n \in Lease, k \in Try : attempt[n][k].state = "unstarted" <=> k > tries[n]
      BY <1>0 DEF Counted
    <3> QED
      BY <1>0, <2>1, <3>1, <3>2, ClearAges
  <2>3. AllAge
    <3>1. \A n \in Lease, k \in Try :
            attempt'[n][k] = IF n \in Inactive THEN Cleared(attempt[n][k]) ELSE attempt[n][k]
      BY <1>0, <2>1 DEF ClearShards, AttemptMap
    <3> QED
      BY <1>0, <3>1, ClearedAges, SameAges DEF AllAge
  <2> QED
    BY <1>1, <2>1, <2>2, <2>3 DEF Collecting
<1>19. ASSUME NEW n \in Lease, ReserveCompletion(n) PROVE Goal
  <2>1. /\ Live(n) /\ Current(n).state = "running"
        /\ attempt' = [attempt EXCEPT ![n][tries[n]].state = "completing"]
        /\ UNCHANGED <<window, tries, phase, tombstones>>
    BY <1>19 DEF ReserveCompletion, windowState
  <2>2. tries[n] \in Try /\ attempt[n][tries[n]].state = "running"
    BY <1>0, <2>1, BudgetAssumption DEF Live, Current, Try
  <2>3. /\ attempt'[n][tries[n]] = [attempt[n][tries[n]] EXCEPT !.state = "completing"]
        /\ \A m \in Lease, k \in Try : m # n \/ k # tries[n] => attempt'[m][k] = attempt[m][k]
    BY <1>0, <2>1, <2>2 DEF AttemptMap
  <2>4. /\ attempt'[n][tries[n]].state = "completing"
        /\ attempt'[n][tries[n]].owner = attempt[n][tries[n]].owner
        /\ attempt'[n][tries[n]].parts = attempt[n][tries[n]].parts
    BY <1>0, <2>2, <2>3 DEF Attempt
  <2>5. AllAge
    <3> SUFFICES ASSUME NEW m \in Lease, NEW k \in Try
                 PROVE  Ages(attempt[m][k], attempt'[m][k])
      BY DEF AllAge
    <3>1. CASE m = n /\ k = tries[n]
      BY <2>2, <2>4, <3>1 DEF Ages
    <3>2. CASE m # n \/ k # tries[n]
      BY <2>3, <3>2, SameAges
    <3> QED
      BY <3>1, <3>2
  <2>6. OneLive' /\ Counted'
    BY <1>0, <2>1, <2>2, <2>3, <2>4 DEF OneLive, Counted
  <2>7. TombstonesEnded'
    <3>1. \A t \in tombstones : t.lease \in Lease /\ t.try \in Try
      BY <1>0 DEF Tombstone
    <3> QED
      BY <1>0, <2>1, <2>2, <2>3, <3>1 DEF TombstonesEnded
  <2> QED
    BY <1>1, <2>1, <2>5, <2>6, <2>7 DEF AttemptInv, Collecting
<1>21. ASSUME NEW r \in reservations, NEW shown, FinalizeCompletion(r, shown) PROVE Goal
  <2> DEFINE n == r.lease
             b == [attempt[n][r.try] EXCEPT !.state = "finished", !.parts = r.decisions]
             m == [attempt EXCEPT ![n][r.try] =
                     [@ EXCEPT !.state = "finished", !.parts = r.decisions]]
  <2>1. n \in Lease /\ r.try \in Try /\ r.decisions \in 0 .. MaxPart
    BY DEF TypeInv, TypeOK, Reservation
  <2>2. PICK D \in SUBSET Lease : attempt' = ClearShards(m, D)
                                  /\ tombstones' = tombstones \cup TombstonesOf(D)
    <3> DEFINE D == IF /\ ~primaryOnly
                       /\ ~Draining
                       /\ Satisfied(total + r.decisions, FALSE,
                                    Missing([exposes EXCEPT ![n] = shown]))
                    THEN Unsettled \ {n}
                    ELSE IF ReachesHighWater(total + r.decisions + TerminalProvisional
                                               - Current(n).term)
                         THEN Inactive ELSE {}
    <3>1. D \in SUBSET Lease
      BY DEF Unsettled, Inactive, Issued
    <3>2. attempt' = ClearShards(m, D) /\ tombstones' = tombstones \cup TombstonesOf(D)
      BY <1>21 DEF FinalizeCompletion
    <3> QED
      BY <3>1, <3>2
  <2>3. /\ Collecting /\ tries[n] = r.try /\ attempt[n][r.try].state = "completing"
        /\ UNCHANGED <<window, tries, phase>>
    BY <1>21 DEF FinalizeCompletion, Names, Current
  <2>4. /\ b \in Attempt
        /\ b.state = "finished"
        /\ b.owner = attempt[n][r.try].owner
    <3>1. attempt[n][r.try] \in Attempt
      BY <1>0, <2>1
    <3> QED
      BY <2>1, <3>1 DEF Attempt
  <2>5. /\ m \in AttemptMap
        /\ m[n][r.try] = b
        /\ \A i \in Lease, k \in Try : i # n \/ k # r.try => m[i][k] = attempt[i][k]
    BY <1>0, <2>1, <2>4 DEF AttemptMap
  <2> HIDE DEF n, b, m
  <2>6. AttemptInv'
    <3>1. \A i \in Lease, k \in Try : m[i][k].state \in LiveStates => k = tries[i]
      BY <1>0, <2>3, <2>4, <2>5 DEF OneLive, LiveStates
    <3>2. \A i \in Lease, k \in Try : m[i][k].state = "unstarted" <=> k > tries[i]
      BY <1>0, <2>1, <2>3, <2>4, <2>5 DEF Counted
    <3>3. \A i \in Lease, k \in Try :
            attempt[i][k].state = "finished" => m[i][k].state = "finished"
      BY <2>4, <2>5
    <3> QED
      BY <2>2, <2>3, <2>5, <3>1, <3>2, <3>3, ClearAges
  <2>7. \A i \in Lease, k \in Try :
          attempt'[i][k] = IF i \in D THEN Cleared(m[i][k]) ELSE m[i][k]
    BY <2>2, <2>5 DEF ClearShards, AttemptMap
  <2>8. AllAge
    <3> SUFFICES ASSUME NEW i \in Lease, NEW k \in Try
                 PROVE  Ages(attempt[i][k], attempt'[i][k])
      BY DEF AllAge
    <3>1. m[i][k] \in Attempt
      BY <2>5 DEF AttemptMap
    <3>2. CASE i = n /\ k = r.try
      <4>1. Cleared(b).state = "finished" /\ Cleared(b).owner = b.owner
        BY <2>4, ClearedAges DEF Ages
      <4> QED
        BY <2>3, <2>4, <2>5, <2>7, <3>2, <4>1 DEF Ages, LiveStates
    <3>3. CASE i # n \/ k # r.try
      BY <1>0, <2>5, <2>7, <3>3, ClearedAges, SameAges
    <3> QED
      BY <3>2, <3>3
  <2> QED
    BY <1>1, <2>3, <2>6, <2>8 DEF Collecting
<1> QED
  <2>1. WorkerStep => Goal
    BY <1>4, <1>5, <1>7 DEF WorkerStep
  <2>2. (\E n \in Lease : FailAttempt(n) \/ ReserveCompletion(n)) => Goal
    BY <1>10, <1>19
  <2>3. CompletionStep => Goal
    BY <1>11, <1>21 DEF CompletionStep
  <2>4. BoundaryStep => Goal
    BY <1>14, <1>15 DEF BoundaryStep
  <2>5. LearnerStep => Goal
    BY <1>13, <1>16, <1>17, <1>18 DEF LearnerStep
  <2> QED
    BY <1>8, <1>9, <1>12, <2>1, <2>2, <2>3, <2>4, <2>5 DEF QuietStep

LEMMA PartLives ==
    ASSUME TypeInv, LifeInv, NEW n \in Lease, NEW j \in 0 .. MaxPart, AcceptPart(n, j)
    PROVE  AttemptInv' /\ PartLife(n)
<1>0. /\ OneLive /\ Counted /\ TombstonesEnded
      /\ attempt \in AttemptMap
      /\ \A i \in Lease, k \in Try : attempt[i][k] \in Attempt
      /\ \A i \in Lease : tries[i] \in 0 .. MaximumAttempts
      /\ tombstones \subseteq Tombstone
      /\ window \in Nat
  BY BoundAssumption DEF LifeInv, TypeInv, TypeOK, AttemptMap
<1> DEFINE a == Current(n)
           D == IF ReachesHighWater(total + TerminalProvisional + j) THEN Inactive ELSE {}
           b == [a EXCEPT !.parts = @ + 1, !.term = @ + j]
           m == [attempt EXCEPT ![n][tries[n]] = b]
<1>1. /\ Live(n) /\ a.state = "running" /\ Collecting
      /\ a.parts < MaxPart /\ a.term + j <= a.parts + 1
      /\ attempt' = ClearShards(m, D)
      /\ tombstones' = tombstones \cup TombstonesOf(D)
      /\ UNCHANGED <<window, tries, phase>>
  BY DEF AcceptPart
<1>2. tries[n] \in Try /\ a = attempt[n][tries[n]] /\ a \in Attempt
  BY <1>0, <1>1, BudgetAssumption DEF Live, Current, Try
<1>3. D \in SUBSET Lease /\ n \notin D
  BY <1>1 DEF Inactive, Unsettled, Issued
<1>4. /\ b \in Attempt
      /\ b.state = "running"
      /\ b.owner = a.owner
      /\ b.parts = a.parts + 1
  <2>1. a.parts \in Nat /\ a.term \in Nat /\ j \in Nat /\ MaxPart \in Nat
    BY <1>2, BoundAssumption DEF Attempt
  <2>2. a.parts + 1 \in 0 .. MaxPart /\ a.term + j \in 0 .. MaxPart
    BY <1>1, <2>1
  <2>3. b = [a EXCEPT !.parts = a.parts + 1, !.term = a.term + j]
    OBVIOUS
  <2> HIDE DEF a, b
  <2> QED
    BY <1>1, <1>2, <2>2, <2>3 DEF Attempt
<1> HIDE DEF a, b, D
<1>5. /\ m \in AttemptMap
      /\ m[n][tries[n]] = b
      /\ \A i \in Lease, k \in Try : i # n \/ k # tries[n] => m[i][k] = attempt[i][k]
  BY <1>0, <1>2, <1>4 DEF AttemptMap
<1> HIDE DEF m
<1>6. AttemptInv'
  <2>1. \A i \in Lease, k \in Try : m[i][k].state \in LiveStates => k = tries[i]
    BY <1>0, <1>1, <1>2, <1>4, <1>5 DEF OneLive
  <2>2. \A i \in Lease, k \in Try : m[i][k].state = "unstarted" <=> k > tries[i]
    BY <1>0, <1>1, <1>2, <1>4, <1>5 DEF Counted
  <2>3. \A i \in Lease, k \in Try :
          attempt[i][k].state = "finished" => m[i][k].state = "finished"
    BY <1>1, <1>2, <1>5
  <2> QED
    BY <1>1, <1>3, <1>5, <2>1, <2>2, <2>3, ClearAges
<1>7. \A i \in Lease, k \in Try :
        attempt'[i][k] = IF i \in D THEN Cleared(m[i][k]) ELSE m[i][k]
  BY <1>1, <1>5 DEF ClearShards, AttemptMap
<1>8. \A i \in Lease, k \in Try :
        i # n \/ k # tries[n] => Ages(attempt[i][k], attempt'[i][k])
  <2> SUFFICES ASSUME NEW i \in Lease, NEW k \in Try, i # n \/ k # tries[n]
               PROVE  Ages(attempt[i][k], attempt'[i][k])
    OBVIOUS
  <2> QED
    BY <1>0, <1>5, <1>7, ClearedAges, SameAges
<1>9. Grows(n)
  <2>1. attempt'[n][tries[n]] = b
    BY <1>2, <1>3, <1>5, <1>7
  <2> QED
    BY <1>1, <1>2, <1>4, <2>1 DEF Grows
<1> QED
  BY <1>1, <1>6, <1>8, <1>9 DEF PartLife

LEMMA CoordinatorLives ==
    ASSUME TypeInv, LifeInv, [Next]_vars \/ StaleStep
    PROVE  AttemptInv' /\ LifeStep
<1>1. QuietStep \/ \E n \in Lease, j \in 0 .. MaxPart : AcceptPart(n, j)
  BY DEF Next, AttemptStep, QuietStep
<1> QED
  BY <1>1, QuietLives, PartLives DEF LifeStep

\* What a step within a window makes of attempt k of lease n.
Lives(n, k) ==
    \/ Keeps(n, k)
    \/ /\ attempt[n][k].state = "running"
       /\ attempt'[n][k].state = "running"
       /\ attempt'[n][k].owner = attempt[n][k].owner

LEMMA AttemptsLive ==
    ASSUME TypeInv, LifeInv, [Next]_vars \/ StaleStep
    PROVE  \/ NewWindow
           \/ /\ window' = window
              /\ Collecting' => Collecting
              /\ \A n \in Lease, k \in Try : Lives(n, k)
  BY CoordinatorLives DEF LifeStep, QuietLife, PartLife, Grows, Lives, Keeps

LEMMA CoordinatorLifeInv ==
    ASSUME TypeInv, LifeInv, [Next]_vars \/ StaleStep
    PROVE  TypeInv' /\ LifeInv'
<1>1. TypeInv'
  BY NextTypeInv, StaleTypeInv
<1>2. AttemptInv' /\ LifeStep
  BY CoordinatorLives
<1>3. /\ SessionsGrow'
      /\ CollectsSomething'
      /\ \A w \in Worker : session[w] <= session'[w]
  BY RegistryStep
<1>4. /\ session \in [Worker -> Nat] /\ session' \in [Worker -> Nat]
      /\ \A n \in Lease, k \in Try : attempt[n][k].owner \in Owner \cup {Nobody}
  BY <1>1, BoundAssumption DEF TypeInv, TypeOK, Attempt
<1>5. OwnersKnown'
  <2> SUFFICES ASSUME NEW n \in Lease, NEW k \in Try
               PROVE  /\ attempt'[n][k].state # "unstarted" => attempt'[n][k].owner # Nobody
                      /\ attempt'[n][k].owner # Nobody =>
                           attempt'[n][k].owner[2] <= session'[attempt'[n][k].owner[1]]
    BY DEF OwnersKnown
  <2>a. /\ attempt[n][k].state # "unstarted" => attempt[n][k].owner # Nobody
        /\ attempt[n][k].owner # Nobody =>
             attempt[n][k].owner[2] <= session[attempt[n][k].owner[1]]
    BY DEF LifeInv, OwnersKnown
  <2>1. Keeps(n, k) =>
          \/ /\ attempt'[n][k].owner = attempt[n][k].owner
             /\ attempt'[n][k].state # "unstarted" => attempt[n][k].state # "unstarted"
          \/ \E w \in Worker : attempt'[n][k].owner = <<w, session[w]>>
    <3>1. ASSUME NEW w \in Worker,
                 attempt'[n][k] = [owner |-> <<w, session[w]>>, state |-> "running",
                                   parts |-> 0, term |-> 0]
          PROVE  attempt'[n][k].owner = <<w, session[w]>>
      BY <3>1
    <3> QED
      BY <3>1 DEF Keeps, Ages
  <2>2. \/ attempt'[n][k] = Unstarted
        \/ Keeps(n, k)
        \/ /\ attempt'[n][k].owner = attempt[n][k].owner
           /\ attempt'[n][k].state # "unstarted" => attempt[n][k].state # "unstarted"
    BY <1>2 DEF LifeStep, QuietLife, NewWindow, PartLife, Grows, Ages
  <2>3. CASE attempt'[n][k] = Unstarted
    BY <2>3 DEF Unstarted
  <2>4. CASE \E w \in Worker : attempt'[n][k].owner = <<w, session[w]>>
    <3>1. PICK w \in Worker : attempt'[n][k].owner = <<w, session[w]>>
      BY <2>4
    <3>2. <<w, session[w]>> # Nobody
      BY DEF Nobody
    <3> QED
      BY <1>3, <3>1, <3>2
  <2>5. CASE /\ attempt'[n][k].owner = attempt[n][k].owner
             /\ attempt'[n][k].state # "unstarted" => attempt[n][k].state # "unstarted"
    <3> DEFINE o == attempt[n][k].owner
    <3>1. CASE o = Nobody
      BY <2>a, <2>5, <3>1
    <3>2. CASE o # Nobody
      <4>1. o \in Owner /\ o[2] <= session[o[1]]
        BY <1>4, <2>a, <3>2
      <4>2. o[1] \in Worker /\ o[2] \in Nat
        BY <4>1 DEF Owner, Session
      <4>3. session[o[1]] <= session'[o[1]] /\ session[o[1]] \in Nat /\ session'[o[1]] \in Nat
        BY <1>3, <1>4, <4>2
      <4> QED
        BY <2>5, <3>2, <4>1, <4>2, <4>3
    <3> QED
      BY <3>1, <3>2
  <2> QED
    BY <2>1, <2>2, <2>3, <2>4, <2>5
<1> QED
  BY <1>1, <1>2, <1>3, <1>5 DEF LifeInv, AttemptInv

LEMMA InitLifeInv == Init => LifeInv
BY DEF Init, LifeInv, OneLive, Counted, TombstonesEnded, OwnersKnown, SessionsGrow,
       CollectsSomething, Collecting, Unstarted, LiveStates, Try

(***************************************************************************)
(* Lease choices                                                           *)
(***************************************************************************)

\* No lease waits for a retry once the drain is requested.
LEMMA DrainDropsInactive ==
    ASSUME TypeInv, RequestLearnerReadyDrain
    PROVE  Inactive' = {} /\ Draining' /\ Collecting'
<1>1. /\ attempt' = ClearShards(attempt, Inactive)
      /\ discarded' = [n \in Lease |-> discarded[n] \/ n \in Inactive]
      /\ learnerDrain' = TRUE
      /\ UNCHANGED <<phase, tries, accepted>>
      /\ Collecting
  BY DEF RequestLearnerReadyDrain, results
<1>2. ASSUME NEW n \in Inactive' PROVE FALSE
  <2>1. n \in Lease /\ tries'[n] > 0 /\ accepted'[n] = 0 /\ ~discarded'[n] /\ ~Live(n)'
    BY DEF Inactive, Unsettled, Issued
  <2>2. n \notin Inactive /\ n \in Unsettled
    BY <1>1, <2>1 DEF Unsettled, Issued
  <2>3. Live(n)
    BY <2>2 DEF Inactive
  <2>4. attempt'[n] = attempt[n]
    BY <1>1, <2>1, <2>2 DEF ClearShards
  <2> QED
    BY <1>1, <2>1, <2>3, <2>4 DEF Live, Current
<1> QED
  BY <1>1, <1>2 DEF Draining, Collecting

\* While a lease is picked the I/O thread does nothing else.
LEMMA ChosenStep ==
    ASSUME WireTypeInv, NEW w \in Worker, chosen'.worker = w, [NextService]_allVars
    PROVE  \/ ChooseLease(w) /\ Free
           \/ /\ chosen' = chosen /\ ~Free
              /\ UNCHANGED vars \/ Learner
<1>0. w # Nobody /\ Nothing.worker = Nobody /\ NoPlan.worker = Nobody
  BY WireAssumption DEF Nothing, NoPlan
<1>1. ASSUME NEW v \in Worker, Serve(v)
      PROVE  ChooseLease(w) /\ Free
  <2>1. CASE ChooseLease(v)
    <3>1. chosen'.worker = v
      BY <2>1 DEF ChooseLease
    <3> QED
      BY <2>1, <3>1 DEF ChooseLease, Serving
  <2>2. CASE StartChosen(v) \/ ChosenRefused(v)
    BY <1>0, <2>2 DEF StartChosen, ChosenRefused
  <2>3. CASE ServeHeartbeat(v) \/ ServeNoWork(v)
    BY <1>0, <2>3 DEF ServeHeartbeat, ServeNoWork, Serving, Free
  <2>4. CASE ServeRegister(v) \/ ServeReady(v) \/ ServeFailed(v) \/ ServeComplete(v)
    BY <1>0, <2>4 DEF ServeRegister, ServeReady, ServeFailed, ServeComplete, Serving, Free,
                      service
  <2>5. CASE ServePart(v)
    BY <1>0, <2>5 DEF ServePart, Free, service
  <2> QED
    BY <1>1, <2>1, <2>2, <2>3, <2>4, <2>5 DEF Serve
<1>2. ASSUME NEW v \in Worker, ProcessStep(v) \/ Environment(v)
      PROVE  chosen' = chosen /\ UNCHANGED vars
  <2>1. UNCHANGED vars
    BY <1>2, ProcessTypes, EnvironmentTypes
  <2>2. CASE ProcessStep(v)
    BY <2>2 DEF ProcessStep, LoopRaises, Registered, TakeLease, Poll, LoopAgain,
       CollectionRaises, Upload, Uploaded, Heartbeat, Beaten, Collected, AttemptRaises,
       AttemptEnds, TimeoutInLoop, TimeoutInAttempt, TimeoutInReport, Exit, service
  <2>3. CASE Environment(v)
    BY <2>3 DEF Environment, StartProcess, Crash, DropReply, Exit, service
  <2> QED
    BY <1>2, <2>1, <2>2, <2>3
<1>3. CASE Maintain \/ Boundary \/ AbortUnplanned
  BY <1>0, <1>3 DEF Maintain, Boundary, AbortUnplanned, Free, wireVars, service
<1>4. CASE Learner
  BY <1>0, <1>4 DEF Learner, Free, wireVars, service
<1>5. CASE UNCHANGED allVars
  BY <1>0, <1>5 DEF allVars, Free, wireVars, service
<1> QED
  BY <1>0, <1>1, <1>2, <1>3, <1>4, <1>5 DEF NextService, Free

\* What may be started depends on the coordinator alone.
LEMMA ChoiceFrame ==
    ASSUME UNCHANGED <<registry, windowState, tries, attempt, results, discarded>>,
           NEW w \in Worker
    PROVE  /\ announced'[w] = announced[w]
           /\ MayWork(w)' <=> MayWork(w)
           /\ Candidates(w)' = Candidates(w)
           /\ Inactive' = Inactive
<1>1. MayWork(w)' <=> MayWork(w)
  BY DEF MayWork, Collecting, Draining, registry, windowState
<1>2. /\ Unsettled' = Unsettled /\ Inactive' = Inactive /\ Open' = Open
  BY DEF Unsettled, Issued, Inactive, Live, Current, Open, results
<1>3. Provisional' = Provisional
  BY <1>2 DEF Provisional, Current
<1>4. Retryable(w)' = Retryable(w)
  BY <1>2 DEF Retryable, Tried, FreshWorkerFor, registry, windowState
<1>5. Fresh' = Fresh /\ (WorkLeft' <=> WorkLeft)
  BY <1>3 DEF Fresh, WorkLeft, windowState, results
<1>6. {m \in Fresh : WorkLeft}' = {m \in Fresh : WorkLeft}
  BY <1>5
<1> QED
  BY <1>1, <1>2, <1>4, <1>6 DEF Candidates, First, registry

LEMMA NextChosenIsWork ==
    ASSUME TypeInv, WireTypeInv, ChosenIsWork, [NextService]_allVars
    PROVE  ChosenIsWork'
<1> SUFFICES ASSUME NEW w \in Worker, chosen'.worker = w, Collecting',
                    MayStart(chosen.lease, w)'
             PROVE  (announced[w] /\ MayWork(w) /\ chosen.lease \in Candidates(w))'
  BY DEF ChosenIsWork
<1>1. CASE ChooseLease(w)
  <2>1. /\ announced[w] /\ MayWork(w)
        /\ UNCHANGED <<registry, windowState, tries, attempt, results, discarded>>
    BY <1>1 DEF ChooseLease, AcknowledgeDiscards
  <2>2. chosen'.lease \in Candidates(w)
    BY <1>1 DEF ChooseLease, Candidates
  <2>3. announced'[w] /\ MayWork(w)' /\ Candidates(w)' = Candidates(w)
    BY <2>1, ChoiceFrame
  <2> QED
    BY <2>2, <2>3
<1>2. ASSUME chosen' = chosen,
             UNCHANGED <<registry, windowState, tries, attempt, results, discarded>>
      PROVE  (announced[w] /\ MayWork(w) /\ chosen.lease \in Candidates(w))'
  <2>1. Inactive' = Inactive
    BY <1>2, ChoiceFrame
  <2>2. Collecting /\ MayStart(chosen.lease, w) /\ chosen.worker = w
    BY <1>2, <2>1 DEF MayStart, Fresh, Collecting, Draining, registry, windowState
  <2>3. announced[w] /\ MayWork(w) /\ chosen.lease \in Candidates(w)
    BY <2>2 DEF ChosenIsWork
  <2>4. announced'[w] /\ MayWork(w)' /\ Candidates(w)' = Candidates(w)
    BY <1>2, <2>3, ChoiceFrame
  <2> QED
    BY <1>2, <2>3, <2>4
<1>3. CASE chosen' = chosen /\ Learner
  <2>1. CASE RequestLearnerReadyDrain
    BY <2>1, DrainDropsInactive DEF MayStart
  <2>2. CASE AbortWindow \/ FinishCommit \/ ReleaseParts
    BY <2>2 DEF AbortWindow, FinishCommit, ReleaseParts, Collecting, Settled, windowState
  <2>3. CASE StartCommit \/ FailCommit
    <3>1. UNCHANGED <<registry, windowState, tries, attempt, results, discarded>>
      BY <2>3 DEF StartCommit, FailCommit
    <3> QED
      BY <1>2, <1>3, <3>1
  <2> QED
    BY <1>3, <2>1, <2>2, <2>3 DEF Learner
<1> QED
  BY <1>1, <1>2, <1>3, ChosenStep DEF vars

LEMMA NextChosenIsOpen ==
    ASSUME ~AbortRaces, IInv, WireTypeInv, ChosenIsOpen, [NextService]_allVars
    PROVE  ChosenIsOpen'
<1> SUFFICES ASSUME NEW w \in Worker, chosen'.worker = w, MayStart(chosen.lease, w)'
             PROVE  Collecting'
  BY DEF ChosenIsOpen
<1>0. TypeInv /\ CommitsWhatItHanded
  BY DEF IInv
<1>1. CASE ChooseLease(w)
  BY <1>1 DEF ChooseLease, AcknowledgeDiscards, MayWork, Collecting, windowState
<1>2. ASSUME chosen' = chosen, Inactive' = Inactive,
             UNCHANGED <<registry, windowState, tries>>
      PROVE  Collecting'
  <2>1. MayStart(chosen.lease, w) /\ chosen.worker = w
    BY <1>2 DEF MayStart, Fresh, Collecting, Draining, registry, windowState
  <2> QED
    BY <1>2, <2>1 DEF ChosenIsOpen, Collecting, windowState
<1>3. ASSUME chosen' = chosen,
             UNCHANGED <<registry, windowState, tries, attempt, results, discarded>>
      PROVE  Collecting'
  <2>1. Inactive' = Inactive
    BY <1>3, ChoiceFrame
  <2> QED
    BY <1>2, <1>3, <2>1
<1>4. CASE chosen' = chosen /\ ~Free /\ Learner
  <2>1. CASE RequestLearnerReadyDrain
    BY <1>0, <2>1, DrainDropsInactive
  <2>2. CASE (AbortRaces \/ Free) /\ AbortWindow
    BY <1>4, <2>2
  <2>3. CASE StartCommit \/ FailCommit
    BY <1>3, <1>4, <2>3 DEF StartCommit, FailCommit
  <2>4. CASE FinishCommit
    <3>1. ReadyToCommit
      BY <1>0, <2>4 DEF FinishCommit, CommitsWhatItHanded
    <3>2. Inactive' = {}
      BY <2>4, <3>1 DEF ReadyToCommit, FinishCommit, Inactive, Unsettled, Issued, results
    <3> QED
      BY <3>2 DEF MayStart
  <2>5. CASE ReleaseParts
    <3>1. /\ UNCHANGED <<registry, windowState, tries, results, discarded>>
          /\ \A n \in Lease, k \in Try : attempt'[n][k].state = attempt[n][k].state
      <4>1. \A n \in Lease, k \in Try : attempt[n][k] \in Attempt
        BY <1>0 DEF TypeInv, TypeOK
      <4>2. attempt' = [n \in Lease |-> [k \in Try |->
                         [attempt[n][k] EXCEPT !.parts = 0, !.term = 0]]]
        BY <2>5 DEF ReleaseParts
      <4>3. ASSUME NEW n \in Lease, NEW k \in Try
            PROVE  attempt'[n][k].state = attempt[n][k].state
        BY <4>1, <4>2 DEF Attempt
      <4> QED
        BY <2>5, <4>3 DEF ReleaseParts
    <3>2. \A n \in Issued : tries[n] \in Try
      BY <1>0, BudgetAssumption DEF TypeInv, TypeOK, Issued, Try
    <3>3. Inactive' = Inactive
      BY <3>1, <3>2 DEF Inactive, Unsettled, Issued, Live, Current, results
    <3> QED
      BY <1>2, <1>4, <3>1, <3>3
  <2> QED
    BY <1>4, <2>1, <2>2, <2>3, <2>4, <2>5 DEF Learner
<1> QED
  BY <1>1, <1>3, <1>4, ChosenStep DEF vars

(***************************************************************************)
(* Refinement                                                              *)
(***************************************************************************)

\* what holds whenever the learner may abort
ServiceInv == TypeInv /\ LifeInv /\ WireTypeInv /\ ChosenIsWork

\* what holds if it never aborts while a lease is started
OpenInv == IInv /\ ChosenIsOpen

LEMMA InitServiceInv == InitService => ServiceInv /\ OpenInv
<1> SUFFICES ASSUME InitService PROVE ServiceInv /\ OpenInv
  OBVIOUS
<1>1. Init
  BY DEF InitService
<1>2. chosen.worker = Nobody /\ Nobody \notin Worker
  BY WireAssumption DEF InitService, Nothing
<1>3. ChosenIsWork /\ ChosenIsOpen
  BY <1>2 DEF ChosenIsWork, ChosenIsOpen
<1> QED
  BY <1>1, <1>3, InitTypeInv, InitLifeInv, InitWireTypes, InitIInv DEF ServiceInv, OpenInv

LEMMA NextServiceInv == ServiceInv /\ [NextService]_allVars => ServiceInv'
<1> SUFFICES ASSUME ServiceInv, [NextService]_allVars PROVE ServiceInv'
  OBVIOUS
<1>1. TypeInv /\ LifeInv /\ WireTypeInv /\ ChosenIsWork
  BY DEF ServiceInv
<1>2. [Next]_vars \/ StaleStep
  BY <1>1, StepOfCoordinator
<1> QED
  BY <1>1, <1>2, CoordinatorLifeInv, NextWireTypes, NextChosenIsWork DEF ServiceInv

LEMMA NextOpenInv ==
    ASSUME ~AbortRaces, ServiceInv, OpenInv, [NextService]_allVars
    PROVE  [Next]_vars /\ OpenInv'
<1>1. [Next]_vars
  BY StepOfCoordinator DEF ServiceInv, OpenInv
<1>2. IInv'
  BY <1>1, NextTypeInv, NextLeaseInv, NextCommits DEF IInv, OpenInv
<1>3. ChosenIsOpen'
  BY NextChosenIsOpen DEF ServiceInv, OpenInv
<1> QED
  BY <1>1, <1>2, <1>3 DEF OpenInv

LEMMA SpecServiceInv == ServiceSpec => []ServiceInv
<1>1. InitService => ServiceInv
  BY InitServiceInv
<1>2. ServiceInv /\ [NextService]_allVars => ServiceInv'
  BY NextServiceInv
<1> QED
  BY <1>1, <1>2, PTL DEF ServiceSpec

LEMMA SpecOpenInv == ASSUME ~AbortRaces PROVE ServiceSpec => []OpenInv
<1>1. InitService => OpenInv
  BY InitServiceInv
<1>2. ServiceInv /\ OpenInv /\ [NextService]_allVars => OpenInv'
  BY NextOpenInv
<1> QED
  BY <1>1, <1>2, SpecServiceInv, PTL DEF ServiceSpec

\* The service, with its workers' processes, its channels, its two steps to
\* start a lease and the learner's calls in between, does only what the
\* coordinator may do, unless the learner aborts between the two steps.
THEOREM ServiceRefinesCoordinator ==
    ASSUME ~AbortRaces
    PROVE  ServiceSpec => RefinesCoordinator
<1>1. InitService => Init
  BY DEF InitService
<1>2. ServiceInv /\ OpenInv /\ [NextService]_allVars => [Next]_vars
  BY NextOpenInv
<1> QED
  BY <1>1, <1>2, SpecServiceInv, SpecOpenInv, PTL DEF ServiceSpec, RefinesCoordinator, Spec

(***************************************************************************)
(* A window, whenever the learner aborts it                                *)
(***************************************************************************)

Aborted == phase = "aborted"

\* An aborted window keeps no row, and what a late retry starts in it is an
\* attempt of a lease without a result.
AbortedInv ==
    /\ ~callback
    /\ \A n \in Lease, k \in Try : attempt[n][k].parts = 0
    /\ \A n \in Lease : Live(n) => accepted[n] = 0 /\ ~discarded[n]
    /\ UnissuedIsBlank
    /\ AcceptedIsLast
    /\ OnlyResultsCount
    /\ TotalIsSum

\* what the coordinator keeps while nothing is started behind its window's back
OrderlyInv == IInv /\ ResultInv /\ TargetClosesWindow

\* Only an aborted window leaves a lease that a late retry can start.
WindowInv ==
    /\ ~Aborted => OrderlyInv
    /\ Aborted => AbortedInv
    /\ ~Aborted /\ ~Collecting => Unsettled = {}

LEMMA OrderlyStep ==
    ASSUME OrderlyInv, [Next]_vars
    PROVE  OrderlyInv'
<1>1. IInv'
  BY NextTypeInv, NextLeaseInv, NextCommits DEF OrderlyInv, IInv
<1> QED
  BY <1>1, NextResultInv, NextTargetCloses DEF OrderlyInv

\* What ends a window, and what happens to its leases once it is over.
LEMMA BoundaryFrame ==
    ASSUME [Next]_vars, ~Collecting'
    PROVE  \/ AbortWindow
           \/ FinishCommit
           \/ /\ phase' = phase
              /\ UNCHANGED <<window, accepted, decided, total, tries>>
              /\ \A n \in Lease : discarded[n] => discarded'[n]
<1> DEFINE Quiet == /\ phase' = phase
                    /\ UNCHANGED <<window, accepted, decided, total, tries>>
                    /\ \A n \in Lease : discarded[n] => discarded'[n]
<1> SUFFICES ASSUME ~AbortWindow, ~FinishCommit PROVE Quiet
  OBVIOUS
<1> USE DEF windowState, results, registry, Collecting
<1>1. ASSUME NEW F, Fail(F) PROVE \A n \in Lease : discarded[n] => discarded'[n]
  BY <1>1 DEF Fail
<1>2. CASE WorkerStep
  <2>1. PICK w \in Worker : \/ RegisterWhileCollecting(w) \/ RegisterAtBoundary(w)
                            \/ MarkReady(w) \/ RetryShard(w) \/ IssueShard(w)
                            \/ AcknowledgeDiscards(w)
    BY <1>2 DEF WorkerStep
  <2> QED
    BY <2>1 DEF RegisterWhileCollecting, RegisterAtBoundary, MarkReady, RetryShard,
                IssueShard, AcknowledgeDiscards, MayWork
<1>3. CASE AttemptStep
  <2>1. ASSUME NEW n \in Lease, FailAttempt(n) PROVE Quiet
    BY <1>1, <2>1 DEF FailAttempt
  <2> QED
    BY <1>3, <2>1 DEF AttemptStep, AcceptPart, ReserveCompletion
<1>4. CASE CompletionStep
  <2>1. ASSUME NEW r \in reservations, RejectCompletion(r) PROVE Quiet
    BY <1>1, <2>1 DEF RejectCompletion
  <2>2. ASSUME NEW r \in reservations, NEW shown, FinalizeCompletion(r, shown) PROVE FALSE
    BY <2>2 DEF FinalizeCompletion
  <2> QED
    BY <1>4, <2>1, <2>2 DEF CompletionStep
<1>5. CASE SweepStep
  BY <1>1, <1>5 DEF SweepStep, ExpireWorkers
<1>6. CASE BoundaryStep
  <2>1. ASSUME NEW stale, NEW mode, BeginWindow(stale, mode) PROVE FALSE
    BY <2>1 DEF BeginWindow
  <2>2. ASSUME NEW stale, RefuseWindow(stale) PROVE Quiet
    BY <2>2 DEF RefuseWindow
  <2> QED
    BY <1>6, <2>1, <2>2 DEF BoundaryStep
<1>7. CASE LearnerStep
  BY <1>7 DEF LearnerStep, RequestLearnerReadyDrain, StartCommit, FailCommit, ReleaseParts
<1>8. CASE UNCHANGED vars
  BY <1>8 DEF vars
<1> QED
  BY <1>2, <1>3, <1>4, <1>5, <1>6, <1>7, <1>8 DEF Next

\* The abort leaves no row and nothing running.
LEMMA AbortEmpties ==
    ASSUME OrderlyInv, LifeInv, AbortWindow
    PROVE  AbortedInv' /\ Aborted'
<1>1. /\ phase' = "aborted" /\ ~callback'
      /\ attempt' = ClearShards(attempt, Lease)
      /\ tries' = tries
  BY DEF AbortWindow, learner
<1>2. OrderlyInv'
  <2>1. [Next]_vars
    BY DEF Next, LearnerStep
  <2> QED
    BY <2>1, OrderlyStep
<1>3. \A n \in Lease : ~Live(n)'
  BY <1>1, <1>2 DEF OrderlyInv, IInv, LeaseInv, LiveIsOpen, Collecting
<1>4. ASSUME NEW n \in Lease, NEW k \in Try PROVE attempt'[n][k].parts = 0
  <2>1. attempt[n][k] \in Attempt
    BY DEF OrderlyInv, IInv, TypeInv, TypeOK
  <2>2. attempt'[n][k] = Cleared(attempt[n][k])
    BY <1>1 DEF ClearShards
  <2>3. CASE attempt[n][k].state = "unstarted"
    <3>1. k > tries[n] /\ tries[n] \in Nat /\ k \in Nat
      BY <2>3, BudgetAssumption DEF LifeInv, Counted, OrderlyInv, IInv, TypeInv, TypeOK, Try
    <3>2. ~(attempt[n][k].parts > 0)
      BY <3>1 DEF OrderlyInv, ResultInv, RowInv, RowsAreHeld
    <3>3. attempt[n][k].parts \in Nat
      BY <2>1, BoundAssumption DEF Attempt
    <3> QED
      BY <2>2, <2>3, <3>2, <3>3 DEF Cleared
  <2>4. CASE attempt[n][k].state # "unstarted"
    BY <2>1, <2>2, <2>4 DEF Cleared, Attempt
  <2> QED
    BY <2>3, <2>4
<1>5. UnissuedIsBlank' /\ AcceptedIsLast' /\ OnlyResultsCount' /\ TotalIsSum'
  BY <1>2 DEF OrderlyInv, IInv, LeaseInv, ResultInv, RowInv
<1> QED
  BY <1>1, <1>3, <1>4, <1>5 DEF AbortedInv, Aborted

\* In an aborted window: what ends some of its attempts,
LEMMA AbortedFail ==
    ASSUME TypeInv, LifeInv, AbortedInv, NEW F \in SUBSET Lease, \A n \in F : Live(n),
           Fail(F), UNCHANGED <<tries, accepted, decided, total, callback>>
    PROVE  AbortedInv'
<1>1. \A n \in Lease : Live(n)' <=> Live(n) /\ n \notin F
  BY FailEffect DEF LifeInv
<1>2. \A n \in Lease : discarded'[n] <=> discarded[n] \/ (n \in F /\ Draining)
  BY DEF Fail
<1>3. \A n \in F : tries[n] # 0 /\ accepted[n] = 0
  BY DEF Live, AbortedInv, TypeInv, TypeOK
<1>4. \A n \in Lease : Live(n)' => accepted'[n] = 0 /\ ~discarded'[n]
  BY <1>1, <1>2 DEF AbortedInv
<1>5. ASSUME NEW n \in Lease, NEW k \in Try PROVE attempt'[n][k].parts = 0
  <2>1. attempt[n] \in [Try -> Attempt] /\ attempt[n][k] \in Attempt
    BY DEF TypeInv, TypeOK
  <2>2. attempt'[n][k] \in {attempt[n][k], Cleared(attempt[n][k])}
    BY <2>1 DEF Fail
  <2>3. attempt[n][k].parts = 0 /\ Cleared(attempt[n][k]).parts = 0
    BY <2>1 DEF AbortedInv, Cleared, Attempt
  <2> QED
    BY <2>2, <2>3
<1>6. UnissuedIsBlank' /\ AcceptedIsLast' /\ OnlyResultsCount' /\ TotalIsSum'
  BY <1>2, <1>3
  DEF AbortedInv, UnissuedIsBlank, AcceptedIsLast, OnlyResultsCount, TotalIsSum
<1> QED
  BY <1>4, <1>5, <1>6 DEF AbortedInv

\* a late retry,
LEMMA AbortedRetry ==
    ASSUME TypeInv, LifeInv, AbortedInv, NEW n \in Lease, NEW w \in Worker, StaleRetry(n, w)
    PROVE  AbortedInv'
<1>1. /\ n \in Inactive /\ tries[n] < MaximumAttempts /\ StartAttempt(n, w)
      /\ UNCHANGED <<accepted, decided, total, discarded, callback, window, tombstones>>
  BY DEF StaleRetry, results, learner, windowState
<1>2. ~Live(n) /\ accepted[n] = 0 /\ ~discarded[n]
  BY <1>1 DEF Inactive, Unsettled
<1>3. /\ attempt'[n][tries[n] + 1] =
           [owner |-> <<w, session[w]>>, state |-> "running", parts |-> 0, term |-> 0]
      /\ \A m \in Lease, k \in Try :
           m # n \/ k # tries[n] + 1 => attempt'[m][k] = attempt[m][k]
  BY <1>1, <1>2, StartAges
<1>4. \A m \in Lease, k \in Try : attempt'[m][k].parts = 0
  BY <1>3 DEF AbortedInv
<1>5. tries \in [Lease -> 0 .. MaximumAttempts] /\ tries' = [tries EXCEPT ![n] = @ + 1]
  BY <1>1 DEF TypeInv, TypeOK, StartAttempt
<1>6. \A m \in Lease : m # n => tries'[m] = tries[m]
  BY <1>5
<1>7. ASSUME NEW m \in Lease, m # n, Live(m)' PROVE accepted[m] = 0 /\ ~discarded[m]
  <2>1. tries'[m] = tries[m] /\ tries[m] > 0 /\ tries[m] \in Try
    BY <1>5, <1>6, <1>7, BudgetAssumption DEF Live, Try
  <2>2. attempt'[m][tries[m]] = attempt[m][tries[m]]
    BY <1>3, <1>7, <2>1
  <2>3. Live(m)
    BY <1>7, <2>1, <2>2 DEF Live, Current
  <2> QED
    BY <2>3 DEF AbortedInv
<1>8. UnissuedIsBlank' /\ AcceptedIsLast' /\ OnlyResultsCount' /\ TotalIsSum'
  BY <1>1, <1>2, <1>6
  DEF AbortedInv, UnissuedIsBlank, AcceptedIsLast, OnlyResultsCount, TotalIsSum
<1> QED
  BY <1>1, <1>2, <1>4, <1>7, <1>8 DEF AbortedInv

\* and every other step but the start of the next window.
LEMMA AbortedStays ==
    ASSUME TypeInv, LifeInv, AbortedInv, Aborted, [Next]_vars, ~Collecting'
    PROVE  AbortedInv' /\ Aborted' /\ UNCHANGED <<window, accepted, decided, callback, snapshot>>
<1> USE DEF windowState, results, registry, learner
<1>0. ~Collecting /\ ~callback
  BY DEF Aborted, AbortedInv, Collecting
<1> DEFINE Stays == AbortedInv' /\ Aborted' /\ UNCHANGED <<callback, snapshot>>
<1>1. UNCHANGED <<window, phase, accepted, decided, total, tries>>
  BY <1>0, BoundaryFrame DEF AbortWindow, FinishCommit
<1>2. ASSUME UNCHANGED <<attempt, discarded, callback>> PROVE AbortedInv'
  BY <1>1, <1>2 DEF AbortedInv, Live, Current, UnissuedIsBlank, AcceptedIsLast,
                    OnlyResultsCount, TotalIsSum
<1>3. ASSUME NEW F \in SUBSET Lease, \A n \in F : Live(n), Fail(F), UNCHANGED callback
      PROVE  AbortedInv'
  BY <1>1, <1>3, AbortedFail
<1>4. CASE WorkerStep
  <2>1. PICK w \in Worker : \/ RegisterAtBoundary(w) \/ MarkReady(w) \/ AcknowledgeDiscards(w)
    BY <1>0, <1>4 DEF WorkerStep, RegisterWhileCollecting, RetryShard, IssueShard, MayWork
  <2>2. UNCHANGED <<attempt, discarded, callback, snapshot>>
    BY <2>1 DEF RegisterAtBoundary, MarkReady, AcknowledgeDiscards
  <2> QED
    BY <1>1, <1>2, <2>2 DEF Aborted
<1>5. CASE AttemptStep
  <2>1. PICK n \in Lease : FailAttempt(n)
    BY <1>0, <1>5 DEF AttemptStep, AcceptPart, ReserveCompletion
  <2>2. UNCHANGED <<callback, snapshot>>
    BY <2>1 DEF FailAttempt
  <2>3. AbortedInv'
    BY <1>3, <2>1, <2>2 DEF FailAttempt
  <2> QED
    BY <1>1, <2>2, <2>3 DEF Aborted
<1>6. CASE CompletionStep
  <2>1. PICK r \in reservations : RejectCompletion(r)
    BY <1>0, <1>6 DEF CompletionStep, FinalizeCompletion
  <2> DEFINE F == IF ~Tombstoned(r) /\ Names(r) THEN {r.lease} ELSE {}
  <2>2. /\ F \in SUBSET Lease /\ (\A n \in F : Live(n)) /\ Fail(F)
        /\ UNCHANGED <<callback, snapshot>>
    BY <2>1 DEF RejectCompletion, Names, TypeInv, TypeOK, Reservation
  <2> HIDE DEF F
  <2>3. AbortedInv'
    BY <1>3, <2>2
  <2> QED
    BY <1>1, <2>2, <2>3 DEF Aborted
<1>7. CASE SweepStep
  <2>1. PICK L \in SUBSET Lease, W \in SUBSET Worker : ExpireWorkers(L, W)
    BY <1>7 DEF SweepStep
  <2> DEFINE F == L \cup {n \in Lease : /\ Live(n)
                                         /\ Current(n).state # "completing"
                                         /\ \E w \in W : active[w] = <<n, tries[n]>>}
  <2>2. /\ F \in SUBSET Lease /\ (\A n \in F : Live(n)) /\ Fail(F)
        /\ UNCHANGED <<callback, snapshot>>
    BY <2>1 DEF ExpireWorkers
  <2> HIDE DEF F
  <2>3. AbortedInv'
    BY <1>3, <2>2
  <2> QED
    BY <1>1, <2>2, <2>3 DEF Aborted
<1>8. CASE BoundaryStep
  <2>1. PICK stale \in SUBSET {w \in Worker : PromotedReady(w)} : RefuseWindow(stale)
    BY <1>8 DEF BoundaryStep, BeginWindow, Collecting
  <2>2. UNCHANGED <<attempt, discarded, callback, snapshot>>
    BY <2>1 DEF RefuseWindow
  <2> QED
    BY <1>1, <1>2, <2>2 DEF Aborted
<1>9. CASE LearnerStep
  <2>1. ReleaseParts
    BY <1>0, <1>9 DEF LearnerStep, RequestLearnerReadyDrain, StartCommit, ReadyToCommit,
                      FinishCommit, FailCommit, AbortWindow
  <2>2. UNCHANGED <<discarded, callback, snapshot>>
    BY <2>1 DEF ReleaseParts
  <2>3. \A n \in Lease, k \in Try : attempt'[n][k] = attempt[n][k] \/
          /\ attempt'[n][k].parts = 0
          /\ attempt'[n][k].state = attempt[n][k].state
    <3> SUFFICES ASSUME NEW n \in Lease, NEW k \in Try
                 PROVE  /\ attempt'[n][k].parts = 0
                        /\ attempt'[n][k].state = attempt[n][k].state
      OBVIOUS
    <3>1. attempt'[n][k] = [attempt[n][k] EXCEPT !.parts = 0, !.term = 0]
      BY <2>1 DEF ReleaseParts
    <3>2. attempt[n][k] \in Attempt
      BY DEF TypeInv, TypeOK
    <3> QED
      BY <3>1, <3>2 DEF Attempt
  <2>4. \A n \in Lease, k \in Try : attempt'[n][k].parts = 0
    BY <2>3 DEF AbortedInv
  <2>5. ASSUME NEW n \in Lease, Live(n)' PROVE Live(n)
    <3>1. tries[n] > 0 /\ tries[n] \in Try
      BY <1>1, <2>5, BudgetAssumption DEF Live, Try, TypeInv, TypeOK
    <3> QED
      BY <1>1, <2>3, <2>5, <3>1 DEF Live, Current
  <2>6. UnissuedIsBlank' /\ AcceptedIsLast' /\ OnlyResultsCount' /\ TotalIsSum'
    BY <1>1, <2>2
    DEF AbortedInv, UnissuedIsBlank, AcceptedIsLast, OnlyResultsCount, TotalIsSum
  <2> QED
    BY <1>0, <1>1, <2>2, <2>4, <2>5, <2>6 DEF AbortedInv, Aborted
<1>10. CASE UNCHANGED vars
  BY <1>1, <1>2, <1>10 DEF vars, Aborted
<1> QED
  BY <1>1, <1>4, <1>5, <1>6, <1>7, <1>8, <1>9, <1>10 DEF Next

\* The next window starts afresh.
LEMMA BeginIsOrderly ==
    ASSUME ~callback, TypeInv', NEW stale, NEW mode, BeginWindow(stale, mode)
    PROVE  OrderlyInv' /\ Collecting'
<1>1. /\ phase' = "collecting" /\ ~callback' /\ total' = 0 /\ ~Draining'
      /\ \A n \in Lease : tries'[n] = 0
  BY DEF BeginWindow, learner, Draining
<1>2. CommitsWhatItHanded'
  BY <1>1 DEF CommitsWhatItHanded
<1>3. TargetClosesWindow'
  BY <1>1 DEF TargetClosesWindow, Unsettled, Issued
<1> QED
  BY <1>1, <1>2, <1>3, BeginLeases, BeginResults DEF OrderlyInv, IInv, Collecting

\* Only begin_window opens a window.
LEMMA NewCollection ==
    ASSUME [Next]_vars, ~Collecting, Collecting'
    PROVE  \E stale, mode : BeginWindow(stale, mode)
<1> USE DEF windowState, Collecting
<1>1. phase' # phase
  OBVIOUS
<1>2. CASE WorkerStep
  BY <1>1, <1>2 DEF WorkerStep, RegisterWhileCollecting, RegisterAtBoundary, MarkReady,
                    RetryShard, IssueShard, AcknowledgeDiscards
<1>3. CASE AttemptStep
  BY <1>1, <1>3 DEF AttemptStep, AcceptPart, FailAttempt, ReserveCompletion
<1>4. CASE CompletionStep
  BY <1>1, <1>4 DEF CompletionStep, FinalizeCompletion, RejectCompletion
<1>5. CASE SweepStep
  BY <1>1, <1>5 DEF SweepStep, ExpireWorkers
<1>6. CASE BoundaryStep
  <2>1. ASSUME NEW stale, RefuseWindow(stale) PROVE FALSE
    BY <1>1, <2>1 DEF RefuseWindow
  <2> QED
    BY <1>6, <2>1 DEF BoundaryStep
<1>7. CASE LearnerStep
  BY <1>1, <1>7 DEF LearnerStep, RequestLearnerReadyDrain, StartCommit, FinishCommit,
                    FailCommit, AbortWindow, ReleaseParts
<1>8. CASE UNCHANGED vars
  BY <1>1, <1>8 DEF vars
<1> QED
  BY <1>2, <1>3, <1>4, <1>5, <1>6, <1>7, <1>8 DEF Next

\* A step that finds its window aborted.
LEMMA AfterAbort ==
    ASSUME TypeInv, LifeInv, WindowInv, Aborted, [Next]_vars \/ StaleStep
    PROVE  \/ /\ AbortedInv' /\ Aborted'
              /\ UNCHANGED <<window, accepted, decided, callback, snapshot>>
           \/ OrderlyInv' /\ Collecting' /\ Contract!Begin
<1>1. AbortedInv /\ ~callback
  BY DEF WindowInv, AbortedInv
<1>2. CASE StaleStep
  <2>1. PICK n \in Lease, w \in Worker : StaleRetry(n, w)
    BY <1>2 DEF StaleStep
  <2>2. AbortedInv'
    BY <1>1, <2>1, AbortedRetry
  <2> QED
    BY <2>1, <2>2 DEF StaleRetry, Aborted, windowState, results, learner
<1>3. CASE [Next]_vars /\ ~Collecting'
  BY <1>1, <1>3, AbortedStays
<1>4. CASE [Next]_vars /\ Collecting'
  <2>1. \E stale, mode : BeginWindow(stale, mode)
    BY <1>1, <1>4, NewCollection DEF Aborted, Collecting
  <2>2. PICK stale, mode : BeginWindow(stale, mode)
    BY <2>1
  <2>3. TypeInv'
    BY <1>4, NextTypeInv
  <2> QED
    BY <1>1, <2>2, <2>3, BeginIsOrderly, BeginBegins
<1> QED
  BY <1>2, <1>3, <1>4

\* No late retry comes in a window that has not been aborted.
LEMMA OrderlySteps ==
    ASSUME TypeInv, LifeInv, WindowInv, ~Aborted, [Next]_vars \/ StaleStep
    PROVE  [Next]_vars /\ OrderlyInv
<1>1. ~StaleStep
  BY DEF StaleStep, StaleRetry, Inactive, WindowInv
<1> QED
  BY <1>1 DEF WindowInv

LEMMA WindowStep ==
    ASSUME TypeInv, LifeInv, WindowInv, [Next]_vars \/ StaleStep
    PROVE  WindowInv' /\ [Contract!Next]_(Contract!contract)
<1>1. CASE Aborted
  <2>1. CASE /\ AbortedInv' /\ Aborted'
             /\ UNCHANGED <<window, accepted, decided, callback, snapshot>>
    <3>1. UNCHANGED Contract!contract
      BY <1>1, <2>1 DEF Contract!contract, Outcomes, Aborted
    <3> QED
      BY <2>1, <3>1 DEF WindowInv
  <2>2. CASE OrderlyInv' /\ Collecting' /\ Contract!Begin
    BY <2>2 DEF WindowInv, Aborted, Collecting, Contract!Next
  <2> QED
    BY <1>1, <2>1, <2>2, AfterAbort
<1>2. CASE ~Aborted
  <2>1. [Next]_vars /\ OrderlyInv
    BY <1>2, OrderlySteps
  <2>2. OrderlyInv'
    BY <2>1, OrderlyStep
  <2>3. [Contract!Next]_(Contract!contract)
    BY <2>1, StepKeepsContract DEF OrderlyInv
  <2>4. CASE Collecting'
    BY <2>2, <2>3, <2>4 DEF WindowInv, Aborted, Collecting
  <2>5. CASE AbortWindow
    BY <2>1, <2>3, <2>5, AbortEmpties DEF WindowInv
  <2>6. CASE FinishCommit
    <3>1. Unsettled = {}
      BY <2>1, <2>6 DEF FinishCommit, OrderlyInv, IInv, CommitsWhatItHanded, ReadyToCommit
    <3>2. UNCHANGED <<tries, accepted, discarded>> /\ phase' = "committed"
      BY <2>6 DEF FinishCommit, results
    <3>3. Unsettled' = {}
      BY <3>1, <3>2 DEF Unsettled, Issued
    <3> QED
      BY <2>2, <2>3, <3>2, <3>3 DEF WindowInv, Aborted
  <2>7. CASE /\ ~Collecting' /\ phase' = phase
             /\ UNCHANGED <<accepted, tries>>
             /\ \A n \in Lease : discarded[n] => discarded'[n]
    <3>1. ~Collecting /\ ~Aborted'
      BY <1>2, <2>7 DEF Collecting, Aborted
    <3>2. Unsettled = {}
      BY <1>2, <3>1 DEF WindowInv
    <3>3. Unsettled' = {}
      BY <2>7, <3>2 DEF Unsettled, Issued
    <3> QED
      BY <2>2, <2>3, <3>1, <3>3 DEF WindowInv
  <2> QED
    BY <2>1, <2>4, <2>5, <2>6, <2>7, BoundaryFrame
<1> QED
  BY <1>1, <1>2

LEMMA InitWindowInv == InitService => WindowInv
<1> SUFFICES ASSUME InitService PROVE WindowInv
  OBVIOUS
<1>1. Init
  BY DEF InitService
<1>2. ~Aborted /\ Unsettled = {}
  BY <1>1 DEF Init, Aborted, Unsettled, Issued
<1> QED
  BY <1>1, <1>2, InitIInv, InitResultInv, InitTargetCloses DEF WindowInv, OrderlyInv

LEMMA NextWindowInv ==
    ASSUME ServiceInv, WindowInv, [NextService]_allVars
    PROVE  WindowInv' /\ [Contract!Next]_(Contract!contract)
  BY StepOfCoordinator, WindowStep DEF ServiceInv

LEMMA SpecWindowInv == ServiceSpec => []WindowInv
<1>1. ServiceInv /\ WindowInv /\ [NextService]_allVars => WindowInv'
  BY NextWindowInv
<1> QED
  BY <1>1, InitWindowInv, SpecServiceInv, PTL DEF ServiceSpec

LEMMA WindowFollows ==
    ASSUME ServiceInv, WindowInv
    PROVE  /\ ResultsAddUp
           /\ TargetClosesWindow
           /\ CommitsWhatItHanded
           /\ Collecting => ActiveIsLive
<1>1. CASE ~Aborted
  BY <1>1, ResultsFollow DEF WindowInv, OrderlyInv, IInv, LeaseInv
<1>2. CASE Aborted
  <2>1. AbortedInv /\ phase = "aborted"
    BY <1>2 DEF WindowInv, Aborted
  <2>2. TargetClosesWindow /\ CommitsWhatItHanded /\ ~Collecting
    BY <2>1 DEF TargetClosesWindow, CommitsWhatItHanded, AbortedInv, Collecting
  <2>3. AcceptedDecisionsAddUp
    BY <2>1, <2>2 DEF AcceptedDecisionsAddUp, AbortedInv, TotalIsSum
  <2>4. ASSUME NEW n \in Lease, NEW k \in Try, attempt[n][k].state \in {"running", "completing"}
        PROVE  k = tries[n] /\ accepted[n] = 0 /\ ~discarded[n]
    <3>1. k = tries[n]
      BY <2>4 DEF ServiceInv, LifeInv, OneLive, LiveStates
    <3>2. Live(n)
      BY <2>4, <3>1 DEF Live, Current, Try
    <3> QED
      BY <2>1, <3>1, <3>2 DEF AbortedInv
  <2>5. OneResultPerLease
    BY <2>1, <2>4 DEF OneResultPerLease, AbortedInv, AcceptedIsLast
  <2> QED
    BY <2>2, <2>3, <2>5 DEF ResultsAddUp
<1> QED
  BY <1>1, <1>2

\* What the coordinator promises the learner holds of the service, whenever the
\* learner aborts: it sees windows as in WindowContract, a commit hands over
\* what was counted, each lease counts once, the target closes the window, and
\* in an open window every worker's record and the attempts that run agree.
\* (The last is not so at the boundary: retry_shard may start an attempt there.)
THEOREM ServiceKeepsContract ==
    ServiceSpec => KeepsContract /\ [](/\ ResultsAddUp
                                       /\ TargetClosesWindow
                                       /\ CommitsWhatItHanded
                                       /\ Collecting => ActiveIsLive)
<1>1. InitService => Contract!Init
  BY InitKeepsContract DEF InitService
<1>2. ServiceInv /\ WindowInv /\ [NextService]_allVars => [Contract!Next]_(Contract!contract)
  BY NextWindowInv
<1>3. ServiceInv /\ WindowInv => /\ ResultsAddUp
                                 /\ TargetClosesWindow
                                 /\ CommitsWhatItHanded
                                 /\ Collecting => ActiveIsLive
  BY WindowFollows
<1>4. ServiceSpec => []ServiceInv /\ []WindowInv
  BY SpecServiceInv, SpecWindowInv
<1>5. ServiceSpec => KeepsContract
  BY <1>1, <1>2, <1>4, PTL DEF ServiceSpec, KeepsContract, Contract!Spec
<1> QED
  BY <1>3, <1>4, <1>5, PTL

(***************************************************************************)
(* One answer for every request                                            *)
(***************************************************************************)

\* the messages of q that session x has sent
Sent(q, x) == {i \in DOMAIN q : q[i].session = x}

LEMMA SentFinite ==
    ASSUME NEW S, NEW q \in Seq(S), NEW x
    PROVE  IsFiniteSet(Sent(q, x)) /\ Cardinality(Sent(q, x)) \in Nat
<1>1. IsFiniteSet(1 .. Len(q))
  BY FS_Interval
<1>2. Sent(q, x) \subseteq 1 .. Len(q)
  BY DEF Sent
<1> QED
  BY <1>1, <1>2, FS_Subset, FS_CardinalityType

LEMMA SentNone ==
    ASSUME NEW q, NEW x, \A i \in DOMAIN q : q[i].session # x
    PROVE  Cardinality(Sent(q, x)) = 0
<1>1. Sent(q, x) = {}
  BY DEF Sent
<1> QED
  BY <1>1, FS_EmptySet

LEMMA SentAppend ==
    ASSUME NEW S, NEW q \in Seq(S), NEW m \in S, NEW x
    PROVE  Cardinality(Sent(Append(q, m), x)) =
             Cardinality(Sent(q, x)) + (IF m.session = x THEN 1 ELSE 0)
<1>1. /\ Len(q) \in Nat
      /\ DOMAIN Append(q, m) = 1 .. (Len(q) + 1)
      /\ \A i \in 1 .. Len(q) : Append(q, m)[i] = q[i]
      /\ Append(q, m)[Len(q) + 1] = m
      /\ DOMAIN q = 1 .. Len(q)
  OBVIOUS
<1>2. Sent(Append(q, m), x) =
        Sent(q, x) \cup (IF m.session = x THEN {Len(q) + 1} ELSE {})
  BY <1>1 DEF Sent
<1>3. Len(q) + 1 \notin Sent(q, x)
  BY <1>1 DEF Sent
<1>4. IsFiniteSet(Sent(q, x)) /\ Cardinality(Sent(q, x)) \in Nat
  BY SentFinite
<1>5. CASE m.session = x
  BY <1>2, <1>3, <1>4, <1>5, FS_AddElement
<1>6. CASE m.session # x
  BY <1>2, <1>4, <1>6
<1> QED
  BY <1>5, <1>6

LEMMA SentTail ==
    ASSUME NEW S, NEW q \in Seq(S), q # <<>>, NEW x
    PROVE  Cardinality(Sent(q, x)) =
             Cardinality(Sent(Tail(q), x)) + (IF Head(q).session = x THEN 1 ELSE 0)
<1> DEFINE T == Sent(Tail(q), x)
           R == Sent(q, x) \ {1}
           f == [i \in T |-> i + 1]
<1>1. /\ Len(q) \in Nat /\ Len(q) > 0
      /\ DOMAIN q = 1 .. Len(q)
      /\ DOMAIN Tail(q) = 1 .. (Len(q) - 1)
      /\ \A i \in 1 .. (Len(q) - 1) : Tail(q)[i] = q[i + 1]
      /\ Head(q) = q[1]
      /\ Tail(q) \in Seq(S)
  OBVIOUS
<1>2. T \subseteq 1 .. (Len(q) - 1) /\ R \subseteq 2 .. Len(q)
  BY <1>1 DEF Sent
<1>3. \A i \in T : i + 1 \in R
  BY <1>1, <1>2 DEF Sent
<1>4. \A j \in R : j - 1 \in T /\ (j - 1) + 1 = j
  BY <1>1, <1>2 DEF Sent
<1>5. f \in Bijection(T, R)
  <2>1. f \in [T -> R]
    BY <1>3
  <2>2. \A i, j \in T : f[i] = f[j] => i = j
    BY <1>1, <1>2
  <2>3. \A j \in R : \E i \in T : f[i] = j
    BY <1>4
  <2> HIDE DEF f, T, R
  <2> QED
    BY <2>1, <2>2, <2>3, Fun_IsBij
<1>6. IsFiniteSet(T) /\ IsFiniteSet(Sent(q, x)) /\ Cardinality(T) \in Nat
  BY <1>1, SentFinite
<1>7. Cardinality(R) = Cardinality(T) /\ IsFiniteSet(R)
  <2> HIDE DEF T, R, f
  <2> QED
    BY <1>5, <1>6, FS_Bijection DEF ExistsBijection
<1>8. Head(q).session = x <=> 1 \in Sent(q, x)
  BY <1>1 DEF Sent
<1>9. CASE 1 \in Sent(q, x)
  <2>1. Sent(q, x) = R \cup {1} /\ 1 \notin R
    BY <1>9
  <2>2. Cardinality(Sent(q, x)) = Cardinality(R) + 1
    <3> HIDE DEF R
    <3> QED
      BY <1>7, <2>1, FS_AddElement
  <2>3. Cardinality(Sent(q, x)) = Cardinality(T) + 1
    BY <1>7, <2>2
  <2> QED
    BY <1>8, <1>9, <2>3
<1>10. CASE 1 \notin Sent(q, x)
  <2>1. R = Sent(q, x)
    BY <1>10
  <2>2. Cardinality(Sent(q, x)) = Cardinality(T)
    BY <1>7, <2>1
  <2> QED
    BY <1>6, <1>8, <1>10, <2>2
<1> QED
  BY <1>9, <1>10

\* Carried(w): the upload of the process and what answers it
Carried(w) == Cardinality(OnTheWay(uploads, w)) + Len(acks[w])

\* A process waits for one answer on the channel it has asked on, and for
\* none on the other; one that has ended leaves no reply behind.
OneAnswer(w) ==
    /\ at[w] = "off" => replies[w] = <<>> /\ acks[w] = <<>>
    /\ at[w] # "off" =>
         /\ Outstanding(w) = IF at[w] \in Waiting THEN 1 ELSE 0
         /\ Carried(w) = IF at[w] = "upload" THEN 1 ELSE 0

\* messages come from this session of the process or from earlier ones
SentBefore(w) ==
    /\ \A i \in DOMAIN requests[w] : requests[w][i].session <= own[w]
    /\ \A i \in DOMAIN uploads[w] : uploads[w][i].session <= own[w]
    /\ chosen.worker = w => chosen.session <= own[w]

AnswerInv == \A w \in Worker : OneAnswer(w) /\ SentBefore(w)

\* what the invariant says of a worker depends on this state alone
Seen(v) ==
    <<at[v], own[v], requests[v], replies[v], uploads[v], acks[v],
      IF chosen.worker = v THEN <<chosen.session>> ELSE <<>> >>

LEMMA SameAnswers ==
    ASSUME NEW v \in Worker, OneAnswer(v), SentBefore(v), UNCHANGED Seen(v)
    PROVE  OneAnswer(v)' /\ SentBefore(v)'
<1>1. /\ at'[v] = at[v] /\ own'[v] = own[v]
      /\ requests'[v] = requests[v] /\ replies'[v] = replies[v]
      /\ uploads'[v] = uploads[v] /\ acks'[v] = acks[v]
  BY DEF Seen
<1>2. /\ chosen'.worker = v <=> chosen.worker = v
      /\ chosen.worker = v => chosen'.session = chosen.session
  BY DEF Seen
<1>3. Outstanding(v)' = Outstanding(v) /\ Carried(v)' = Carried(v)
  BY <1>1, <1>2 DEF Outstanding, Carried, OnTheWay
<1> QED
  BY <1>1, <1>2, <1>3 DEF OneAnswer, SentBefore

LEMMA WireFacts ==
    ASSUME WireTypeOK, NEW w \in Worker
    PROVE  /\ requests[w] \in Seq(ControlMessage) /\ replies[w] \in Seq(Answer)
           /\ uploads[w] \in Seq(Part) /\ acks[w] \in Seq(PartAnswer)
           /\ own[w] \in Nat
           /\ DOMAIN requests = Worker /\ DOMAIN replies = Worker
           /\ DOMAIN uploads = Worker /\ DOMAIN acks = Worker
           /\ DOMAIN at = Worker /\ DOMAIN own = Worker
           /\ \A m \in ControlMessage : m.session \in Nat
           /\ \A m \in Part : m.session \in Nat
  BY DEF WireTypeOK, ControlMessage, Part

\* Request of the process: one message more on its way
LEMMA AskCounts ==
    ASSUME WireTypeOK, NEW w \in Worker, NEW s, NEW kind,
           Request(w, kind) \in ControlMessage, Ask(w, s, kind), own'[w] = own[w],
           \A i \in DOMAIN requests[w] : requests[w][i].session <= own[w]
    PROVE  /\ Cardinality(OnTheWay(requests, w))' = Cardinality(OnTheWay(requests, w)) + 1
           /\ Cardinality(OnTheWay(requests, w)) \in Nat
           /\ \A i \in DOMAIN requests'[w] : requests'[w][i].session <= own[w]
           /\ at'[w] = s
           /\ \A v \in Worker \ {w} : at'[v] = at[v] /\ requests'[v] = requests[v]
<1> DEFINE m == Request(w, kind)
<1>1. m.session = own[w]
  BY DEF Request
<1>2. requests'[w] = Append(requests[w], m) /\ at'[w] = s
  BY WireFacts DEF Ask, WireTypeOK
<1>3. /\ Cardinality(Sent(Append(requests[w], m), own[w]))
           = Cardinality(Sent(requests[w], own[w])) + 1
      /\ Cardinality(Sent(requests[w], own[w])) \in Nat
  <2>1. requests[w] \in Seq(ControlMessage) /\ m \in ControlMessage
    BY WireFacts
  <2> HIDE DEF m
  <2>2. Cardinality(Sent(Append(requests[w], m), own[w]))
          = Cardinality(Sent(requests[w], own[w])) + (IF m.session = own[w] THEN 1 ELSE 0)
    BY <2>1, SentAppend
  <2> QED
    BY <1>1, <2>1, <2>2, SentFinite
<1>4. /\ OnTheWay(requests, w) = Sent(requests[w], own[w])
      /\ OnTheWay(requests, w)' = Sent(requests'[w], own[w])
  BY DEF OnTheWay, Sent
<1>5. \A i \in DOMAIN requests'[w] : requests'[w][i].session <= own[w]
  <2> HIDE DEF m
  <2> QED
    BY <1>1, <1>2, WireFacts
<1> QED
  BY <1>2, <1>3, <1>4, <1>5 DEF Ask

\* Taking a message of this session off a channel, or of another
LEMMA TailCounts ==
    ASSUME NEW S, NEW q \in Seq(S), q # <<>>, NEW x \in Nat,
           \A m \in S : m.session \in Nat,
           \A i \in DOMAIN q : q[i].session <= x
    PROVE  /\ Tail(q) \in Seq(S)
           /\ \A i \in DOMAIN Tail(q) : Tail(q)[i].session <= x
           /\ Head(q).session \in Nat /\ Head(q).session <= x
           /\ Cardinality(Sent(q, x)) =
                Cardinality(Sent(Tail(q), x)) + (IF Head(q).session = x THEN 1 ELSE 0)
           /\ Cardinality(Sent(Tail(q), x)) \in Nat
<1>1. /\ Tail(q) \in Seq(S)
      /\ DOMAIN Tail(q) = 1 .. (Len(q) - 1)
      /\ \A i \in 1 .. (Len(q) - 1) : Tail(q)[i] = q[i + 1]
      /\ Head(q) = q[1] /\ Head(q) \in S
      /\ DOMAIN q = 1 .. Len(q) /\ Len(q) \in Nat /\ Len(q) > 0
  OBVIOUS
<1>2. Head(q).session \in Nat /\ Head(q).session <= x
  BY <1>1
<1>3. \A i \in DOMAIN Tail(q) : Tail(q)[i].session <= x
  BY <1>1
<1> QED
  BY <1>1, <1>2, <1>3, SentTail, SentFinite

LEMMA ChoiceSession == WireTypeOK => chosen.session \in Nat
  BY DEF WireTypeOK, Choice, Nothing, NoPlan

\* A process that waits for nothing asks.
LEMMA AsksFirst ==
    ASSUME WireTypeOK, AnswerInv, NEW w \in Worker, NEW s \in Waiting, NEW kind,
           Request(w, kind) \in ControlMessage, at[w] = "collect",
           Ask(w, s, kind), UNCHANGED <<own, replies, uploads, acks, chosen>>
    PROVE  AnswerInv'
<1>1. ASSUME NEW v \in Worker, v # w
      PROVE  OneAnswer(v)' /\ SentBefore(v)'
  <2>1. UNCHANGED Seen(v)
    BY <1>1, WireFacts DEF Seen, Ask
  <2>2. OneAnswer(v) /\ SentBefore(v)
    BY DEF AnswerInv
  <2> QED
    BY <2>1, <2>2, SameAnswers
<1>2. OneAnswer(w) /\ SentBefore(w)
  BY DEF AnswerInv
<1>3. /\ Cardinality(OnTheWay(requests, w))' = Cardinality(OnTheWay(requests, w)) + 1
      /\ Cardinality(OnTheWay(requests, w)) \in Nat
      /\ \A i \in DOMAIN requests'[w] : requests'[w][i].session <= own[w]
      /\ at'[w] = s
  BY <1>2, AskCounts DEF SentBefore
<1>4. SentBefore(w)'
  BY <1>2, <1>3 DEF SentBefore
<1>5. Carried(w)' = Carried(w)
  BY DEF Carried, OnTheWay
<1>6. Outstanding(w)' = Outstanding(w) + 1
  BY <1>3, WireFacts DEF Outstanding
<1>7. OneAnswer(w)'
  BY <1>2, <1>3, <1>5, <1>6 DEF OneAnswer, Waiting, LoopStates
<1> QED
  BY <1>1, <1>4, <1>7 DEF AnswerInv

\* A process that has its answer asks again.
LEMMA AsksAgain ==
    ASSUME WireTypeOK, AnswerInv, NEW w \in Worker, NEW s \in Waiting, NEW kind,
           Request(w, kind) \in ControlMessage, at[w] \in Waiting, replies[w] # <<>>,
           Ask(w, s, kind), replies' = Pop(replies, w),
           UNCHANGED <<own, uploads, acks, chosen>>
    PROVE  AnswerInv'
<1>1. ASSUME NEW v \in Worker, v # w
      PROVE  OneAnswer(v)' /\ SentBefore(v)'
  <2>1. UNCHANGED Seen(v)
    BY <1>1, WireFacts DEF Seen, Ask, Pop
  <2>2. OneAnswer(v) /\ SentBefore(v)
    BY DEF AnswerInv
  <2> QED
    BY <2>1, <2>2, SameAnswers
<1>2. OneAnswer(w) /\ SentBefore(w)
  BY DEF AnswerInv
<1>3. /\ Cardinality(OnTheWay(requests, w))' = Cardinality(OnTheWay(requests, w)) + 1
      /\ Cardinality(OnTheWay(requests, w)) \in Nat
      /\ \A i \in DOMAIN requests'[w] : requests'[w][i].session <= own[w]
      /\ at'[w] = s
  BY <1>2, AskCounts DEF SentBefore
<1>4. SentBefore(w)'
  BY <1>2, <1>3 DEF SentBefore
<1>5. Carried(w)' = Carried(w)
  BY DEF Carried, OnTheWay
<1>6. replies'[w] = Tail(replies[w]) /\ Len(Tail(replies[w])) = Len(replies[w]) - 1
      /\ Len(replies[w]) \in Nat
  BY WireFacts DEF Pop
<1>7. Outstanding(w)' = Outstanding(w)
  BY <1>3, <1>6 DEF Outstanding
<1>8. OneAnswer(w)'
  BY <1>2, <1>3, <1>5, <1>7 DEF OneAnswer, Waiting, LoopStates
<1> QED
  BY <1>1, <1>4, <1>8 DEF AnswerInv

\* A process that has its answer goes on collecting.
LEMMA ProcessResumes ==
    ASSUME WireTypeOK, AnswerInv, NEW w \in Worker,
           at[w] \in Waiting, replies[w] # <<>>,
           at' = [at EXCEPT ![w] = "collect"], replies' = Pop(replies, w),
           UNCHANGED <<own, requests, uploads, acks, chosen>>
    PROVE  AnswerInv'
<1>1. ASSUME NEW v \in Worker, v # w
      PROVE  OneAnswer(v)' /\ SentBefore(v)'
  <2>1. UNCHANGED Seen(v)
    BY <1>1, WireFacts DEF Seen, Pop
  <2>2. OneAnswer(v) /\ SentBefore(v)
    BY DEF AnswerInv
  <2> QED
    BY <2>1, <2>2, SameAnswers
<1>2. OneAnswer(w) /\ SentBefore(w)
  BY DEF AnswerInv
<1>3. SentBefore(w)'
  BY <1>2 DEF SentBefore
<1>4. Carried(w)' = Carried(w)
  BY DEF Carried, OnTheWay
<1>5. /\ replies'[w] = Tail(replies[w]) /\ Len(Tail(replies[w])) = Len(replies[w]) - 1
      /\ Len(replies[w]) \in Nat /\ at'[w] = "collect"
  BY WireFacts DEF Pop
<1>6. Cardinality(OnTheWay(requests, w)) \in Nat
  BY WireFacts, SentFinite DEF OnTheWay, Sent
<1>7. Outstanding(w)' = Outstanding(w) - 1
  BY <1>5, <1>6 DEF Outstanding, OnTheWay
<1>8. OneAnswer(w)'
  BY <1>2, <1>4, <1>5, <1>7 DEF OneAnswer, Waiting, LoopStates
<1> QED
  BY <1>1, <1>3, <1>8 DEF AnswerInv

\* A process ends, and takes its channels with it.
LEMMA ProcessLeaves ==
    ASSUME WireTypeOK, AnswerInv, NEW w \in Worker, Exit(w)
    PROVE  AnswerInv'
<1>1. ASSUME NEW v \in Worker, v # w
      PROVE  OneAnswer(v)' /\ SentBefore(v)'
  <2>1. UNCHANGED Seen(v)
    BY <1>1, WireFacts DEF Seen, Exit, service
  <2>2. OneAnswer(v) /\ SentBefore(v)
    BY DEF AnswerInv
  <2> QED
    BY <2>1, <2>2, SameAnswers
<1>2. SentBefore(w)'
  BY DEF AnswerInv, SentBefore, Exit, service
<1>3. at'[w] = "off" /\ replies'[w] = <<>> /\ acks'[w] = <<>>
  BY WireFacts DEF Exit
<1> QED
  BY <1>1, <1>2, <1>3 DEF AnswerInv, OneAnswer

\* A process of a new session has nothing on its way.
LEMMA ProcessBegins ==
    ASSUME WireTypeOK, AnswerInv, NEW w \in Worker, StartProcess(w)
    PROVE  AnswerInv'
<1> DEFINE m == [kind |-> "register", session |-> own[w] + 1, attempt |-> NoAttempt]
           x == own[w] + 1
<1>1. ASSUME NEW v \in Worker, v # w
      PROVE  OneAnswer(v)' /\ SentBefore(v)'
  <2>1. UNCHANGED Seen(v)
    BY <1>1, WireFacts DEF Seen, StartProcess, service
  <2>2. OneAnswer(v) /\ SentBefore(v)
    BY DEF AnswerInv
  <2> QED
    BY <2>1, <2>2, SameAnswers
<1>2. OneAnswer(w) /\ SentBefore(w) /\ own[w] \in Nat
  BY WireFacts DEF AnswerInv
<1>3. /\ at'[w] = "register" /\ own'[w] = x /\ x \in Nat
      /\ requests'[w] = Append(requests[w], m) /\ m \in ControlMessage
      /\ m.session = x
      /\ requests[w] \in Seq(ControlMessage) /\ uploads[w] \in Seq(Part)
  BY <1>2, WireFacts DEF StartProcess, ControlMessage
<1>4. (\A i \in DOMAIN requests[w] : requests[w][i].session # x /\ requests[w][i].session <= x)
      /\ (\A i \in DOMAIN uploads[w] : uploads[w][i].session # x /\ uploads[w][i].session <= x)
  BY <1>2, WireFacts DEF SentBefore
<1> HIDE DEF m
<1>5. Cardinality(Sent(requests'[w], x)) = 1 /\ Cardinality(Sent(uploads'[w], x)) = 0
  <2>1. Cardinality(Sent(requests[w], x)) = 0 /\ Cardinality(Sent(uploads[w], x)) = 0
    BY <1>4, SentNone
  <2>2. Cardinality(Sent(Append(requests[w], m), x)) =
          Cardinality(Sent(requests[w], x)) + (IF m.session = x THEN 1 ELSE 0)
    BY <1>3, SentAppend
  <2> QED
    BY <1>3, <2>1, <2>2 DEF StartProcess
<1>6. SentBefore(w)'
  <2>1. \A i \in DOMAIN requests'[w] : requests'[w][i].session <= x
    BY <1>3, <1>4
  <2>2. chosen' = chosen /\ uploads' = uploads
    BY DEF StartProcess, service
  <2>3. chosen.worker = w => chosen.session <= x
    BY <1>2, ChoiceSession DEF SentBefore
  <2> QED
    BY <1>3, <1>4, <2>1, <2>2, <2>3 DEF SentBefore
<1>7. replies'[w] = <<>> /\ acks'[w] = <<>> /\ chosen' = chosen
  BY <1>2 DEF StartProcess, OneAnswer, service
<1>8. ~(chosen.worker = w /\ chosen.session = x)
  BY <1>2, ChoiceSession DEF SentBefore
<1>9. Outstanding(w)' = 1 /\ Carried(w)' = 0
  <2>1. OnTheWay(requests, w)' = Sent(requests'[w], x)
        /\ OnTheWay(uploads, w)' = Sent(uploads'[w], x)
    BY <1>3 DEF OnTheWay, Sent
  <2>2. Len(replies'[w]) = 0 /\ Len(acks'[w]) = 0
    BY <1>7
  <2>3. ~(chosen'.worker = w /\ chosen'.session = own'[w])
    BY <1>3, <1>7, <1>8
  <2> QED
    BY <1>5, <2>1, <2>2, <2>3 DEF Outstanding, Carried
<1>10. OneAnswer(w)'
  BY <1>3, <1>9 DEF OneAnswer, Waiting, LoopStates
<1> QED
  BY <1>1, <1>6, <1>10 DEF AnswerInv

\* A part goes out.
LEMMA PartGoesOut ==
    ASSUME WireTypeInv, AnswerInv, NEW w \in Worker, Upload(w)
    PROVE  AnswerInv'
<1> DEFINE m == [attempt |-> held[w], part |-> sent[w], session |-> own[w]]
<1> USE DEF WireTypeInv
<1>1. ASSUME NEW v \in Worker, v # w
      PROVE  OneAnswer(v)' /\ SentBefore(v)'
  <2>1. UNCHANGED Seen(v)
    BY <1>1, WireFacts DEF Seen, Upload, process, service
  <2>2. OneAnswer(v) /\ SentBefore(v)
    BY DEF AnswerInv
  <2> QED
    BY <2>1, <2>2, SameAnswers
<1>2. OneAnswer(w) /\ SentBefore(w) /\ own[w] \in Nat
  BY WireFacts DEF AnswerInv
<1>3. /\ at[w] = "collect" /\ at'[w] = "upload" /\ own'[w] = own[w]
      /\ uploads'[w] = Append(uploads[w], m)
      /\ requests'[w] = requests[w] /\ replies'[w] = replies[w] /\ acks'[w] = acks[w]
      /\ chosen' = chosen
  BY WireFacts DEF Upload, process, service
<1>4. /\ m \in Part /\ m.session = own[w] /\ uploads[w] \in Seq(Part)
      /\ own[w] \in Nat
  BY <1>3, WireFacts DEF HoldsLease, AttemptStates, Part, WireTypeOK
<1> HIDE DEF m
<1>5. Cardinality(Sent(Append(uploads[w], m), own[w]))
        = Cardinality(Sent(uploads[w], own[w])) + 1
  BY <1>4, SentAppend
<1>6. /\ OnTheWay(uploads, w) = Sent(uploads[w], own[w])
      /\ OnTheWay(uploads, w)' = Sent(uploads'[w], own[w])
      /\ OnTheWay(requests, w)' = OnTheWay(requests, w)
  BY <1>3 DEF OnTheWay, Sent
<1>7. Cardinality(Sent(uploads[w], own[w])) \in Nat /\ Len(acks[w]) \in Nat
  BY <1>4, SentFinite, WireFacts
<1>8. Outstanding(w)' = Outstanding(w) /\ Carried(w)' = Carried(w) + 1
  <2>1. Outstanding(w)' = Outstanding(w)
    BY <1>3 DEF Outstanding, OnTheWay
  <2>2. Carried(w)' = Cardinality(Sent(uploads'[w], own[w])) + Len(acks[w])
    BY <1>3, <1>6 DEF Carried
  <2> QED
    BY <1>3, <1>5, <1>6, <1>7, <2>1, <2>2 DEF Carried
<1>9. OneAnswer(w)'
  BY <1>2, <1>3, <1>8 DEF OneAnswer, Waiting, LoopStates
<1>10. SentBefore(w)'
  <2>1. \A i \in DOMAIN uploads'[w] : uploads'[w][i].session <= own[w]
    BY <1>2, <1>3, <1>4 DEF SentBefore
  <2> QED
    BY <1>2, <1>3, <2>1 DEF SentBefore
<1> QED
  BY <1>1, <1>9, <1>10 DEF AnswerInv

\* Its acknowledgement comes back: the process goes on, or reports a failure.
LEMMA PartIsAnswered ==
    ASSUME WireTypeInv, AnswerInv, NEW w \in Worker, Uploaded(w)
    PROVE  AnswerInv'
<1> USE DEF WireTypeInv
<1>1. ASSUME NEW v \in Worker, v # w
      PROVE  OneAnswer(v)' /\ SentBefore(v)'
  <2>1. UNCHANGED Seen(v)
    BY <1>1, WireFacts DEF Seen, Uploaded, Pop, ReportFailure, Ask, process, service
  <2>2. OneAnswer(v) /\ SentBefore(v)
    BY DEF AnswerInv
  <2> QED
    BY <2>1, <2>2, SameAnswers
<1>2. OneAnswer(w) /\ SentBefore(w) /\ own[w] \in Nat
  BY WireFacts DEF AnswerInv
<1>3. /\ at[w] = "upload" /\ own' = own /\ acks[w] # <<>>
      /\ acks'[w] = Tail(acks[w]) /\ Len(acks'[w]) = Len(acks[w]) - 1
      /\ Len(acks[w]) \in Nat
      /\ replies' = replies /\ uploads' = uploads /\ chosen' = chosen
  BY WireFacts DEF Uploaded, Pop, ReportFailure, process, service
<1>4. Cardinality(OnTheWay(uploads, w)) \in Nat
      /\ Cardinality(OnTheWay(uploads, w)') = Cardinality(OnTheWay(uploads, w))
  <2>1. Cardinality(Sent(uploads[w], own[w])) \in Nat
    BY WireFacts, SentFinite
  <2> QED
    BY <1>3, <2>1 DEF OnTheWay, Sent
<1>5. Carried(w)' = 0
  <2>1. Carried(w) = 1 /\ Carried(w)' = Carried(w) - 1
    BY <1>2, <1>3, <1>4 DEF OneAnswer, Carried
  <2> QED
    BY <2>1
<1>6. CASE at' = [at EXCEPT ![w] = "collect"] /\ requests' = requests
  <2>1. at'[w] = "collect" /\ Outstanding(w)' = Outstanding(w)
    BY <1>3, <1>6, WireFacts DEF Outstanding, OnTheWay
  <2>2. OneAnswer(w)'
    BY <1>2, <1>3, <1>5, <2>1 DEF OneAnswer, Waiting, LoopStates
  <2>3. SentBefore(w)'
    BY <1>2, <1>3, <1>6 DEF SentBefore
  <2> QED
    BY <1>1, <2>2, <2>3 DEF AnswerInv
<1>7. CASE Ask(w, "failed", "failed")
  <2>0. Request(w, "failed") \in ControlMessage
    BY <1>3, RequestTypes DEF HoldsLease, AttemptStates
  <2>1. /\ Cardinality(OnTheWay(requests, w))' = Cardinality(OnTheWay(requests, w)) + 1
        /\ Cardinality(OnTheWay(requests, w)) \in Nat
        /\ \A i \in DOMAIN requests'[w] : requests'[w][i].session <= own[w]
        /\ at'[w] = "failed"
    BY <1>2, <1>3, <1>7, <2>0, AskCounts DEF SentBefore
  <2>2. SentBefore(w)'
    BY <1>2, <1>3, <2>1 DEF SentBefore
  <2>3. Outstanding(w)' = Outstanding(w) + 1
    BY <1>3, <2>1, WireFacts DEF Outstanding
  <2>4. OneAnswer(w)'
    BY <1>2, <1>3, <1>5, <2>1, <2>3 DEF OneAnswer, Waiting, LoopStates
  <2> QED
    BY <1>1, <2>2, <2>4 DEF AnswerInv
<1> QED
  BY <1>6, <1>7 DEF Uploaded, ReportFailure

\* Without late replies no wait times out.
LEMMA NoTimeouts ==
    ASSUME MaxFaults = 0, WireTypeOK, NEW w \in Worker, OneAnswer(w)
    PROVE  ~TimeoutInLoop(w) /\ ~TimeoutInAttempt(w) /\ ~TimeoutInReport(w)
<1>a. WireTypeOK /\ faults = 0 /\ OneAnswer(w)
  BY DEF WireTypeOK
<1>b. {"register", "ready", "work", "poll", "beat", "final", "complete", "failed"} = Waiting
  BY DEF Waiting, LoopStates
<1>1. Late(w) /\ at[w] # "off" => at[w] \notin Waiting \cup {"upload"}
  <2>1. SUFFICES ASSUME Late(w), at[w] # "off" PROVE at[w] \notin Waiting \cup {"upload"}
    OBVIOUS
  <2>2. IF at[w] = "upload" THEN uploads[w] \o acks[w] = <<>> ELSE Outstanding(w) = 0
    BY <1>a, <2>1 DEF Late
  <2>3. at[w] \notin Waiting
    BY <1>a, <2>1, <2>2 DEF OneAnswer, Waiting, LoopStates
  <2>4. ASSUME at[w] = "upload" PROVE FALSE
    <3>1. uploads[w] = <<>> /\ acks[w] = <<>>
      <4>1. uploads[w] \o acks[w] = <<>>
        BY <2>2, <2>4
      <4>2. Len(uploads[w] \o acks[w]) = Len(uploads[w]) + Len(acks[w])
        BY WireFacts
      <4> QED
        BY <4>1, <4>2, WireFacts
    <3>2. Cardinality(Sent(uploads[w], own[w])) = 0
      BY <3>1, SentNone
    <3>3. Carried(w) = 0
      BY <3>1, <3>2 DEF Carried, OnTheWay, Sent
    <3> QED
      BY <1>a, <2>4, <3>3 DEF OneAnswer
  <2> QED
    BY <2>3, <2>4
<1> QED
  BY <1>1, <1>b DEF TimeoutInLoop, TimeoutInAttempt, TimeoutInReport, LoopStates

LEMMA ProcessAnswers ==
    ASSUME MaxFaults = 0, WireTypeInv, AnswerInv, NEW w \in Worker, ProcessStep(w)
    PROVE  AnswerInv'
<1> USE DEF WireTypeInv
<1>a. WireTypeOK /\ HoldsLease /\ faults = 0 /\ OneAnswer(w)
  BY DEF WireTypeOK, AnswerInv
<1>b. /\ Request(w, "ready") \in ControlMessage
      /\ Request(w, "work") \in ControlMessage
      /\ Request(w, "heartbeat") \in ControlMessage
      /\ at[w] \in AttemptStates => /\ Request(w, "complete") \in ControlMessage
                                    /\ Request(w, "failed") \in ControlMessage
  BY <1>a, RequestTypes DEF HoldsLease
<1>c. {"register", "ready", "work", "poll", "beat", "final", "complete", "failed"} = Waiting
  BY DEF Waiting, LoopStates
<1>1. CASE LoopRaises(w)
  BY <1>1, ProcessLeaves DEF LoopRaises
<1>2. CASE Registered(w)
  BY <1>2, <1>b, <1>c, AsksAgain DEF Registered, Answered, process, service
<1>3. CASE TakeLease(w)
  BY <1>3, <1>c, ProcessResumes DEF TakeLease, Answered, service
<1>4. CASE Poll(w)
  BY <1>4, <1>b, <1>c, AsksAgain DEF Poll, Answered, process, service
<1>5. CASE LoopAgain(w)
  BY <1>5, <1>b, <1>c, AsksAgain DEF LoopAgain, AskForWork, Answered, service
<1>6. CASE CollectionRaises(w)
  BY <1>6, <1>b, <1>c, AsksFirst DEF CollectionRaises, ReportFailure, AttemptStates, process, service
<1>7. CASE Upload(w)
  BY <1>7, PartGoesOut
<1>8. CASE Uploaded(w)
  BY <1>8, PartIsAnswered
<1>9. CASE Heartbeat(w)
  BY <1>9, <1>b, <1>c, AsksFirst DEF Heartbeat, process, service
<1>10. CASE Beaten(w)
  BY <1>10, <1>c, ProcessResumes DEF Beaten, Answered, service
<1>11. CASE Collected(w)
  <2>1. at[w] \in AttemptStates /\ at[w] \in Waiting
    BY <1>11, <1>c DEF Collected, Answered, AttemptStates
  <2>2. \E kind \in {"work", "complete"}, s \in Waiting :
          Ask(w, s, kind) /\ Request(w, kind) \in ControlMessage
    BY <1>11, <1>b, <1>c, <2>1 DEF Collected, AskForWork
  <2>3. /\ replies[w] # <<>> /\ replies' = Pop(replies, w)
        /\ UNCHANGED <<own, uploads, acks, chosen>>
    BY <1>11 DEF Collected, Answered, AskForWork, process, service
  <2> QED
    BY <2>1, <2>2, <2>3, AsksAgain
<1>12. CASE AttemptRaises(w)
  <2>1. at[w] \in AttemptStates /\ at[w] \in Waiting /\ replies[w] # <<>>
    BY <1>12, <1>c DEF AttemptRaises, Answered, AttemptStates
  <2> QED
    BY <1>12, <1>b, <1>c, <2>1, AsksAgain DEF AttemptRaises, ReportFailure, process, service
<1>13. CASE AttemptEnds(w)
  BY <1>13, <1>b, <1>c, AsksAgain DEF AttemptEnds, Answered, AskForWork, service
<1>15. ~TimeoutInLoop(w) /\ ~TimeoutInAttempt(w) /\ ~TimeoutInReport(w)
  BY <1>a, NoTimeouts
<1> QED
  BY <1>1, <1>2, <1>3, <1>4, <1>5, <1>6, <1>7, <1>8, <1>9, <1>10, <1>11, <1>12, <1>13, <1>15
  DEF ProcessStep

LEMMA ChannelTails ==
    ASSUME WireTypeOK, NEW w \in Worker, SentBefore(w)
    PROVE  /\ requests[w] # <<>> =>
                /\ \A i \in DOMAIN Tail(requests[w]) : Tail(requests[w])[i].session <= own[w]
                /\ Head(requests[w]).session <= own[w]
                /\ Cardinality(Sent(requests[w], own[w])) =
                     Cardinality(Sent(Tail(requests[w]), own[w]))
                       + (IF Head(requests[w]).session = own[w] THEN 1 ELSE 0)
                /\ Cardinality(Sent(Tail(requests[w]), own[w])) \in Nat
           /\ uploads[w] # <<>> =>
                /\ \A i \in DOMAIN Tail(uploads[w]) : Tail(uploads[w])[i].session <= own[w]
                /\ Cardinality(Sent(uploads[w], own[w])) =
                     Cardinality(Sent(Tail(uploads[w]), own[w]))
                       + (IF Head(uploads[w]).session = own[w] THEN 1 ELSE 0)
                /\ Cardinality(Sent(Tail(uploads[w]), own[w])) \in Nat
<1> DEFINE q == requests[w]
           u == uploads[w]
           x == own[w]
<1>1. /\ q \in Seq(ControlMessage) /\ u \in Seq(Part) /\ x \in Nat
      /\ \A m \in ControlMessage : m.session \in Nat
      /\ \A m \in Part : m.session \in Nat
      /\ \A i \in DOMAIN q : q[i].session <= x
      /\ \A i \in DOMAIN u : u[i].session <= x
  BY WireFacts DEF SentBefore
<1> HIDE DEF q, u, x
<1>2. q # <<>> =>
        /\ \A i \in DOMAIN Tail(q) : Tail(q)[i].session <= x
        /\ Head(q).session <= x
        /\ Cardinality(Sent(q, x)) = Cardinality(Sent(Tail(q), x))
                                        + (IF Head(q).session = x THEN 1 ELSE 0)
        /\ Cardinality(Sent(Tail(q), x)) \in Nat
  BY <1>1, TailCounts
<1>3. u # <<>> =>
        /\ \A i \in DOMAIN Tail(u) : Tail(u)[i].session <= x
        /\ Cardinality(Sent(u, x)) = Cardinality(Sent(Tail(u), x))
                                        + (IF Head(u).session = x THEN 1 ELSE 0)
        /\ Cardinality(Sent(Tail(u), x)) \in Nat
  BY <1>1, TailCounts
<1> QED
  BY <1>2, <1>3 DEF q, u, x

\* The I/O thread takes a message and answers it.
LEMMA ServesAnswer ==
    ASSUME WireTypeOK, AnswerInv, NEW w \in Worker, NEW kind, NEW a,
           requests[w] # <<>>, requests' = Pop(requests, w),
           Reply(w, Head(requests[w]).session, kind, a),
           UNCHANGED <<at, own, uploads, acks, chosen>>
    PROVE  AnswerInv'
<1> DEFINE s == Head(requests[w]).session
           q == requests[w]
           x == own[w]
<1>1. ASSUME NEW v \in Worker, v # w
      PROVE  OneAnswer(v)' /\ SentBefore(v)'
  <2>1. UNCHANGED Seen(v)
    BY <1>1, WireFacts DEF Seen, Pop, Reply
  <2>2. OneAnswer(v) /\ SentBefore(v)
    BY DEF AnswerInv
  <2> QED
    BY <2>1, <2>2, SameAnswers
<1>2. OneAnswer(w) /\ SentBefore(w) /\ x \in Nat /\ q \in Seq(ControlMessage)
  BY WireFacts DEF AnswerInv
<1>3. /\ \A i \in DOMAIN Tail(q) : Tail(q)[i].session <= x
      /\ Cardinality(Sent(q, x)) = Cardinality(Sent(Tail(q), x)) + (IF s = x THEN 1 ELSE 0)
      /\ Cardinality(Sent(Tail(q), x)) \in Nat
  BY <1>2, ChannelTails
<1>4. requests'[w] = Tail(q) /\ own'[w] = x /\ at'[w] = at[w]
  BY WireFacts DEF Pop
<1>5. SentBefore(w)'
  BY <1>2, <1>3, <1>4 DEF SentBefore
<1>6. OnTheWay(requests, w)' = Sent(Tail(q), x) /\ OnTheWay(requests, w) = Sent(q, x)
  BY <1>4 DEF OnTheWay, Sent
<1>7. Carried(w)' = Carried(w)
  BY DEF Carried, OnTheWay
<1>8. CASE at[w] # "off" /\ x = s
  <2>1. Len(replies'[w]) = Len(replies[w]) + 1 /\ Len(replies[w]) \in Nat
    BY <1>8, WireFacts DEF Reply
  <2>2. Outstanding(w)' = Outstanding(w)
    <3> DEFINE c == IF chosen.worker = w /\ chosen.session = own[w] THEN 1 ELSE 0
    <3>1. c \in Nat /\ Outstanding(w) = Cardinality(Sent(q, x)) + Len(replies[w]) + c
      BY <1>6 DEF Outstanding
    <3>2. Outstanding(w)' = Cardinality(Sent(Tail(q), x)) + Len(replies'[w]) + c
      BY <1>4, <1>6 DEF Outstanding
    <3>3. Cardinality(Sent(q, x)) = Cardinality(Sent(Tail(q), x)) + 1
      BY <1>3, <1>8
    <3>4. Cardinality(Sent(Tail(q), x)) \in Nat
      BY <1>3
    <3> HIDE DEF c, q, x
    <3> QED
      BY <2>1, <3>1, <3>2, <3>3, <3>4
  <2> QED
    BY <1>1, <1>2, <1>4, <1>5, <1>7, <1>8, <2>2 DEF AnswerInv, OneAnswer
<1>9. CASE ~(at[w] # "off" /\ x = s)
  <2>1. replies' = replies
    BY <1>9 DEF Reply
  <2>2. at[w] # "off" => Outstanding(w)' = Outstanding(w)
    BY <1>3, <1>6, <1>9, <2>1 DEF Outstanding
  <2> QED
    BY <1>1, <1>2, <1>4, <1>5, <1>7, <1>9, <2>1, <2>2 DEF AnswerInv, OneAnswer
<1> QED
  BY <1>8, <1>9

\* It takes a request for work and picks a lease.
LEMMA ServesChoice ==
    ASSUME WireTypeOK, AnswerInv, NEW w \in Worker, ChooseLease(w)
    PROVE  AnswerInv'
<1> DEFINE s == Head(requests[w]).session
           q == requests[w]
           x == own[w]
<1>0. /\ chosen = Nothing /\ chosen'.worker = w /\ chosen'.session = s
      /\ q # <<>> /\ requests' = Pop(requests, w)
      /\ UNCHANGED <<at, own, uploads, acks, replies>>
  BY DEF ChooseLease, Serving, Free, process
<1>a. chosen.worker \notin Worker
  BY <1>0, WireAssumption DEF Nothing
<1>1. ASSUME NEW v \in Worker, v # w
      PROVE  OneAnswer(v)' /\ SentBefore(v)'
  <2>1. UNCHANGED Seen(v)
    BY <1>0, <1>a, <1>1, WireFacts DEF Seen, Pop
  <2>2. OneAnswer(v) /\ SentBefore(v)
    BY DEF AnswerInv
  <2> QED
    BY <2>1, <2>2, SameAnswers
<1>2. OneAnswer(w) /\ SentBefore(w) /\ x \in Nat /\ q \in Seq(ControlMessage)
  BY WireFacts DEF AnswerInv
<1>3. /\ \A i \in DOMAIN Tail(q) : Tail(q)[i].session <= x
      /\ s <= x
      /\ Cardinality(Sent(q, x)) = Cardinality(Sent(Tail(q), x)) + (IF s = x THEN 1 ELSE 0)
      /\ Cardinality(Sent(Tail(q), x)) \in Nat
  BY <1>0, <1>2, ChannelTails
<1>4. requests'[w] = Tail(q) /\ own'[w] = x /\ at'[w] = at[w]
  BY <1>0, WireFacts DEF Pop
<1>5. SentBefore(w)'
  BY <1>0, <1>2, <1>3, <1>4 DEF SentBefore
<1>6. OnTheWay(requests, w)' = Sent(Tail(q), x) /\ OnTheWay(requests, w) = Sent(q, x)
  BY <1>4 DEF OnTheWay, Sent
<1>7. Carried(w)' = Carried(w)
  BY <1>0 DEF Carried, OnTheWay
<1>8. Outstanding(w)' = Outstanding(w)
  <2>1. Len(replies[w]) \in Nat /\ replies' = replies
    BY <1>0, WireFacts
  <2>2. Outstanding(w)' = Cardinality(Sent(Tail(q), x)) + Len(replies[w])
                           + (IF s = x THEN 1 ELSE 0)
    BY <1>0, <1>4, <1>6, <2>1 DEF Outstanding
  <2>3. Outstanding(w) = Cardinality(Sent(q, x)) + Len(replies[w]) + 0
    BY <1>a, <1>6 DEF Outstanding
  <2> QED
    BY <1>3, <2>1, <2>2, <2>3
<1> QED
  BY <1>0, <1>1, <1>2, <1>4, <1>5, <1>7, <1>8 DEF AnswerInv, OneAnswer

\* It starts the lease, or refuses to, and answers.
LEMMA ServesChosen ==
    ASSUME WireTypeOK, AnswerInv, NEW w \in Worker, NEW kind, NEW a,
           chosen.worker = w, chosen' = Nothing, Reply(w, chosen.session, kind, a),
           UNCHANGED <<at, own, requests, uploads, acks>>
    PROVE  AnswerInv'
<1>0. chosen'.worker \notin Worker
  BY WireAssumption DEF Nothing
<1>1. ASSUME NEW v \in Worker, v # w
      PROVE  OneAnswer(v)' /\ SentBefore(v)'
  <2>1. UNCHANGED Seen(v)
    BY <1>0, <1>1, WireFacts DEF Seen, Reply
  <2>2. OneAnswer(v) /\ SentBefore(v)
    BY DEF AnswerInv
  <2> QED
    BY <2>1, <2>2, SameAnswers
<1>2. OneAnswer(w) /\ SentBefore(w)
  BY DEF AnswerInv
<1>3. SentBefore(w)'
  BY <1>0, <1>2 DEF SentBefore
<1>4. Carried(w)' = Carried(w)
  BY DEF Carried, OnTheWay
<1>5. OnTheWay(requests, w)' = OnTheWay(requests, w)
      /\ Cardinality(OnTheWay(requests, w)) \in Nat /\ Len(replies[w]) \in Nat
  <2>1. requests[w] \in Seq(ControlMessage) /\ Len(replies[w]) \in Nat
    BY WireFacts
  <2>2. Cardinality(Sent(requests[w], own[w])) \in Nat
    BY <2>1, SentFinite
  <2> QED
    BY <2>1, <2>2 DEF OnTheWay, Sent
<1>6. CASE at[w] # "off" /\ own[w] = chosen.session
  <2>1. Len(replies'[w]) = Len(replies[w]) + 1
    BY <1>6, WireFacts DEF Reply
  <2>2. Outstanding(w)' = Outstanding(w)
    BY <1>0, <1>5, <1>6, <2>1 DEF Outstanding
  <2> QED
    BY <1>1, <1>2, <1>3, <1>4, <1>6, <2>2 DEF AnswerInv, OneAnswer
<1>7. CASE ~(at[w] # "off" /\ own[w] = chosen.session)
  <2>1. replies' = replies
    BY <1>7 DEF Reply
  <2>2. at[w] # "off" => Outstanding(w)' = Outstanding(w)
    BY <1>0, <1>5, <1>7, <2>1 DEF Outstanding
  <2> QED
    BY <1>1, <1>2, <1>3, <1>4, <1>7, <2>1, <2>2 DEF AnswerInv, OneAnswer
<1> QED
  BY <1>6, <1>7

\* It takes a part and acknowledges it.
LEMMA ServesPart ==
    ASSUME WireTypeOK, AnswerInv, NEW w \in Worker, ServePart(w)
    PROVE  AnswerInv'
<1> DEFINE s == Head(uploads[w]).session
           q == uploads[w]
           x == own[w]
<1>0. /\ q # <<>> /\ uploads' = Pop(uploads, w)
      /\ \E kind : acks' = IF at[w] # "off" /\ x = s
                           THEN [acks EXCEPT ![w] =
                                   Append(@, [kind |-> kind, attempt |-> Head(q).attempt,
                                              part |-> Head(q).part])]
                           ELSE acks
      /\ UNCHANGED <<at, own, requests, replies, chosen>>
  BY DEF ServePart, process, service
<1>1. ASSUME NEW v \in Worker, v # w
      PROVE  OneAnswer(v)' /\ SentBefore(v)'
  <2>1. UNCHANGED Seen(v)
    BY <1>0, <1>1, WireFacts DEF Seen, Pop
  <2>2. OneAnswer(v) /\ SentBefore(v)
    BY DEF AnswerInv
  <2> QED
    BY <2>1, <2>2, SameAnswers
<1>2. OneAnswer(w) /\ SentBefore(w) /\ x \in Nat /\ q \in Seq(Part)
  BY WireFacts DEF AnswerInv
<1>3. /\ \A i \in DOMAIN Tail(q) : Tail(q)[i].session <= x
      /\ Cardinality(Sent(q, x)) = Cardinality(Sent(Tail(q), x)) + (IF s = x THEN 1 ELSE 0)
      /\ Cardinality(Sent(Tail(q), x)) \in Nat
  BY <1>0, <1>2, ChannelTails
<1>4. uploads'[w] = Tail(q) /\ own'[w] = x /\ at'[w] = at[w]
  BY <1>0, WireFacts DEF Pop
<1>5. SentBefore(w)'
  BY <1>0, <1>2, <1>3, <1>4 DEF SentBefore
<1>6. OnTheWay(uploads, w)' = Sent(Tail(q), x) /\ OnTheWay(uploads, w) = Sent(q, x)
  BY <1>4 DEF OnTheWay, Sent
<1>7. Outstanding(w)' = Outstanding(w)
  BY <1>0 DEF Outstanding, OnTheWay
<1>8. CASE at[w] # "off" /\ x = s
  <2>1. Len(acks'[w]) = Len(acks[w]) + 1 /\ Len(acks[w]) \in Nat
    BY <1>0, <1>8, WireFacts
  <2>2. Carried(w)' = Carried(w)
    <3>1. Carried(w) = Cardinality(Sent(q, x)) + Len(acks[w])
      BY <1>6 DEF Carried
    <3>2. Carried(w)' = Cardinality(Sent(Tail(q), x)) + Len(acks'[w])
      BY <1>6 DEF Carried
    <3> QED
      BY <1>3, <1>8, <2>1, <3>1, <3>2
  <2> QED
    BY <1>0, <1>1, <1>2, <1>4, <1>5, <1>7, <1>8, <2>2 DEF AnswerInv, OneAnswer
<1>9. CASE ~(at[w] # "off" /\ x = s)
  <2>1. acks' = acks
    BY <1>0, <1>9
  <2>2. at[w] # "off" => Carried(w)' = Carried(w)
    BY <1>3, <1>6, <1>9, <2>1 DEF Carried
  <2> QED
    BY <1>0, <1>1, <1>2, <1>4, <1>5, <1>7, <1>9, <2>1, <2>2 DEF AnswerInv, OneAnswer
<1> QED
  BY <1>8, <1>9

LEMMA ServeAnswers ==
    ASSUME WireTypeOK, AnswerInv, NEW w \in Worker, Serve(w)
    PROVE  AnswerInv'
<1>1. CASE ServeRegister(w) \/ ServeReady(w)
  BY <1>1, ServesAnswer
  DEF ServeRegister, ServeReady, Serving, Served, process, service
<1>2. CASE ServeHeartbeat(w)
  BY <1>2, ServesAnswer DEF ServeHeartbeat, Serving, Served, process
<1>3. CASE ServeNoWork(w)
  BY <1>3, ServesAnswer DEF ServeNoWork, SettledReply, Serving, process
<1>4. CASE ChooseLease(w)
  BY <1>4, ServesChoice
<1>5. CASE StartChosen(w)
  BY <1>5, ServesChosen DEF StartChosen, process
<1>6. CASE ChosenRefused(w)
  BY <1>6, ServesChosen DEF ChosenRefused, SettledReply, process
<1>7. CASE ServeFailed(w) \/ ServeComplete(w)
  BY <1>7, ServesAnswer DEF ServeFailed, ServeComplete, Serving, Served, process, service
<1>8. CASE ServePart(w)
  BY <1>8, ServesPart
<1> QED
  BY <1>1, <1>2, <1>3, <1>4, <1>5, <1>6, <1>7, <1>8 DEF Serve

\* what is not about a worker's channels
LEMMA AnswersStay ==
    ASSUME AnswerInv, UNCHANGED <<at, own, requests, replies, uploads, acks>>,
           chosen' = chosen \/ (chosen.worker \notin Worker /\ chosen'.worker \notin Worker)
    PROVE  AnswerInv'
<1> SUFFICES ASSUME NEW v \in Worker PROVE OneAnswer(v)' /\ SentBefore(v)'
  BY DEF AnswerInv
<1>1. UNCHANGED Seen(v)
  BY DEF Seen
<1>2. OneAnswer(v) /\ SentBefore(v)
  BY DEF AnswerInv
<1> QED
  BY <1>1, <1>2, SameAnswers

LEMMA NextAnswerInv ==
    ASSUME MaxFaults = 0, WireTypeInv, AnswerInv, [NextService]_allVars
    PROVE  AnswerInv'
<1>a. WireTypeOK /\ faults = 0
  BY DEF WireTypeInv, WireTypeOK
<1>b. Nothing.worker \notin Worker /\ NoPlan.worker \notin Worker
  BY WireAssumption DEF Nothing, NoPlan
<1>1. ASSUME NEW w \in Worker, ProcessStep(w) PROVE AnswerInv'
  BY <1>1, ProcessAnswers
<1>2. ASSUME NEW w \in Worker, Environment(w) PROVE AnswerInv'
  BY <1>a, <1>2, ProcessBegins, ProcessLeaves DEF Environment, Crash, DropReply
<1>3. ASSUME NEW w \in Worker, Serve(w) PROVE AnswerInv'
  BY <1>a, <1>3, ServeAnswers
<1>4. CASE Maintain
  BY <1>4, AnswersStay DEF Maintain, wireVars, process, channels, service
<1>5. CASE Boundary
  BY <1>5, <1>b, AnswersStay DEF Boundary, Free, process, channels
<1>6. CASE AbortUnplanned
  BY <1>6, <1>b, AnswersStay DEF AbortUnplanned, process, channels
<1>7. CASE Learner
  BY <1>7, AnswersStay DEF Learner, wireVars, process, channels, service
<1>8. CASE UNCHANGED allVars
  BY <1>8, AnswersStay DEF allVars, wireVars, process, channels, service
<1> QED
  BY <1>1, <1>2, <1>3, <1>4, <1>5, <1>6, <1>7, <1>8 DEF NextService

LEMMA InitAnswerInv == InitService => AnswerInv
<1> SUFFICES ASSUME InitService, NEW w \in Worker PROVE OneAnswer(w) /\ SentBefore(w)
  BY DEF AnswerInv
<1>1. /\ at[w] = "off" /\ replies[w] = <<>> /\ acks[w] = <<>>
      /\ requests[w] = <<>> /\ uploads[w] = <<>> /\ chosen.worker = Nobody
  BY DEF InitService, Nothing
<1> QED
  BY <1>1, WireAssumption DEF OneAnswer, SentBefore

\* Without late and dropped replies, a process waits for exactly one answer,
\* whatever fails while its message is served and wherever the learner
\* interferes (EveryRequestIsAnswered).
THEOREM RequestsAreAnswered ==
    ASSUME MaxFaults = 0
    PROVE  ServiceSpec => []EveryRequestIsAnswered
<1>1. InitService => AnswerInv
  BY InitAnswerInv
<1>2. AnswerInv /\ WireTypeInv /\ [NextService]_allVars => AnswerInv'
  BY NextAnswerInv
<1>3. AnswerInv => EveryRequestIsAnswered
  BY DEF AnswerInv, EveryRequestIsAnswered, OneAnswer, Carried, Waiting, LoopStates
<1>4. ServiceInv => WireTypeInv
  BY DEF ServiceInv
<1> QED
  BY <1>1, <1>2, <1>3, <1>4, SpecServiceInv, PTL DEF ServiceSpec

(***************************************************************************)
(* Messages and sessions in order                                          *)
(***************************************************************************)

\* the session of the message before the i-th of q; x was served last
Before(q, x, i) == IF i = 1 THEN x ELSE q[i - 1].session

\* q goes from session x to session y, and only a REGISTER begins a session
Ordered(q, x, y) ==
    /\ \A i \in DOMAIN q :
         q[i].session = Before(q, x, i) + (IF q[i].kind = "register" THEN 1 ELSE 0)
    /\ Before(q, x, Len(q) + 1) = y
    /\ \A i \in DOMAIN q : q[i].session \in Nat /\ q[i].session <= y
    /\ x \in Nat /\ y \in Nat /\ x <= y

\* Sessions only begin with a REGISTER, on the channel and at the coordinator;
\* a lease is picked for the newest session, which has its attempt at once.
InOrder(w) ==
    /\ Ordered(requests[w], Latest(w), own[w])
    /\ chosen.worker = w => chosen.session = Latest(w) /\ pending[w] = 0

OrderInv == \A w \in Worker : InOrder(w)

LEMMA RegistrySessions ==
    ASSUME TypeInv, NEW w \in Worker
    PROVE  session[w] \in Nat /\ pending[w] \in Nat /\ Latest(w) \in Nat
  BY BoundAssumption DEF TypeInv, TypeOK, Latest

LEMMA AppendOrdered ==
    ASSUME NEW S, NEW q \in Seq(S), NEW m \in S, NEW x, NEW y, Ordered(q, x, y),
           m.session = y + (IF m.kind = "register" THEN 1 ELSE 0)
    PROVE  Ordered(Append(q, m), x, m.session)
<1> DEFINE r == Append(q, m)
<1>1. /\ Len(q) \in Nat /\ DOMAIN q = 1 .. Len(q)
      /\ DOMAIN r = 1 .. (Len(q) + 1)
      /\ Len(r) = Len(q) + 1
      /\ \A i \in 1 .. Len(q) : r[i] = q[i]
      /\ r[Len(q) + 1] = m
  OBVIOUS
<1> HIDE DEF r
<1>2. \A i \in 1 .. (Len(q) + 1) : Before(r, x, i) = Before(q, x, i)
  BY <1>1 DEF Before
<1>3. Before(r, x, Len(r) + 1) = m.session
  BY <1>1 DEF Before
<1>4. \A i \in DOMAIN r :
        r[i].session = Before(r, x, i) + (IF r[i].kind = "register" THEN 1 ELSE 0)
  BY <1>1, <1>2 DEF Ordered
<1>5. /\ \A i \in DOMAIN r : r[i].session \in Nat /\ r[i].session <= m.session
      /\ x \in Nat /\ m.session \in Nat /\ x <= m.session
  BY <1>1 DEF Ordered
<1>6. Ordered(r, x, m.session)
  BY <1>3, <1>4, <1>5 DEF Ordered
<1> QED
  BY <1>6 DEF r

LEMMA TailOrdered ==
    ASSUME NEW S, NEW q \in Seq(S), q # <<>>, NEW x, NEW y, Ordered(q, x, y)
    PROVE  /\ Ordered(Tail(q), Head(q).session, y)
           /\ Head(q).session = x + (IF Head(q).kind = "register" THEN 1 ELSE 0)
<1> DEFINE r == Tail(q)
           z == Head(q).session
<1>1. /\ Len(q) \in Nat /\ Len(q) > 0 /\ DOMAIN q = 1 .. Len(q)
      /\ DOMAIN r = 1 .. (Len(q) - 1)
      /\ Len(r) = Len(q) - 1
      /\ \A i \in 1 .. (Len(q) - 1) : r[i] = q[i + 1]
      /\ Head(q) = q[1] /\ z = q[1].session
  OBVIOUS
<1> HIDE DEF r, z
<1>2. q[1].session = x + (IF q[1].kind = "register" THEN 1 ELSE 0)
  BY <1>1 DEF Ordered, Before
<1>3. ASSUME NEW i \in 1 .. Len(q)
      PROVE  Before(r, z, i) = Before(q, x, i + 1)
  <2>1. CASE i = 1
    BY <1>1, <2>1 DEF Before
  <2>2. CASE i # 1
    <3>1. i - 1 \in 1 .. (Len(q) - 1) /\ (i - 1) + 1 = i /\ i + 1 # 1 /\ (i + 1) - 1 = i
      BY <1>1, <2>2
    <3> QED
      BY <1>1, <2>2, <3>1 DEF Before
  <2> QED
    BY <2>1, <2>2
<1>4. ASSUME NEW i \in DOMAIN r
      PROVE  r[i].session = Before(r, z, i) + (IF r[i].kind = "register" THEN 1 ELSE 0)
  <2>1. i \in 1 .. Len(q) /\ i + 1 \in DOMAIN q /\ r[i] = q[i + 1]
    BY <1>1, <1>4
  <2>2. q[i + 1].session =
          Before(q, x, i + 1) + (IF q[i + 1].kind = "register" THEN 1 ELSE 0)
    BY <2>1 DEF Ordered
  <2> QED
    BY <1>3, <2>1, <2>2
<1>5. Before(r, z, Len(r) + 1) = y
  <2>1. (Len(q) - 1) + 1 = Len(q) /\ Len(q) \in 1 .. Len(q)
    BY <1>1
  <2>2. Before(r, z, Len(q)) = Before(q, x, Len(q) + 1)
    BY <1>3, <2>1
  <2> QED
    BY <1>1, <2>1, <2>2 DEF Ordered
<1>6. /\ \A i \in DOMAIN r : r[i].session \in Nat /\ r[i].session <= y
      /\ z \in Nat /\ y \in Nat /\ z <= y
  <2>1. \A i \in DOMAIN q : q[i].session \in Nat /\ q[i].session <= y
    BY DEF Ordered
  <2>2. 1 \in DOMAIN q /\ \A i \in DOMAIN r : i + 1 \in DOMAIN q /\ r[i] = q[i + 1]
    BY <1>1
  <2>3. z \in Nat /\ z <= y
    BY <1>1, <2>1, <2>2
  <2> QED
    BY <2>1, <2>2, <2>3 DEF Ordered
<1>7. Ordered(r, z, y)
  BY <1>4, <1>5, <1>6 DEF Ordered
<1> QED
  BY <1>1, <1>2, <1>7 DEF r, z

\* what is not about the sessions of w
LEMMA SameOrder ==
    ASSUME NEW w \in Worker, InOrder(w),
           UNCHANGED <<requests[w], own[w], Latest(w)>>,
           chosen'.worker = w => chosen'.session = Latest(w) /\ pending'[w] = 0
    PROVE  InOrder(w)'
  BY DEF InOrder

\* A process sends with the session it has.
LEMMA ProcessRequests ==
    ASSUME NEW w \in Worker, ProcessStep(w)
    PROVE  /\ UNCHANGED <<own, chosen>>
           /\ \/ UNCHANGED requests
              \/ \E kind \in {"ready", "work", "heartbeat", "complete", "failed"} :
                   requests' = [requests EXCEPT ![w] = Append(@, Request(w, kind))]
<1>1. CASE LoopRaises(w) \/ TimeoutInLoop(w)
  BY <1>1 DEF LoopRaises, TimeoutInLoop, Exit, service
<1>2. CASE Registered(w) \/ Poll(w) \/ CollectionRaises(w) \/ Heartbeat(w)
  BY <1>2 DEF Registered, Poll, CollectionRaises, Heartbeat, ReportFailure, Ask, process, service
<1>3. CASE TakeLease(w) \/ Upload(w) \/ Beaten(w)
  BY <1>3 DEF TakeLease, Upload, Beaten, process, service
<1>4. CASE LoopAgain(w) \/ AttemptEnds(w) \/ TimeoutInReport(w)
  BY <1>4 DEF LoopAgain, AttemptEnds, TimeoutInReport, AskForWork, Ask, service
<1>5. CASE Uploaded(w) \/ AttemptRaises(w) \/ TimeoutInAttempt(w)
  BY <1>5 DEF Uploaded, AttemptRaises, TimeoutInAttempt, ReportFailure, Ask, process, service
<1>6. CASE Collected(w)
  BY <1>6 DEF Collected, AskForWork, Ask, process, service
<1> QED
  BY <1>1, <1>2, <1>3, <1>4, <1>5, <1>6 DEF ProcessStep

\* Between two REGISTERs the sessions stay.
LEMMA SessionsStay ==
    ASSUME NEW w \in Worker, Serve(w), ~ServeRegister(w)
    PROVE  UNCHANGED <<session, pending>>
<1>1. CASE ServeReady(w)
  BY <1>1 DEF ServeReady, MarkReady
<1>2. CASE ServeHeartbeat(w) \/ ChosenRefused(w)
  BY <1>2 DEF ServeHeartbeat, ChosenRefused, vars, registry
<1>3. CASE ServeNoWork(w) \/ ChooseLease(w)
  BY <1>3 DEF ServeNoWork, ChooseLease, AcknowledgeDiscards, registry
<1>4. CASE StartChosen(w)
  BY <1>4 DEF StartChosen
<1>5. CASE ServeFailed(w) \/ ServeComplete(w)
  BY <1>5 DEF ServeFailed, ServeComplete, FailAttempt, ReserveCompletion, vars, registry
<1>6. CASE ServePart(w)
  BY <1>6 DEF ServePart, FailAttempt, AcceptPart, vars, registry
<1> QED
  BY <1>1, <1>2, <1>3, <1>4, <1>5, <1>6 DEF Serve

LEMMA RegisterCounts ==
    ASSUME TypeInv, NEW w \in Worker, RegisterWhileCollecting(w) \/ RegisterAtBoundary(w)
    PROVE  /\ Latest(w)' = Latest(w) + 1
           /\ \A v \in Worker \ {w} : UNCHANGED <<session[v], pending[v]>>
<1>1. session \in [Worker -> Nat] /\ pending \in [Worker -> Nat]
  BY BoundAssumption DEF TypeInv, TypeOK
<1>2. \/ session' = session /\ pending' = [pending EXCEPT ![w] = Latest(w) + 1]
      \/ session' = [session EXCEPT ![w] = Latest(w) + 1] /\ pending' = [pending EXCEPT ![w] = 0]
  BY DEF RegisterWhileCollecting, RegisterAtBoundary
<1>3. Latest(w) \in Nat
  BY <1>1 DEF Latest
<1> QED
  BY <1>1, <1>2, <1>3 DEF Latest

LEMMA BoundarySessions ==
    ASSUME TypeInv, BoundaryStep
    PROVE  \A w \in Worker : Latest(w)' = Latest(w)
<1>1. /\ session' = [w \in Worker |-> PromotedSession(w)]
      /\ pending' = [w \in Worker |-> 0]
  BY DEF BoundaryStep, BeginWindow, RefuseWindow, PromotePending
<1> QED
  BY <1>1 DEF Latest, PromotedSession

\* Serving a message.
LEMMA ServeOrder ==
    ASSUME TypeInv, WireTypeOK, OrderInv, NEW w \in Worker, Serve(w)
    PROVE  OrderInv'
<1>a. Nothing.worker \notin Worker
  BY WireAssumption DEF Nothing
<1>b. ASSUME requests' = requests, UNCHANGED <<own, session, pending>>,
             chosen' = chosen \/ chosen' = Nothing
      PROVE  OrderInv'
  <2> SUFFICES ASSUME NEW v \in Worker PROVE InOrder(v)'
    BY DEF OrderInv
  <2>1. InOrder(v) /\ UNCHANGED <<requests[v], own[v], Latest(v)>>
    BY <1>b DEF OrderInv, Latest
  <2>2. chosen'.worker = v => chosen'.session = Latest(v) /\ pending'[v] = 0
    BY <1>a, <1>b, <2>1 DEF InOrder
  <2> QED
    BY <2>1, <2>2, SameOrder
<1>c. ASSUME requests[w] # <<>>, requests' = Pop(requests, w), own' = own,
             Latest(w)' = Latest(w) + (IF Head(requests[w]).kind = "register" THEN 1 ELSE 0),
             \A v \in Worker \ {w} : UNCHANGED <<session[v], pending[v]>>,
             chosen' = Nothing \/ (/\ chosen'.worker = w
                                   /\ chosen'.session = Head(requests[w]).session
                                   /\ pending'[w] = 0)
      PROVE  OrderInv'
  <2> SUFFICES ASSUME NEW v \in Worker PROVE InOrder(v)'
    BY DEF OrderInv
  <2>0. InOrder(v) /\ InOrder(w)
    BY DEF OrderInv
  <2>1. CASE v # w
    <3>1. UNCHANGED <<requests[v], own[v], Latest(v)>>
      BY <1>c, <2>1, WireFacts DEF Latest, Pop
    <3>2. chosen'.worker # v
      BY <1>a, <1>c, <2>1
    <3> QED
      BY <2>0, <3>1, <3>2, SameOrder
  <2>2. CASE v = w
    <3> DEFINE q == requests[w]
    <3>1. q \in Seq(ControlMessage) /\ q # <<>> /\ Ordered(q, Latest(w), own[w])
      BY <1>c, <2>0, WireFacts DEF InOrder
    <3>2. /\ Ordered(Tail(q), Head(q).session, own[w])
          /\ Head(q).session = Latest(w) + (IF Head(q).kind = "register" THEN 1 ELSE 0)
      <4> HIDE DEF q
      <4> QED
        BY <3>1, TailOrdered
    <3>3. requests'[w] = Tail(q) /\ own'[w] = own[w] /\ Latest(w)' = Head(q).session
      BY <1>c, <3>2, WireFacts DEF Pop
    <3>4. chosen'.worker = w => chosen'.session = Latest(w)' /\ pending'[w] = 0
      BY <1>a, <1>c, <3>3
    <3> QED
      BY <2>2, <3>2, <3>3, <3>4 DEF InOrder
  <2> QED
    BY <2>1, <2>2
<1>1. CASE ServeRegister(w)
  <2>1. RegisterWhileCollecting(w) \/ RegisterAtBoundary(w)
    BY <1>1 DEF ServeRegister
  <2>2. /\ requests[w] # <<>> /\ requests' = Pop(requests, w) /\ own' = own
        /\ Head(requests[w]).kind = "register" /\ chosen' = Nothing
    BY <1>1 DEF ServeRegister, Serving, Free, process, service
  <2> QED
    BY <1>c, <2>1, <2>2, RegisterCounts
<1>2. CASE StartChosen(w) \/ ChosenRefused(w)
  <2>1. UNCHANGED <<session, pending>>
    BY <1>2 DEF StartChosen, ChosenRefused, vars, registry
  <2> QED
    BY <1>2, <1>b, <2>1 DEF StartChosen, ChosenRefused, process
<1>3. CASE ServePart(w)
  <2>1. UNCHANGED <<session, pending>>
    BY <1>3 DEF ServePart, FailAttempt, AcceptPart, vars, registry
  <2> QED
    BY <1>3, <1>b, <2>1 DEF ServePart, process, service
<1>4. CASE ServeReady(w) \/ ServeHeartbeat(w) \/ ServeNoWork(w) \/ ChooseLease(w)
             \/ ServeFailed(w) \/ ServeComplete(w)
  <2>1. /\ requests[w] # <<>> /\ requests' = Pop(requests, w) /\ own' = own
        /\ Head(requests[w]).kind # "register"
        /\ chosen = Nothing
    BY <1>4 DEF ServeReady, ServeHeartbeat, ServeNoWork, ChooseLease, ServeFailed, ServeComplete,
                Serving, Free, process
  <2>2. ~ServeRegister(w)
    BY <2>1 DEF ServeRegister, Serving
  <2>3. UNCHANGED <<session, pending>>
    BY <2>2, SessionsStay
  <2>4. chosen' = Nothing \/ (/\ chosen'.worker = w
                              /\ chosen'.session = Head(requests[w]).session
                              /\ pending'[w] = 0)
    <3>1. CASE ChooseLease(w)
      BY <2>3, <3>1 DEF ChooseLease, MayWork
    <3>2. CASE ~ChooseLease(w)
      BY <1>4, <2>1, <3>2 DEF ServeReady, ServeHeartbeat, ServeNoWork, ServeFailed, ServeComplete,
                              service
    <3> QED
      BY <3>1, <3>2
  <2>5. Latest(w)' = Latest(w) + 0
    BY <2>3, RegistrySessions DEF Latest
  <2> QED
    BY <1>c, <2>1, <2>3, <2>4, <2>5
<1> QED
  BY <1>1, <1>2, <1>3, <1>4 DEF Serve

LEMMA NextOrderInv ==
    ASSUME TypeInv, WireTypeInv, OrderInv, [NextService]_allVars
    PROVE  OrderInv'
<1>a. WireTypeOK
  BY DEF WireTypeInv
<1>b. Nothing.worker \notin Worker /\ NoPlan.worker \notin Worker
  BY WireAssumption DEF Nothing, NoPlan
<1>c. ASSUME UNCHANGED <<requests, own>>, \A v \in Worker : Latest(v)' = Latest(v),
             (chosen' = chosen /\ pending' = pending) \/ chosen'.worker \notin Worker
      PROVE  OrderInv'
  <2> SUFFICES ASSUME NEW v \in Worker PROVE InOrder(v)'
    BY DEF OrderInv
  <2>1. InOrder(v) /\ UNCHANGED <<requests[v], own[v], Latest(v)>>
    BY <1>c DEF OrderInv
  <2>2. chosen'.worker = v => chosen'.session = Latest(v) /\ pending'[v] = 0
    BY <1>c, <2>1 DEF InOrder
  <2> QED
    BY <2>1, <2>2, SameOrder
<1>d. ASSUME NEW w \in Worker, NEW m \in ControlMessage,
             requests' = [requests EXCEPT ![w] = Append(@, m)],
             own' = [own EXCEPT ![w] = m.session],
             m.session = own[w] + (IF m.kind = "register" THEN 1 ELSE 0),
             UNCHANGED <<vars, chosen>>
      PROVE  OrderInv'
  <2> SUFFICES ASSUME NEW v \in Worker PROVE InOrder(v)'
    BY DEF OrderInv
  <2>0. InOrder(v) /\ UNCHANGED <<Latest(v), session, pending>>
    BY <1>d DEF OrderInv, vars, registry, Latest
  <2>1. CASE v # w
    <3>1. UNCHANGED <<requests[v], own[v]>>
      BY <1>a, <1>d, <2>1, WireFacts
    <3> QED
      BY <1>d, <2>0, <3>1, SameOrder DEF InOrder
  <2>2. CASE v = w
    <3>1. requests[w] \in Seq(ControlMessage) /\ requests'[w] = Append(requests[w], m)
          /\ own'[w] = m.session
      BY <1>a, <1>d, WireFacts
    <3>2. Ordered(Append(requests[w], m), Latest(w), m.session)
      BY <1>d, <2>0, <2>2, <3>1, AppendOrdered DEF InOrder
    <3> QED
      BY <1>d, <2>0, <2>2, <3>1, <3>2 DEF InOrder
  <2> QED
    BY <2>1, <2>2
<1>1. ASSUME NEW w \in Worker, ProcessStep(w) PROVE OrderInv'
  <2>1. UNCHANGED vars /\ WireTypeInv'
    BY <1>1, ProcessTypes
  <2>2. UNCHANGED <<session, pending>> /\ \A v \in Worker : Latest(v)' = Latest(v)
    BY <2>1 DEF vars, registry, Latest
  <2>3. CASE UNCHANGED requests
    BY <1>1, <1>c, <2>2, <2>3, ProcessRequests
  <2>4. ASSUME NEW kind \in {"ready", "work", "heartbeat", "complete", "failed"},
               requests' = [requests EXCEPT ![w] = Append(@, Request(w, kind))]
        PROVE  OrderInv'
    <3>1. Request(w, kind) \in ControlMessage
      <4>1. requests'[w] \in Seq(ControlMessage) /\ requests[w] \in Seq(ControlMessage)
            /\ requests'[w] = Append(requests[w], Request(w, kind))
        BY <1>a, <2>1, <2>4 DEF WireTypeInv, WireTypeOK
      <4>2. requests'[w][Len(requests[w]) + 1] = Request(w, kind)
            /\ Len(requests[w]) + 1 \in DOMAIN requests'[w]
        BY <4>1
      <4> QED
        BY <4>1, <4>2
    <3>2. Request(w, kind).session = own[w] /\ Request(w, kind).kind # "register"
      BY DEF Request
    <3>3. own' = [own EXCEPT ![w] = own[w]] /\ own[w] \in Nat /\ chosen' = chosen
      BY <1>1, <1>a, ProcessRequests, WireFacts DEF WireTypeOK
    <3> DEFINE m == Request(w, kind)
    <3>4. /\ m \in ControlMessage /\ own' = [own EXCEPT ![w] = m.session]
          /\ m.session = own[w] + (IF m.kind = "register" THEN 1 ELSE 0)
          /\ requests' = [requests EXCEPT ![w] = Append(@, m)]
      BY <2>4, <3>1, <3>2, <3>3
    <3> HIDE DEF m
    <3> QED
      BY <1>d, <2>1, <3>3, <3>4
  <2> QED
    BY <1>1, <2>3, <2>4, ProcessRequests
<1>2. ASSUME NEW w \in Worker, Environment(w) PROVE OrderInv'
  <2>0. UNCHANGED vars
    BY <1>2, EnvironmentTypes
  <2>1. CASE StartProcess(w)
    <3> DEFINE m == [kind |-> "register", session |-> own[w] + 1, attempt |-> NoAttempt]
    <3>1. /\ m \in ControlMessage /\ m.session = own[w] + 1 /\ m.kind = "register"
          /\ requests' = [requests EXCEPT ![w] = Append(@, m)]
          /\ own' = [own EXCEPT ![w] = own[w] + 1]
          /\ chosen' = chosen
      BY <1>a, <2>1, WireFacts DEF StartProcess, ControlMessage, service
    <3> HIDE DEF m
    <3> QED
      BY <1>d, <2>0, <3>1
  <2>2. CASE Crash(w) \/ DropReply(w)
    <3>1. UNCHANGED <<requests, own, chosen>>
      BY <2>2 DEF Crash, DropReply, Exit, process, service
    <3>2. pending' = pending /\ \A v \in Worker : Latest(v)' = Latest(v)
      BY <2>0 DEF vars, registry, Latest
    <3> QED
      BY <1>c, <3>1, <3>2
  <2> QED
    BY <1>2, <2>1, <2>2 DEF Environment
<1>3. ASSUME NEW w \in Worker, Serve(w) PROVE OrderInv'
  BY <1>3, <1>a, ServeOrder
<1>4. CASE Maintain \/ Learner
  <2>1. UNCHANGED <<session, pending>>
    <3>1. CASE CompletionStep
      BY <3>1 DEF CompletionStep, FinalizeCompletion, RejectCompletion
    <3>2. CASE SweepStep
      BY <3>2 DEF SweepStep, ExpireWorkers
    <3>3. CASE Learner
      BY <3>3 DEF Learner, RequestLearnerReadyDrain, AbortWindow, StartCommit, FinishCommit,
                  FailCommit, ReleaseParts, registry
    <3> QED
      BY <1>4, <3>1, <3>2, <3>3 DEF Maintain
  <2>2. UNCHANGED <<requests, own, chosen>>
    BY <1>4 DEF Maintain, Learner, wireVars, process, channels, service
  <2> QED
    BY <1>c, <2>1, <2>2 DEF Latest
<1>5. CASE Boundary
  <2>1. UNCHANGED <<requests, own>> /\ chosen'.worker \notin Worker
    BY <1>5, <1>b DEF Boundary, Free, process, channels
  <2> QED
    BY <1>5, <1>c, <2>1, BoundarySessions DEF Boundary
<1>6. CASE AbortUnplanned
  <2>1. UNCHANGED <<requests, own, session, pending>> /\ chosen'.worker \notin Worker
    BY <1>6, <1>b DEF AbortUnplanned, AbortWindow, process, channels
  <2> QED
    BY <1>c, <2>1 DEF Latest
<1>7. CASE UNCHANGED allVars
  <2>1. UNCHANGED <<requests, own, chosen, session, pending>>
    BY <1>7 DEF allVars, wireVars, process, channels, service, vars, registry
  <2> QED
    BY <1>c, <2>1 DEF Latest
<1> QED
  BY <1>1, <1>2, <1>3, <1>4, <1>5, <1>6, <1>7 DEF NextService

LEMMA InitOrderInv == InitService => OrderInv
<1> SUFFICES ASSUME InitService, NEW w \in Worker PROVE InOrder(w)
  BY DEF OrderInv
<1>1. requests[w] = <<>> /\ own[w] = 0 /\ Latest(w) = 0 /\ chosen.worker # w
  BY WireAssumption DEF InitService, Init, Latest, Nothing
<1> QED
  BY <1>1 DEF InOrder, Ordered, Before

(***************************************************************************)
(* What becomes of an attempt that a message or a process names            *)
(***************************************************************************)

CurrentId(id) == id.window = window /\ Collecting

AttemptOf(id) == attempt[id.lease][id.try]

\* id is an attempt that has been started
Known(id) == id.window <= window /\ (CurrentId(id) => AttemptOf(id).state # "unstarted")

\* nothing more is expected from the process that holds id
Passed(id) == CurrentId(id) => AttemptOf(id).state \in {"completing", "finished"}

LEMMA IdStays ==
    ASSUME TypeInv, LifeInv, [Next]_vars \/ StaleStep, NEW id \in LeaseId, Known(id)
    PROVE  /\ Known(id)'
           /\ Passed(id) => Passed(id)'
           /\ CurrentId(id)' => CurrentId(id) /\ AttemptOf(id)'.owner = AttemptOf(id).owner
<1>1. id.lease \in Lease /\ id.try \in Try /\ id.window \in Nat /\ window \in Nat
  BY BoundAssumption DEF LeaseId, TypeInv, TypeOK
<1>3. CASE NewWindow
  BY <1>1, <1>3 DEF NewWindow, Known, Passed, CurrentId
<1>4. CASE /\ window' = window
           /\ Collecting' => Collecting
           /\ Lives(id.lease, id.try)
  <2>1. CurrentId(id)' => CurrentId(id)
    BY <1>4 DEF CurrentId
  <2>2. CASE Ages(attempt[id.lease][id.try], attempt'[id.lease][id.try])
    BY <1>4, <2>1, <2>2 DEF Ages, Known, Passed, AttemptOf
  <2>3. CASE /\ attempt[id.lease][id.try].state = "running"
             /\ attempt'[id.lease][id.try].state = "running"
             /\ attempt'[id.lease][id.try].owner = attempt[id.lease][id.try].owner
    BY <1>4, <2>1, <2>3 DEF Known, Passed, AttemptOf
  <2>4. CASE attempt[id.lease][id.try].state = "unstarted"
    BY <1>4, <2>1, <2>4 DEF Known, Passed, AttemptOf
  <2> QED
    BY <1>4, <2>2, <2>3, <2>4 DEF Lives, Keeps
<1> QED
  BY <1>1, <1>3, <1>4, AttemptsLive

LEMMA ServiceIdStays ==
    ASSUME ServiceInv, [NextService]_allVars, NEW id \in LeaseId, Known(id)
    PROVE  /\ Known(id)'
           /\ Passed(id) => Passed(id)'
           /\ CurrentId(id)' => CurrentId(id) /\ AttemptOf(id)'.owner = AttemptOf(id).owner
  BY StepOfCoordinator, IdStays DEF ServiceInv

(***************************************************************************)
(* A process and its messages agree                                        *)
(***************************************************************************)

KindOf ==
    [register |-> "register", ready |-> "ready", work |-> "work", poll |-> "heartbeat",
     beat |-> "heartbeat", final |-> "heartbeat", complete |-> "complete",
     failed |-> "failed"]

\* the request the process has sent in its state
Question(w) == [kind |-> KindOf[at[w]], session |-> own[w], attempt |-> held[w]]

\* An answer on which the process leaves its attempt says that the attempt
\* has passed, and a lease comes for a request for work.
Truthful(w, m) ==
    /\ m.kind = "lease" => at[w] = "work" /\ Known(m.attempt)
    /\ at[w] \in {"beat", "final"} /\ m.kind \in {"drain", "receipt"} => Passed(held[w])
    /\ at[w] = "complete" /\ m.kind = "wait" => Passed(held[w])
    /\ at[w] = "failed" => Passed(held[w])

Agree(w) ==
    /\ at[w] = "off" => held[w] = NoAttempt /\ ~discarding[w]
    /\ at[w] # "off" =>
         /\ \A m \in Range(requests[w]) : m.session = own[w] => m = Question(w)
         /\ \A m \in Range(uploads[w]) :
              m.session = own[w] => at[w] = "upload" /\ m.attempt = held[w]
         /\ chosen.worker = w /\ chosen.session = own[w] => at[w] = "work"
         /\ \A m \in Range(replies[w]) : Truthful(w, m)
         /\ at[w] = "upload" => \A m \in Range(acks[w]) : m.kind = "drain" => Passed(held[w])
         /\ at[w] \in LoopStates => held[w] = NoAttempt
         /\ at[w] \in AttemptStates => Known(held[w])
         /\ discarding[w] => at[w] \in AttemptStates /\ Passed(held[w])

AgreeInv == \A w \in Worker : Agree(w)

LEMMA RangeOfAppend ==
    ASSUME NEW S, NEW q \in Seq(S), NEW m
    PROVE  Range(Append(q, m)) = Range(q) \cup {m}
<1>1. /\ Len(q) \in Nat /\ DOMAIN q = 1 .. Len(q)
      /\ DOMAIN Append(q, m) = 1 .. (Len(q) + 1)
      /\ \A i \in 1 .. Len(q) : Append(q, m)[i] = q[i]
      /\ Append(q, m)[Len(q) + 1] = m
  OBVIOUS
<1>2. ASSUME NEW x \in Range(Append(q, m)) PROVE x \in Range(q) \cup {m}
  BY <1>1, <1>2 DEF Range
<1>3. ASSUME NEW x \in Range(q) \cup {m} PROVE x \in Range(Append(q, m))
  <2>1. CASE x = m
    <3>1. Len(q) + 1 \in DOMAIN Append(q, m)
      BY <1>1
    <3> QED
      BY <1>1, <2>1, <3>1 DEF Range
  <2>2. CASE x \in Range(q)
    BY <1>1, <2>2 DEF Range
  <2> QED
    BY <1>3, <2>1, <2>2
<1> QED
  BY <1>2, <1>3

LEMMA RangeOfTail ==
    ASSUME NEW S, NEW q \in Seq(S), q # <<>>
    PROVE  /\ Range(Tail(q)) \subseteq Range(q)
           /\ Head(q) \in Range(q)
           /\ Range(q) \subseteq S
<1>1. /\ Len(q) \in Nat /\ Len(q) > 0 /\ DOMAIN q = 1 .. Len(q)
      /\ DOMAIN Tail(q) = 1 .. (Len(q) - 1)
      /\ \A i \in 1 .. (Len(q) - 1) : Tail(q)[i] = q[i + 1]
      /\ Head(q) = q[1]
      /\ \A i \in 1 .. Len(q) : q[i] \in S
  OBVIOUS
<1>2. ASSUME NEW x \in Range(Tail(q)) PROVE x \in Range(q)
  <2>1. PICK i \in 1 .. (Len(q) - 1) : x = q[i + 1]
    BY <1>1, <1>2 DEF Range
  <2>2. i + 1 \in DOMAIN q
    BY <1>1
  <2> QED
    BY <2>1, <2>2 DEF Range
<1>3. 1 \in DOMAIN q
  BY <1>1
<1> QED
  BY <1>1, <1>2, <1>3 DEF Range

LEMMA RangeOfNone == Range(<<>>) = {}
<1>1. DOMAIN <<>> = {}
  OBVIOUS
<1> QED
  BY <1>1 DEF Range

\* no message of the running process is on its way to the coordinator
Silent(w) ==
    /\ \A m \in Range(requests[w]) : m.session # own[w]
    /\ ~(chosen.worker = w /\ chosen.session = own[w])

NothingSent(w) == \A m \in Range(uploads[w]) : m.session # own[w]

LEMMA NoneOfSession ==
    ASSUME NEW S, NEW q \in Seq(S), NEW x, Cardinality(Sent(q, x)) = 0
    PROVE  \A m \in Range(q) : m.session # x
<1>1. IsFiniteSet(Sent(q, x))
  BY SentFinite
<1>2. Sent(q, x) = {}
  BY <1>1, FS_EmptySet
<1> QED
  BY <1>2 DEF Sent, Range

LEMMA SingleMessage ==
    ASSUME NEW S, NEW q \in Seq(S), Len(q) = 1
    PROVE  Tail(q) = <<>> /\ Range(q) = {Head(q)}
<1>1. Tail(q) \in Seq(S) /\ Len(Tail(q)) = 0
  OBVIOUS
<1>2. Tail(q) = <<>>
  <2> DEFINE t == Tail(q)
  <2>1. t \in Seq(S) /\ Len(t) = 0
    BY <1>1
  <2> HIDE DEF t
  <2>2. t = <<>>
    BY <2>1
  <2> QED
    BY <2>2 DEF t
<1>3. DOMAIN q = {1} /\ Head(q) = q[1]
  OBVIOUS
<1> QED
  BY <1>2, <1>3 DEF Range

\* One answer at a time.
LEMMA OneAtATime ==
    ASSUME WireTypeOK, NEW w \in Worker, OneAnswer(w), at[w] # "off"
    PROVE  /\ at[w] \notin Waiting => Silent(w) /\ replies[w] = <<>>
           /\ replies[w] # <<>> => Silent(w) /\ Tail(replies[w]) = <<>>
                                   /\ Range(replies[w]) = {Head(replies[w])}
           /\ at[w] # "upload" => NothingSent(w) /\ acks[w] = <<>>
           /\ acks[w] # <<>> => NothingSent(w) /\ Tail(acks[w]) = <<>>
<1> DEFINE r == Cardinality(Sent(requests[w], own[w]))
           u == Cardinality(Sent(uploads[w], own[w]))
           a == Len(replies[w])
           b == Len(acks[w])
           c == IF chosen.worker = w /\ chosen.session = own[w] THEN 1 ELSE 0
<1>1. /\ requests[w] \in Seq(ControlMessage) /\ replies[w] \in Seq(Answer)
      /\ uploads[w] \in Seq(Part) /\ acks[w] \in Seq(PartAnswer)
  BY WireFacts
<1>2. /\ r \in Nat /\ u \in Nat /\ a \in Nat /\ b \in Nat /\ c \in {0, 1}
      /\ replies[w] = <<>> <=> a = 0
      /\ acks[w] = <<>> <=> b = 0
  BY <1>1, SentFinite
<1>3. /\ Outstanding(w) = r + a + c
      /\ Carried(w) = u + b
  BY DEF Outstanding, Carried, OnTheWay, Sent
<1>4. /\ r + a + c = IF at[w] \in Waiting THEN 1 ELSE 0
      /\ u + b = IF at[w] = "upload" THEN 1 ELSE 0
  BY <1>3 DEF OneAnswer
<1>5. /\ r = 0 /\ c = 0 => Silent(w)
      /\ u = 0 => NothingSent(w)
  <2>1. r = 0 => \A m \in Range(requests[w]) : m.session # own[w]
    BY <1>1, NoneOfSession
  <2>2. u = 0 => \A m \in Range(uploads[w]) : m.session # own[w]
    BY <1>1, NoneOfSession
  <2>3. c = 0 => ~(chosen.worker = w /\ chosen.session = own[w])
    OBVIOUS
  <2> HIDE DEF r, u, c
  <2> QED
    BY <2>1, <2>2, <2>3 DEF Silent, NothingSent
<1>6. /\ a = 1 => Tail(replies[w]) = <<>> /\ Range(replies[w]) = {Head(replies[w])}
      /\ b = 1 => Tail(acks[w]) = <<>>
  BY <1>1, SingleMessage
<1> HIDE DEF r, u, a, b, c
<1>7. /\ at[w] \notin Waiting => r = 0 /\ c = 0 /\ a = 0
      /\ a # 0 => r = 0 /\ c = 0 /\ a = 1
      /\ at[w] # "upload" => u = 0 /\ b = 0
      /\ b # 0 => u = 0 /\ b = 1
  BY <1>2, <1>4
<1> QED
  BY <1>2, <1>5, <1>6, <1>7

\* A process that has taken its answer, or that waited for none, goes on.
LEMMA AgreeAfter ==
    ASSUME WireTypeOK, NEW w \in Worker, Silent(w), UNCHANGED <<vars, own, chosen>>,
           replies'[w] = <<>>, acks'[w] = <<>>,
           requests'[w] = requests[w] \/ requests'[w] = Append(requests[w], Question(w)'),
           \A m \in Range(uploads'[w]) :
              m.session = own[w] => at'[w] = "upload" /\ m.attempt = held'[w],
           at'[w] # "off",
           at'[w] \in LoopStates => held'[w] = NoAttempt,
           at'[w] \in AttemptStates => Known(held'[w]),
           discarding'[w] => at'[w] \in AttemptStates /\ Passed(held'[w])
    PROVE  Agree(w)'
<1>1. /\ \A id : Known(id)' <=> Known(id)
      /\ \A id : Passed(id)' <=> Passed(id)
  BY DEF Known, Passed, CurrentId, AttemptOf, Collecting, vars, windowState
<1>2. requests[w] \in Seq(ControlMessage)
  BY WireFacts
<1>3. \A m \in Range(requests'[w]) : m.session = own'[w] => m = Question(w)'
  <2>1. Range(requests'[w]) \subseteq Range(requests[w]) \cup {Question(w)'}
    BY <1>2, RangeOfAppend
  <2> QED
    BY <2>1 DEF Silent
<1>4. Range(replies'[w]) = {} /\ Range(acks'[w]) = {}
  BY RangeOfNone
<1> QED
  BY <1>1, <1>3, <1>4 DEF Agree, Silent

\* A step of the process of w: w agrees with its messages afterwards, and it
\* keeps its attempt, had none or leaves one that has passed.
LEMMA ProcessAgrees ==
    ASSUME MaxFaults = 0, WireTypeInv, AnswerInv, AgreeInv, NEW w \in Worker, ProcessStep(w)
    PROVE  /\ Agree(w)'
           /\ at'[w] # "off" => /\ own' = own
                                /\ \/ held'[w] = held[w]
                                   \/ at[w] \in LoopStates
                                   \/ Passed(held[w])
<1> USE DEF WireTypeInv
<1>a. /\ WireTypeOK /\ HoldsLease /\ faults = 0 /\ OneAnswer(w) /\ Agree(w)
      /\ UNCHANGED <<vars, chosen>>
  <2>1. WireTypeOK /\ HoldsLease
    OBVIOUS
  <2>2. faults = 0
    BY <2>1 DEF WireTypeOK
  <2>3. OneAnswer(w) /\ Agree(w)
    BY DEF AnswerInv, AgreeInv
  <2>4. UNCHANGED vars
    BY ProcessTypes
  <2>5. UNCHANGED chosen
    BY ProcessRequests
  <2> QED
    BY <2>1, <2>2, <2>3, <2>4, <2>5
<1>b. /\ LoopStates = {"register", "ready", "work", "poll"}
      /\ Waiting = {"register", "ready", "work", "poll", "beat", "final", "complete", "failed"}
      /\ AttemptStates = {"collect", "upload", "beat", "final", "complete", "failed"}
  BY DEF Waiting, LoopStates, AttemptStates
<1>d. /\ requests[w] \in Seq(ControlMessage) /\ replies[w] \in Seq(Answer)
      /\ DOMAIN requests = Worker /\ DOMAIN replies = Worker /\ DOMAIN uploads = Worker
      /\ DOMAIN acks = Worker /\ DOMAIN at = Worker /\ DOMAIN own = Worker
      /\ DOMAIN held = Worker /\ DOMAIN discarding = Worker /\ DOMAIN sent = Worker
      /\ discarding[w] \in BOOLEAN
  BY <1>a DEF WireTypeOK
<1>e. ASSUME at[w] # "off", replies[w] # <<>>
      PROVE  /\ Silent(w) /\ Tail(replies[w]) = <<>> /\ Range(replies[w]) = {Head(replies[w])}
             /\ Truthful(w, Head(replies[w]))
             /\ at[w] # "upload" => acks[w] = <<>>
             /\ \A m \in Range(uploads[w]) :
                  m.session = own[w] => at[w] = "upload" /\ m.attempt = held[w]
             /\ at[w] # "upload" => \A m \in Range(uploads[w]) : m.session # own[w]
  <2>1. /\ Silent(w) /\ Tail(replies[w]) = <<>> /\ Range(replies[w]) = {Head(replies[w])}
        /\ at[w] # "upload" => NothingSent(w) /\ acks[w] = <<>>
    BY <1>a, <1>e, OneAtATime
  <2> QED
    BY <1>a, <1>e, <2>1 DEF Agree, NothingSent
\* the loop
<1>1. CASE LoopRaises(w) \/ TimeoutInLoop(w)
  <2>1. at'[w] = "off" /\ held'[w] = NoAttempt /\ ~discarding'[w]
    BY <1>1, <1>d DEF LoopRaises, TimeoutInLoop, Exit
  <2> QED
    BY <2>1 DEF Agree
<1>2. CASE Registered(w) \/ Poll(w)
  <2>1. /\ at[w] \in {"register", "work"} /\ replies[w] # <<>>
        /\ replies'[w] = Tail(replies[w]) /\ UNCHANGED <<process, uploads, acks>>
        /\ at'[w] \in {"ready", "poll"}
        /\ \E kind : /\ requests'[w] = Append(requests[w], Request(w, kind))
                     /\ kind = KindOf[at'[w]]
    BY <1>2, <1>d DEF Registered, Poll, Answered, Pop, Ask, KindOf
  <2>2. held[w] = NoAttempt /\ ~discarding[w] /\ at[w] # "off"
    BY <1>a, <1>b, <2>1 DEF Agree
  <2>3. requests'[w] = Append(requests[w], Question(w)')
    BY <2>1, <2>2 DEF Request, Question, process, NoAttempt
  <2>4. Agree(w)'
    BY <1>a, <1>b, <1>e, <2>1, <2>2, <2>3, AgreeAfter DEF process
  <2> QED
    BY <2>1, <2>4 DEF process
<1>3. CASE TakeLease(w)
  <2>1. /\ at[w] = "work" /\ replies[w] # <<>> /\ Head(replies[w]).kind = "lease"
        /\ replies'[w] = Tail(replies[w]) /\ at'[w] = "collect"
        /\ held'[w] = Head(replies[w]).attempt
        /\ UNCHANGED <<own, discarding, requests, uploads, acks>>
    BY <1>3, <1>d DEF TakeLease, Answered, Pop
  <2>2. ~discarding[w] /\ at[w] # "off" /\ Known(held'[w])
    BY <1>a, <1>b, <1>e, <2>1 DEF Agree, Truthful
  <2>4. Agree(w)'
    BY <1>a, <1>b, <1>e, <2>1, <2>2, AgreeAfter
  <2> QED
    BY <1>b, <2>1, <2>4
<1>4. ASSUME AskForWork(w), at[w] \in Waiting, replies[w] # <<>>, replies' = Pop(replies, w),
             UNCHANGED <<uploads, acks>>
      PROVE  Agree(w)' /\ own' = own
  <2>1. /\ at'[w] = "work" /\ held'[w] = NoAttempt /\ discarding'[w] = FALSE /\ own' = own
        /\ replies'[w] = Tail(replies[w])
        /\ requests'[w] = Append(requests[w], Request(w, "work"))
    BY <1>4, <1>d DEF AskForWork, Ask, Pop
  <2>2. requests'[w] = Append(requests[w], Question(w)')
    BY <2>1 DEF Request, Question, KindOf
  <2>3. at[w] # "off" /\ at[w] # "upload"
    BY <1>4, <1>b
  <2> QED
    BY <1>a, <1>b, <1>e, <1>4, <2>1, <2>2, <2>3, AgreeAfter
<1>5. CASE LoopAgain(w)
  <2>1. at[w] \in LoopStates /\ AskForWork(w) /\ replies[w] # <<>> /\ replies' = Pop(replies, w)
        /\ UNCHANGED <<uploads, acks>>
    BY <1>5 DEF LoopAgain, Answered, LoopStates
  <2> QED
    BY <1>b, <1>4, <2>1
\* the attempt
<1>6. ASSUME NEW s \in {"beat", "final", "complete", "failed"}, Ask(w, s, KindOf[s]),
             UNCHANGED process, at[w] \in AttemptStates, Silent(w),
             replies'[w] = <<>>, acks'[w] = <<>>,
             \A m \in Range(uploads'[w]) : m.session # own[w]
      PROVE  Agree(w)' /\ own' = own /\ held'[w] = held[w]
  <2>1. /\ at'[w] = s
        /\ requests'[w] = Append(requests[w], Request(w, KindOf[s]))
    BY <1>6, <1>d DEF Ask
  <2>2. requests'[w] = Append(requests[w], Question(w)')
    BY <1>6, <2>1 DEF Request, Question, KindOf, process
  <2>3. Known(held[w]) /\ (discarding[w] => Passed(held[w]))
    BY <1>a, <1>b, <1>6 DEF Agree
  <2> QED
    BY <1>a, <1>b, <1>6, <2>1, <2>2, <2>3, AgreeAfter DEF process
<1>7. CASE CollectionRaises(w) \/ Heartbeat(w)
  <2>1. at[w] = "collect" /\ UNCHANGED <<process, replies, uploads, acks>>
    BY <1>7 DEF CollectionRaises, Heartbeat, ReportFailure
  <2>2. Silent(w) /\ replies[w] = <<>> /\ NothingSent(w) /\ acks[w] = <<>>
    BY <1>a, <1>b, <2>1, OneAtATime
  <2>3. \E s \in {"beat", "final", "failed"} : Ask(w, s, KindOf[s])
    BY <1>7 DEF CollectionRaises, Heartbeat, ReportFailure, KindOf
  <2> QED
    BY <1>b, <1>6, <2>1, <2>2, <2>3 DEF NothingSent
<1>8. CASE Upload(w)
  <2> DEFINE p == [attempt |-> held[w], part |-> sent[w], session |-> own[w]]
  <2>1. /\ at[w] = "collect" /\ ~discarding[w] /\ at'[w] = "upload"
        /\ uploads'[w] = Append(uploads[w], p)
        /\ UNCHANGED <<process, requests, replies, acks>>
    BY <1>8, <1>d DEF Upload
  <2>2. Silent(w) /\ replies[w] = <<>> /\ NothingSent(w) /\ acks[w] = <<>>
    BY <1>a, <1>b, <2>1, OneAtATime
  <2>3. Range(uploads'[w]) = Range(uploads[w]) \cup {p}
    BY <1>a, <2>1, RangeOfAppend, WireFacts
  <2>4. Known(held[w])
    BY <1>a, <1>b, <2>1 DEF Agree
  <2>6. /\ own' = own /\ held'[w] = held[w] /\ ~discarding'[w]
        /\ replies'[w] = <<>> /\ acks'[w] = <<>> /\ requests'[w] = requests[w]
    BY <2>1, <2>2 DEF process
  <2>7. \A m \in Range(uploads'[w]) :
          m.session = own[w] => at'[w] = "upload" /\ m.attempt = held'[w]
    BY <2>1, <2>2, <2>3, <2>6 DEF NothingSent
  <2>8. at'[w] # "off" /\ at'[w] \notin LoopStates /\ Known(held'[w])
    BY <1>b, <2>1, <2>4, <2>6
  <2> HIDE DEF p
  <2>5. Agree(w)'
    BY <1>a, <2>2, <2>6, <2>7, <2>8, AgreeAfter
  <2> QED
    BY <2>5, <2>6
<1>9. CASE Uploaded(w)
  <2>1. /\ at[w] = "upload" /\ acks[w] # <<>> /\ acks'[w] = Tail(acks[w])
        /\ UNCHANGED <<own, held, replies, uploads>>
    BY <1>9, <1>d DEF Uploaded, Pop, ReportFailure, process
  <2>2. /\ Silent(w) /\ replies[w] = <<>> /\ NothingSent(w) /\ acks'[w] = <<>>
        /\ Head(acks[w]) \in Range(acks[w])
    BY <1>a, <1>b, <2>1, OneAtATime, RangeOfTail, WireFacts
  <2>3. Known(held[w]) /\ (discarding[w] => Passed(held[w]))
        /\ (Head(acks[w]).kind = "drain" => Passed(held[w]))
    BY <1>a, <1>b, <2>1, <2>2 DEF Agree
  <2>4. CASE at' = [at EXCEPT ![w] = "collect"] /\ UNCHANGED requests
    <3>1. at'[w] = "collect"
      BY <1>d, <2>4
    <3>2. discarding'[w] => discarding[w] \/ Head(acks[w]).kind = "drain"
      BY <1>9, <1>d DEF Uploaded, ReportFailure, process
    <3>3. Agree(w)'
      BY <1>a, <1>b, <2>1, <2>2, <2>3, <2>4, <3>1, <3>2, AgreeAfter DEF NothingSent
    <3> QED
      BY <2>1, <3>3
  <2>5. CASE ReportFailure(w)
    <3>1. Ask(w, "failed", KindOf["failed"]) /\ UNCHANGED process
      BY <2>5 DEF ReportFailure, KindOf
    <3> QED
      BY <1>b, <1>6, <2>1, <2>2, <3>1 DEF NothingSent
  <2> QED
    BY <1>9, <2>4, <2>5 DEF Uploaded
<1>10. CASE Beaten(w)
  <2>1. /\ at[w] = "beat" /\ replies[w] # <<>> /\ replies'[w] = Tail(replies[w])
        /\ at'[w] = "collect"
        /\ discarding'[w] => discarding[w] \/ Head(replies[w]).kind \in {"drain", "receipt"}
        /\ UNCHANGED <<own, held, requests, uploads, acks>>
    BY <1>10, <1>d DEF Beaten, Answered, Pop, Discards
  <2>2. Known(held[w]) /\ (discarding'[w] => Passed(held[w]))
    BY <1>a, <1>b, <1>e, <2>1 DEF Agree, Truthful
  <2>3. Agree(w)'
    BY <1>a, <1>b, <1>e, <2>1, <2>2, AgreeAfter
  <2> QED
    BY <2>1, <2>3
<1>11. CASE Collected(w)
  <2>1. at[w] = "final" /\ replies[w] # <<>> /\ replies' = Pop(replies, w)
        /\ UNCHANGED <<uploads, acks>>
    BY <1>11 DEF Collected, Answered
  <2>2. CASE (discarding[w] \/ Discards(w, "final")) /\ AskForWork(w)
    <3>1. Passed(held[w])
      BY <1>a, <1>b, <1>e, <2>1, <2>2 DEF Agree, Truthful, Discards, Answered
    <3> QED
      BY <1>b, <1>4, <2>1, <2>2, <3>1
  <2>3. CASE Ask(w, "complete", "complete") /\ UNCHANGED process
    <3>1. Ask(w, "complete", KindOf["complete"]) /\ replies'[w] = Tail(replies[w])
      BY <1>d, <2>1, <2>3 DEF KindOf, Pop
    <3> QED
      BY <1>b, <1>e, <1>6, <2>1, <2>3, <3>1
  <2> QED
    BY <1>11, <2>2, <2>3 DEF Collected
<1>12. CASE AttemptRaises(w)
  <2>1. /\ at[w] \in {"beat", "final", "complete"} /\ replies[w] # <<>>
        /\ replies'[w] = Tail(replies[w])
        /\ Ask(w, "failed", KindOf["failed"]) /\ UNCHANGED <<process, uploads, acks>>
    BY <1>12, <1>d DEF AttemptRaises, Answered, Pop, ReportFailure, KindOf
  <2> QED
    BY <1>b, <1>e, <1>6, <2>1
<1>13. CASE AttemptEnds(w)
  <2>1. /\ \/ at[w] = "complete" /\ Head(replies[w]).kind = "wait"
           \/ at[w] = "failed"
        /\ replies[w] # <<>> /\ replies' = Pop(replies, w)
        /\ AskForWork(w) /\ UNCHANGED <<uploads, acks>>
    BY <1>13 DEF AttemptEnds, Answered
  <2>2. Passed(held[w])
    BY <1>b, <1>e, <2>1 DEF Truthful
  <2> QED
    BY <1>b, <1>4, <2>1, <2>2
<1>14. ~TimeoutInAttempt(w) /\ ~TimeoutInReport(w)
  BY NoTimeouts, <1>a
<1> QED
  BY <1>1, <1>2, <1>3, <1>5, <1>7, <1>8, <1>9, <1>10, <1>11, <1>12, <1>13, <1>14 DEF ProcessStep

\* What a worker agrees to, the steps of others and of the coordinator keep.
LEMMA AgreeStays ==
    ASSUME ServiceInv, [NextService]_allVars, NEW v \in Worker, Agree(v),
           UNCHANGED <<at[v], own[v], held[v], discarding[v]>>,
           Range(requests'[v]) \subseteq Range(requests[v]),
           Range(uploads'[v]) \subseteq Range(uploads[v]),
           at[v] # "off" =>
             /\ \A m \in Range(replies'[v]) \ Range(replies[v]) : Truthful(v, m)'
             /\ \A m \in Range(acks'[v]) \ Range(acks[v]) :
                  at[v] = "upload" /\ m.kind = "drain" => Passed(held[v])'
             /\ chosen'.worker = v /\ chosen'.session = own[v] => at[v] = "work"
    PROVE  Agree(v)'
<1> SUFFICES ASSUME at[v] # "off" PROVE Agree(v)'
  BY DEF Agree
<1>1. \A id \in LeaseId : Known(id) => Known(id)' /\ (Passed(id) => Passed(id)')
  BY ServiceIdStays
<1>2. WireTypeOK /\ HoldsLease
  BY DEF ServiceInv, WireTypeInv
<1>3. /\ \A m \in Range(replies[v]) : m.kind = "lease" => m.attempt \in LeaseId
      /\ at[v] \in AttemptStates => held[v] \in LeaseId
  <2>1. replies[v] \in Seq(Answer)
    BY <1>2, WireFacts
  <2>2. \A i \in DOMAIN replies[v] : replies[v][i] \in Answer
    BY <2>1
  <2>3. \A m \in Answer : m.kind = "lease" => m.attempt \in LeaseId
    BY DEF Answer
  <2> QED
    BY <1>2, <2>2, <2>3 DEF HoldsLease, Range
<1>4. PICK h : h = held[v]
  OBVIOUS
<1>5. /\ Known(h) <=> Known(held[v])
      /\ Known(h)' <=> Known(held[v])'
      /\ Passed(h) <=> Passed(held[v])
      /\ Passed(h)' <=> Passed(held[v])'
  BY <1>4 DEF Known, Passed, CurrentId, AttemptOf
<1>6. at[v] \in AttemptStates =>
        Known(held[v])' /\ (Passed(held[v]) => Passed(held[v])')
  BY <1>1, <1>3, <1>4, <1>5 DEF Agree
<1>b. /\ LoopStates = {"register", "ready", "work", "poll"}
      /\ AttemptStates = {"collect", "upload", "beat", "final", "complete", "failed"}
  BY DEF LoopStates, AttemptStates
<1>7. ASSUME NEW m \in Range(replies[v]) PROVE Truthful(v, m)'
  <2>1. Truthful(v, m)
    BY DEF Agree
  <2>2. m.kind = "lease" => Known(m.attempt)'
    BY <1>1, <1>3, <2>1 DEF Truthful
  <2>3. /\ at[v] \in {"beat", "final"} /\ m.kind \in {"drain", "receipt"} => Passed(held[v])'
        /\ at[v] = "complete" /\ m.kind = "wait" => Passed(held[v])'
        /\ at[v] = "failed" => Passed(held[v])'
    BY <1>6, <1>b, <2>1 DEF Truthful
  <2> QED
    BY <2>1, <2>2, <2>3 DEF Truthful
<1>8. \A m \in Range(replies'[v]) : Truthful(v, m)'
  BY <1>7
<1>9. \A m \in Range(acks'[v]) : at[v] = "upload" /\ m.kind = "drain" => Passed(held[v])'
  BY <1>6, <1>b DEF Agree
<1>10. \A m \in Range(requests'[v]) : m.session = own[v] => m = Question(v)'
  BY DEF Agree, Question
<1>11. \A m \in Range(uploads'[v]) :
         m.session = own[v] => at[v] = "upload" /\ m.attempt = held[v]
  BY DEF Agree
<1>12. /\ at[v] \in LoopStates => held[v] = NoAttempt
       /\ at[v] \in AttemptStates => Known(held[v])'
       /\ discarding[v] => at[v] \in AttemptStates /\ Passed(held[v])'
  BY <1>6 DEF Agree
<1> QED
  BY <1>8, <1>9, <1>10, <1>11, <1>12 DEF Agree

\* What serving a message leaves alone.
LEMMA ServeFrame ==
    ASSUME WireTypeOK, NEW w \in Worker, Serve(w)
    PROVE  /\ UNCHANGED <<at, process>>
           /\ \A v \in Worker : /\ Range(requests'[v]) \subseteq Range(requests[v])
                                /\ Range(uploads'[v]) \subseteq Range(uploads[v])
           /\ \A v \in Worker \ {w} : /\ UNCHANGED <<replies[v], acks[v]>>
                                      /\ chosen'.worker = v => chosen' = chosen
<1>a. Nothing.worker \notin Worker
  BY WireAssumption DEF Nothing
<1>b. ASSUME requests[w] # <<>>, requests' = Pop(requests, w)
      PROVE  \A v \in Worker : Range(requests'[v]) \subseteq Range(requests[v])
  <2>1. Range(Tail(requests[w])) \subseteq Range(requests[w])
    BY <1>b, RangeOfTail, WireFacts
  <2> QED
    BY <1>b, <2>1, WireFacts DEF Pop
<1>c. ASSUME uploads[w] # <<>>, uploads' = Pop(uploads, w)
      PROVE  \A v \in Worker : Range(uploads'[v]) \subseteq Range(uploads[v])
  <2>1. Range(Tail(uploads[w])) \subseteq Range(uploads[w])
    BY <1>c, RangeOfTail, WireFacts
  <2> QED
    BY <1>c, <2>1, WireFacts DEF Pop
<1>d. \A s, kind, a : Reply(w, s, kind, a) =>
        \A v \in Worker \ {w} : UNCHANGED replies[v]
  BY WireFacts DEF Reply
<1>1. CASE ServeRegister(w) \/ ServeReady(w)
  BY <1>1, <1>b, <1>d DEF ServeRegister, ServeReady, Serving, Served, process, service
<1>2. CASE ServeHeartbeat(w) \/ ServeFailed(w) \/ ServeComplete(w)
  BY <1>2, <1>b, <1>d DEF ServeHeartbeat, ServeFailed, ServeComplete, Serving, Served, process, service
<1>3. CASE ServeNoWork(w)
  BY <1>3, <1>b, <1>d DEF ServeNoWork, SettledReply, Serving, process
<1>4. CASE ChooseLease(w)
  BY <1>4, <1>b DEF ChooseLease, Serving, process
<1>5. CASE StartChosen(w) \/ ChosenRefused(w)
  BY <1>5, <1>a, <1>d DEF StartChosen, ChosenRefused, SettledReply, process
<1>6. CASE ServePart(w)
  <2>1. \A v \in Worker \ {w} : UNCHANGED acks[v]
    BY <1>6, WireFacts DEF ServePart
  <2> QED
    BY <1>6, <1>c, <2>1 DEF ServePart, process, service
<1> QED
  BY <1>1, <1>2, <1>3, <1>4, <1>5, <1>6 DEF Serve

LEMMA NewReply ==
    ASSUME WireTypeOK, NEW w \in Worker, NEW s, NEW kind, NEW a, Reply(w, s, kind, a)
    PROVE  \A m \in Range(replies'[w]) \ Range(replies[w]) :
             at[w] # "off" /\ own[w] = s /\ m = [kind |-> kind, attempt |-> a]
<1>1. CASE at[w] # "off" /\ own[w] = s
  <2>1. replies'[w] = Append(replies[w], [kind |-> kind, attempt |-> a])
    BY <1>1, WireFacts DEF Reply
  <2>2. Range(replies'[w]) = Range(replies[w]) \cup {[kind |-> kind, attempt |-> a]}
    BY <2>1, WireFacts, RangeOfAppend
  <2> QED
    BY <1>1, <2>2
<1>2. CASE ~(at[w] # "off" /\ own[w] = s)
  BY <1>2 DEF Reply
<1> QED
  BY <1>1, <1>2

\* The request that is served for the running process is its question.
LEMMA AskedBy ==
    ASSUME WireTypeOK, NEW w \in Worker, OneAnswer(w), Agree(w), at[w] # "off",
           requests[w] # <<>>, Head(requests[w]).session = own[w]
    PROVE  /\ Head(requests[w]) = Question(w)
           /\ Head(requests[w]).kind = "register" => at[w] = "register"
           /\ Head(requests[w]).kind = "ready" => at[w] = "ready"
           /\ Head(requests[w]).kind = "work" => at[w] = "work"
           /\ Head(requests[w]).kind = "heartbeat" => at[w] \in {"poll", "beat", "final"}
           /\ Head(requests[w]).kind = "complete" => at[w] = "complete"
           /\ Head(requests[w]).kind = "failed" => at[w] = "failed"
<1>1. Head(requests[w]) \in Range(requests[w])
  BY RangeOfTail, WireFacts
<1>2. at[w] \in Waiting
  BY <1>1, OneAtATime DEF Silent
<1>3. Head(requests[w]) = Question(w)
  BY <1>1 DEF Agree
<1>4. Head(requests[w]).kind = KindOf[at[w]]
  BY <1>3 DEF Question
<1> QED
  BY <1>2, <1>3, <1>4 DEF KindOf, Waiting, LoopStates

LEMMA TombstonePassed ==
    ASSUME TombstonesEnded, NEW id, Tombstoned(id)
    PROVE  Passed(id)
  BY DEF TombstonesEnded, Tombstoned, Passed, CurrentId, AttemptOf

\* An attempt that is not the live one of its lease any more has ended.
LEMMA UnnamedPassed ==
    ASSUME TypeInv, LifeInv, NEW id \in LeaseId, Known(id), ~Names(id)
    PROVE  Passed(id)
<1> SUFFICES ASSUME CurrentId(id) PROVE AttemptOf(id).state \in {"completing", "finished"}
  BY DEF Passed
<1>1. /\ id.lease \in Lease /\ id.try \in Try
      /\ attempt[id.lease][id.try] \in Attempt
      /\ tries[id.lease] \in 0 .. MaximumAttempts
  BY BoundAssumption DEF LeaseId, TypeInv, TypeOK, AttemptMap
<1>2. attempt[id.lease][id.try].state # "unstarted"
  BY DEF Known, AttemptOf
<1>3. ~(id.try > tries[id.lease])
  BY <1>1, <1>2 DEF LifeInv, Counted
<1>4. attempt[id.lease][id.try].state \in LiveStates => id.try = tries[id.lease]
  BY <1>1 DEF LifeInv, OneLive
<1>5. id.try = tries[id.lease] => attempt[id.lease][id.try].state \notin LiveStates
  <2>1. id.try \in Nat /\ id.try > 0
    BY <1>1, BudgetAssumption DEF Try
  <2> QED
    BY <1>1, <2>1 DEF Names, Live, Current, CurrentId, LiveStates
<1> QED
  BY <1>1, <1>2, <1>4, <1>5 DEF Attempt, LiveStates, AttemptOf

\* The failure of an attempt, and its completion, end it for its process.
LEMMA EndsPass ==
    ASSUME ServiceInv, [NextService]_allVars, NEW id \in LeaseId, Known(id),
           \/ Passed(id)
           \/ Tombstoned(id)
           \/ ~Names(id)
           \/ FailAttempt(id.lease)
           \/ ReserveCompletion(id.lease)
    PROVE  Passed(id)'
<1>0. TypeInv /\ LifeInv
  BY DEF ServiceInv
<1>1. CASE Passed(id) \/ Tombstoned(id) \/ ~Names(id)
  <2>1. Passed(id)
    BY <1>0, <1>1, TombstonePassed, UnnamedPassed DEF LifeInv
  <2> QED
    BY <2>1, ServiceIdStays
<1>2. /\ id.lease \in Lease /\ id.try \in Try
      /\ attempt \in [Lease -> [Try -> Attempt]]
  BY <1>0, BoundAssumption DEF LeaseId, TypeInv, TypeOK, AttemptMap
<1>3. CASE Names(id) /\ FailAttempt(id.lease)
  <2>1. /\ id.try = tries[id.lease]
        /\ attempt[id.lease][id.try].state # "unstarted"
    BY <1>3 DEF Names, Live, Current
  <2>2. attempt'[id.lease] = [attempt[id.lease] EXCEPT ![tries[id.lease]] = Cleared(@)]
    BY <1>2, <1>3 DEF FailAttempt, Fail
  <2>3. attempt'[id.lease][id.try] = Cleared(attempt[id.lease][id.try])
    BY <1>2, <2>1, <2>2
  <2>4. Cleared(attempt[id.lease][id.try]).state = "finished"
    BY <1>2, <2>1 DEF Cleared, Attempt
  <2> QED
    BY <2>3, <2>4 DEF Passed, AttemptOf
<1>4. CASE Names(id) /\ ReserveCompletion(id.lease)
  <2>1. id.try = tries[id.lease]
    BY <1>4 DEF Names
  <2>2. attempt' = [attempt EXCEPT ![id.lease][tries[id.lease]].state = "completing"]
    BY <1>4 DEF ReserveCompletion
  <2>3. attempt'[id.lease][id.try].state = "completing"
    BY <1>2, <2>1, <2>2 DEF Attempt
  <2> QED
    BY <2>3 DEF Passed, AttemptOf
<1> QED
  BY <1>1, <1>3, <1>4

\* A new reply tells the process the truth about its attempt.
LEMMA ServeTruthful ==
    ASSUME ServiceInv, AnswerInv, AgreeInv, NEW w \in Worker, Serve(w), at[w] # "off",
           NEW m \in Range(replies'[w]) \ Range(replies[w])
    PROVE  Truthful(w, m)'
<1>0. /\ WireTypeOK /\ HoldsLease /\ TypeInv /\ LifeInv /\ OneAnswer(w) /\ Agree(w)
      /\ [NextService]_allVars
  BY DEF ServiceInv, WireTypeInv, AnswerInv, AgreeInv, NextService
<1>1. at'[w] = at[w] /\ held'[w] = held[w]
  BY <1>0, ServeFrame DEF process
<1>2. PICK h : h = held[w]
  OBVIOUS
<1>3. Passed(h)' <=> Passed(held[w])'
  BY <1>1, <1>2 DEF Passed, CurrentId, AttemptOf
<1>4. at[w] \in AttemptStates => h \in LeaseId /\ Known(h)
  BY <1>0, <1>2 DEF HoldsLease, Agree
<1>5. ASSUME at[w] \in AttemptStates,
             \/ Passed(h) \/ Tombstoned(h) \/ ~Names(h)
             \/ FailAttempt(h.lease) \/ ReserveCompletion(h.lease)
      PROVE  Passed(held[w])'
  BY <1>0, <1>3, <1>4, <1>5, EndsPass
<1>6. ASSUME NEW kind, requests[w] # <<>>, Head(requests[w]).kind = kind,
             NEW k, NEW a, Reply(w, Head(requests[w]).session, k, a)
      PROVE  /\ Head(requests[w]) = Question(w)
             /\ Head(requests[w]).attempt = h
             /\ m = [kind |-> k, attempt |-> a]
             /\ kind = "register" => at[w] = "register"
             /\ kind = "ready" => at[w] = "ready"
             /\ kind = "work" => at[w] = "work"
             /\ kind = "heartbeat" => at[w] \in {"poll", "beat", "final"}
             /\ kind = "complete" => at[w] = "complete"
             /\ kind = "failed" => at[w] = "failed"
  <2>1. /\ own[w] = Head(requests[w]).session
        /\ m = [kind |-> k, attempt |-> a]
    BY <1>0, <1>6, NewReply
  <2> QED
    BY <1>0, <1>2, <1>6, <2>1, AskedBy DEF Question
<1>b. AttemptStates = {"collect", "upload", "beat", "final", "complete", "failed"}
  BY DEF AttemptStates
<1>7. CASE ServeRegister(w)
  <2>1. at[w] = "register" /\ m.kind = "wait"
    BY <1>6, <1>7 DEF ServeRegister, Serving, Served
  <2> QED
    BY <1>1, <2>1 DEF Truthful
<1>8. CASE ServeReady(w)
  <2>1. at[w] = "ready" /\ m.kind = "wait"
    BY <1>6, <1>8 DEF ServeReady, Serving, Served
  <2> QED
    BY <1>1, <2>1 DEF Truthful
<1>9. CASE ServeHeartbeat(w)
  <2>1. requests[w] # <<>> /\ Head(requests[w]).kind = "heartbeat"
    BY <1>9 DEF ServeHeartbeat, Serving
  <2>2. CASE /\ Settled
             /\ Served(w, "receipt", Receipt)
    <3>1. at[w] \in {"poll", "beat", "final"} /\ m.kind = "receipt"
      BY <1>6, <2>1, <2>2 DEF Served
    <3>2. Passed(h)
      BY <2>2 DEF Passed, CurrentId, Collecting, Settled
    <3> QED
      BY <1>1, <1>5, <1>b, <3>1, <3>2 DEF Truthful
  <2>3. CASE Served(w, IF Tombstoned(Head(requests[w]).attempt) THEN "drain" ELSE "wait",
                    NoAttempt)
    <3>1. /\ at[w] \in {"poll", "beat", "final"}
          /\ m.kind = IF Tombstoned(h) THEN "drain" ELSE "wait"
      BY <1>6, <2>1, <2>3 DEF Served
    <3> QED
      BY <1>1, <1>5, <1>b, <3>1 DEF Truthful
  <2> QED
    BY <1>9, <2>2, <2>3 DEF ServeHeartbeat
<1>10. CASE ServeNoWork(w)
  <2>1. requests[w] # <<>> /\ Head(requests[w]).kind = "work"
    BY <1>10 DEF ServeNoWork, Serving
  <2>2. \E k \in {"wait", "receipt", "drain"} : \E a : Reply(w, Head(requests[w]).session, k, a)
    BY <1>10 DEF ServeNoWork, SettledReply
  <2>3. at[w] = "work" /\ m.kind \in {"wait", "receipt", "drain"}
    BY <1>6, <2>1, <2>2
  <2> QED
    BY <1>1, <2>3 DEF Truthful
<1>11. CASE ChooseLease(w)
  BY <1>11 DEF ChooseLease
<1>12. CASE StartChosen(w)
  <2> DEFINE n == chosen.lease
             id == [window |-> window, lease |-> n, try |-> tries[n] + 1]
  <2>1. /\ chosen.worker = w /\ MayStart(n, w) /\ StartAttempt(n, w)
        /\ Reply(w, chosen.session, "lease", id) /\ window' = window
    BY <1>12 DEF StartChosen, windowState
  <2>2. own[w] = chosen.session /\ m = [kind |-> "lease", attempt |-> id]
    BY <1>0, <2>1, NewReply
  <2>3. at[w] = "work"
    BY <1>0, <2>1, <2>2 DEF Agree
  <2>4. n \in Lease
    BY <1>0, <2>1, WireAssumption DEF WireTypeOK, Choice, Nothing, NoPlan
  <2>5. tries[n] + 1 \in Try
    <3>1. tries[n] \in Nat /\ tries[n] < MaximumAttempts
      BY <1>0, <2>1, <2>4, BudgetAssumption DEF TypeInv, TypeOK, MayStart, Fresh
    <3> QED
      BY <3>1, BudgetAssumption DEF Try
  <2>6. attempt'[n][tries[n] + 1].state = "running"
    BY <1>0, <2>1, <2>4, <2>5 DEF StartAttempt, TypeInv, TypeOK, AttemptMap
  <2>7. Known(m.attempt)'
    <3>1. m.attempt = id /\ window \in Nat
      BY <1>0, <2>2 DEF TypeInv, TypeOK
    <3>2. m.attempt.window = window /\ m.attempt.lease = n /\ m.attempt.try = tries[n] + 1
      BY <3>1
    <3>3. attempt'[m.attempt.lease][m.attempt.try].state # "unstarted"
      BY <2>6, <3>2
    <3> QED
      BY <2>1, <3>1, <3>2, <3>3 DEF Known, AttemptOf
  <2>8. m.kind = "lease"
    BY <2>2
  <2> QED
    BY <1>1, <2>3, <2>7, <2>8 DEF Truthful
<1>13. CASE ChosenRefused(w)
  <2>1. \E k \in {"wait", "receipt", "abort"} : \E a :
          chosen.worker = w /\ Reply(w, chosen.session, k, a)
    BY <1>13 DEF ChosenRefused, SettledReply
  <2>2. own[w] = chosen.session /\ chosen.worker = w /\ m.kind \in {"wait", "receipt", "abort"}
    BY <1>0, <2>1, NewReply
  <2>3. at[w] = "work"
    BY <1>0, <2>2 DEF Agree
  <2> QED
    BY <1>1, <2>2, <2>3 DEF Truthful
<1>14. CASE ServeFailed(w)
  <2>1. requests[w] # <<>> /\ Head(requests[w]).kind = "failed"
    BY <1>14 DEF ServeFailed, Serving
  <2>2. \E k \in {"wait", "abort"} : Reply(w, Head(requests[w]).session, k, NoAttempt)
    BY <1>14 DEF ServeFailed, Served
  <2>3. at[w] = "failed" /\ Head(requests[w]).attempt = h /\ m.kind \in {"wait", "abort"}
    BY <1>6, <2>1, <2>2
  <2>4. Tombstoned(h) \/ ~Names(h) \/ FailAttempt(h.lease)
    BY <1>14, <2>3 DEF ServeFailed
  <2> QED
    BY <1>1, <1>5, <1>b, <2>3, <2>4 DEF Truthful
<1>15. CASE ServeComplete(w)
  <2>1. requests[w] # <<>> /\ Head(requests[w]).kind = "complete"
    BY <1>15 DEF ServeComplete, Serving
  <2> DEFINE a == Head(requests[w]).attempt
             k == IF Tombstoned(a) \/ Reservable(a) THEN "wait" ELSE "abort"
  <2>2. Reply(w, Head(requests[w]).session, k, NoAttempt)
    BY <1>15 DEF ServeComplete, Served
  <2>3. at[w] = "complete" /\ a = h /\ m.kind = k
    <3> HIDE DEF k
    <3> QED
      BY <1>6, <2>1, <2>2
  <2>4. k = "wait" => Tombstoned(h) \/ ReserveCompletion(h.lease)
    BY <1>15, <2>3 DEF ServeComplete
  <2> HIDE DEF k, a
  <2>5. k \in {"wait", "abort"}
    BY DEF k
  <2> QED
    BY <1>1, <1>5, <1>b, <2>3, <2>4, <2>5 DEF Truthful
<1>16. CASE ServePart(w)
  BY <1>16 DEF ServePart
<1> QED
  BY <1>7, <1>8, <1>9, <1>10, <1>11, <1>12, <1>13, <1>14, <1>15, <1>16 DEF Serve

LEMMA ServeAgrees ==
    ASSUME ServiceInv, AnswerInv, AgreeInv, NEW w \in Worker, Serve(w)
    PROVE  AgreeInv'
<1>0. /\ WireTypeOK /\ HoldsLease /\ TypeInv /\ LifeInv /\ OneAnswer(w) /\ Agree(w)
      /\ [NextService]_allVars
  BY DEF ServiceInv, WireTypeInv, AnswerInv, AgreeInv, NextService
<1>1. UNCHANGED <<at, own, held, discarding>>
  BY <1>0, ServeFrame DEF process
<1>2. ASSUME NEW v \in Worker, v # w PROVE Agree(v)'
  <2>1. /\ Range(requests'[v]) \subseteq Range(requests[v])
        /\ Range(uploads'[v]) \subseteq Range(uploads[v])
        /\ replies'[v] = replies[v] /\ acks'[v] = acks[v]
        /\ chosen'.worker = v => chosen' = chosen
    BY <1>0, <1>2, ServeFrame
  <2>2. Agree(v)
    BY DEF AgreeInv
  <2>3. at[v] # "off" /\ chosen'.worker = v /\ chosen'.session = own[v] => at[v] = "work"
    BY <2>1, <2>2 DEF Agree
  <2> QED
    BY <1>0, <1>1, <2>1, <2>2, <2>3, AgreeStays
<1>3. Agree(w)'
  <2>1. /\ Range(requests'[w]) \subseteq Range(requests[w])
        /\ Range(uploads'[w]) \subseteq Range(uploads[w])
    BY <1>0, ServeFrame
  <2>2. at[w] # "off" => \A m \in Range(replies'[w]) \ Range(replies[w]) : Truthful(w, m)'
    BY ServeTruthful
  <2>3. ASSUME at[w] = "upload", NEW m \in Range(acks'[w]) \ Range(acks[w]), m.kind = "drain"
        PROVE  Passed(held[w])'
    <3>1. CASE ServePart(w)
      <4> DEFINE p == Head(uploads[w])
      <4>1. p \in Range(uploads[w]) /\ acks[w] \in Seq(PartAnswer)
        BY <1>0, <3>1, RangeOfTail, WireFacts DEF ServePart
      <4> DEFINE Ack(kind) == [kind |-> kind, attempt |-> p.attempt, part |-> p.part]
                 Acked(kind) == IF at[w] # "off" /\ own[w] = p.session
                                THEN [acks EXCEPT ![w] = Append(@, Ack(kind))]
                                ELSE acks
      <4>2. \/ acks' = Acked("drain") /\ Tombstoned(p.attempt)
            \/ acks' = Acked("ack")
            \/ acks' = Acked("abort")
        BY <3>1 DEF ServePart
      <4>a. PICK k \in {"ack", "abort", "drain"} :
              acks' = Acked(k) /\ (k = "drain" => Tombstoned(p.attempt))
        BY <4>2
      <4>3. own[w] = p.session /\ Tombstoned(p.attempt)
        <5>2. own[w] = p.session /\ acks'[w] = Append(acks[w], Ack(k))
          BY <1>0, <2>3, <4>a, WireFacts DEF WireTypeOK
        <5>3. Range(acks'[w]) = Range(acks[w]) \cup {Ack(k)}
          <6> HIDE DEF Ack
          <6> QED
            BY <4>1, <5>2, RangeOfAppend
        <5>4. m = Ack(k)
          BY <2>3, <5>3
        <5> QED
          BY <2>3, <4>a, <5>2, <5>4
      <4>4. PICK h : h = held[w]
        OBVIOUS
      <4>5. p.attempt = h /\ h \in LeaseId /\ Known(h)
        BY <1>0, <2>3, <4>1, <4>3, <4>4 DEF Agree, HoldsLease, AttemptStates
      <4>6. Passed(h)'
        BY <1>0, <4>3, <4>5, EndsPass
      <4> QED
        BY <1>1, <4>4, <4>6 DEF Passed, CurrentId, AttemptOf
    <3>2. CASE ~ServePart(w)
      BY <2>3, <3>2 DEF Serve, ServeRegister, ServeReady, ServeHeartbeat, ServeNoWork, ChooseLease,
                        StartChosen, ChosenRefused, ServeFailed, ServeComplete
    <3> QED
      BY <3>1, <3>2
  <2>4. ASSUME at[w] # "off", chosen'.worker = w, chosen'.session = own[w]
        PROVE  at[w] = "work"
    <3>1. CASE ChooseLease(w)
      <4>1. /\ requests[w] # <<>> /\ Head(requests[w]).kind = "work"
            /\ Head(requests[w]).session = own[w]
        BY <2>4, <3>1 DEF ChooseLease, Serving
      <4> QED
        BY <1>0, <2>4, <4>1, AskedBy
    <3>2. CASE ~ChooseLease(w)
      <4>1. chosen' = chosen \/ chosen' = Nothing
        BY <3>2 DEF Serve, ServeRegister, ServeReady, ServeHeartbeat, ServeNoWork,
                    StartChosen, ChosenRefused, ServeFailed, ServeComplete, ServePart, service
      <4>2. chosen' = chosen
        BY <2>4, <4>1, WireAssumption DEF Nothing
      <4> QED
        BY <1>0, <2>4, <4>2 DEF Agree
    <3> QED
      BY <3>1, <3>2
  <2> QED
    BY <1>0, <1>1, <2>1, <2>2, <2>3, <2>4, AgreeStays
<1> QED
  BY <1>2, <1>3 DEF AgreeInv

\* a process begins with a REGISTER, holding nothing
LEMMA StartAgrees ==
    ASSUME ServiceInv, AnswerInv, AgreeInv, OrderInv, NEW w \in Worker, StartProcess(w)
    PROVE  Agree(w)'
<1>0. WireTypeOK /\ OneAnswer(w) /\ SentBefore(w) /\ Agree(w) /\ InOrder(w)
  BY DEF ServiceInv, WireTypeInv, AnswerInv, AgreeInv, OrderInv
<1>1. PICK r : r = [kind |-> "register", session |-> own[w] + 1, attempt |-> NoAttempt]
  OBVIOUS
<1>2. /\ at[w] = "off" /\ at'[w] = "register" /\ own'[w] = own[w] + 1
      /\ requests'[w] = Append(requests[w], r)
      /\ UNCHANGED <<held, discarding, replies, uploads, acks, chosen>>
  BY <1>0, <1>1, WireFacts DEF StartProcess, service
<1>3. /\ \A m \in Range(requests[w]) : m.session <= own[w] /\ m.session \in Nat
      /\ \A m \in Range(uploads[w]) : m.session <= own[w] /\ m.session \in Nat
      /\ chosen.worker = w => chosen.session <= own[w] /\ chosen.session \in Nat
      /\ own[w] \in Nat /\ requests[w] \in Seq(ControlMessage)
  <2>1. /\ requests[w] \in Seq(ControlMessage) /\ uploads[w] \in Seq(Part)
        /\ own[w] \in Nat
        /\ \A m \in ControlMessage : m.session \in Nat
        /\ \A m \in Part : m.session \in Nat
    BY <1>0, WireFacts
  <2>2. /\ \A i \in DOMAIN requests[w] : requests[w][i] \in ControlMessage
        /\ \A i \in DOMAIN uploads[w] : uploads[w][i] \in Part
    BY <2>1
  <2> QED
    BY <1>0, <2>1, <2>2, ChoiceSession DEF SentBefore, Range
<1>4. Range(requests'[w]) = Range(requests[w]) \cup {r}
  BY <1>2, <1>3, RangeOfAppend
<1>5. Range(replies'[w]) = {} /\ Range(acks'[w]) = {}
  BY <1>0, <1>2, RangeOfNone DEF OneAnswer
<1>6. held[w] = NoAttempt /\ ~discarding[w]
  BY <1>0, <1>2 DEF Agree
<1> QED
  BY <1>1, <1>2, <1>3, <1>4, <1>5, <1>6 DEF Agree, Question, KindOf, LoopStates, AttemptStates

\* A process disturbs no other.
LEMMA ProcessFrame ==
    ASSUME WireTypeOK, NEW w \in Worker, ProcessStep(w) \/ Environment(w),
           NEW v \in Worker \ {w}
    PROVE  UNCHANGED <<at[v], own[v], held[v], discarding[v], sent[v], requests[v],
                       replies[v], uploads[v], acks[v], chosen>>
<1>0. /\ v # w
      /\ DOMAIN at = Worker /\ DOMAIN own = Worker /\ DOMAIN held = Worker
      /\ DOMAIN discarding = Worker /\ DOMAIN requests = Worker /\ DOMAIN replies = Worker
      /\ DOMAIN uploads = Worker /\ DOMAIN acks = Worker /\ DOMAIN sent = Worker
  BY DEF WireTypeOK
<1>1. CASE LoopRaises(w) \/ TimeoutInLoop(w) \/ Crash(w)
  <2>1. Exit(w)
    BY <1>1 DEF LoopRaises, TimeoutInLoop, Crash
  <2> QED
    BY <1>0, <2>1 DEF Exit, service
<1>2. CASE Registered(w) \/ Poll(w) \/ CollectionRaises(w) \/ Heartbeat(w)
  BY <1>0, <1>2 DEF Registered, Poll, CollectionRaises, Heartbeat, ReportFailure, Ask, Pop,
                    process, service
<1>3. CASE TakeLease(w) \/ Upload(w) \/ Beaten(w)
  BY <1>0, <1>3 DEF TakeLease, Upload, Beaten, Pop, process, service
<1>4. CASE LoopAgain(w) \/ AttemptEnds(w) \/ TimeoutInReport(w)
  BY <1>0, <1>4 DEF LoopAgain, AttemptEnds, TimeoutInReport, AskForWork, Ask, Pop, service
<1>5. CASE Uploaded(w)
  <2>1. /\ at' = [at EXCEPT ![w] = "collect"] \/ Ask(w, "failed", "failed")
        /\ acks' = Pop(acks, w)
        /\ requests' = requests \/ Ask(w, "failed", "failed")
        /\ UNCHANGED <<own, held, replies, uploads, chosen>>
    BY <1>5 DEF Uploaded, ReportFailure, process, service
  <2>2. discarding'[v] = discarding[v] /\ sent'[v] = sent[v]
    BY <1>0, <1>5 DEF Uploaded, ReportFailure, process
  <2> QED
    BY <1>0, <2>1, <2>2 DEF Ask, Pop
<1>6. CASE AttemptRaises(w) \/ TimeoutInAttempt(w)
  BY <1>0, <1>6 DEF AttemptRaises, TimeoutInAttempt, ReportFailure, Ask, Pop, process, service
<1>7. CASE Collected(w)
  BY <1>0, <1>7 DEF Collected, AskForWork, Ask, Pop, process, service
<1>8. CASE StartProcess(w) \/ DropReply(w)
  BY <1>0, <1>8 DEF StartProcess, DropReply, Pop, process, service
<1> QED
  BY <1>1, <1>2, <1>3, <1>4, <1>5, <1>6, <1>7, <1>8 DEF ProcessStep, Environment

\* The other steps are not about the processes.
LEMMA OtherFrame ==
    ASSUME Maintain \/ Boundary \/ AbortUnplanned \/ Learner \/ UNCHANGED allVars
    PROVE  /\ UNCHANGED <<at, process, channels>>
           /\ \A v \in Worker : chosen'.worker = v => chosen' = chosen
<1>1. NoPlan.worker \notin Worker /\ Nothing.worker \notin Worker
  BY WireAssumption DEF NoPlan, Nothing
<1> QED
  BY <1>1 DEF Maintain, Boundary, AbortUnplanned, Learner, wireVars, allVars, service

LEMMA NextAgreeInv ==
    ASSUME MaxFaults = 0, ServiceInv, AnswerInv, OrderInv, AgreeInv, [NextService]_allVars
    PROVE  AgreeInv'
<1>0. WireTypeInv /\ WireTypeOK /\ faults = 0
  BY DEF ServiceInv, WireTypeInv, WireTypeOK
<1>1. ASSUME NEW w \in Worker, ProcessStep(w) \/ Environment(w) PROVE AgreeInv'
  <2>1. ASSUME NEW v \in Worker \ {w} PROVE Agree(v)'
    <3>1. UNCHANGED <<at[v], own[v], held[v], discarding[v], requests[v], replies[v],
                      uploads[v], acks[v], chosen>>
      BY <1>0, <1>1, ProcessFrame
    <3>2. Agree(v)
      BY DEF AgreeInv
    <3>3. at[v] # "off" /\ chosen'.worker = v /\ chosen'.session = own[v] => at[v] = "work"
      BY <3>1, <3>2 DEF Agree
    <3> QED
      BY <3>1, <3>2, <3>3, AgreeStays
  <2>2. Agree(w)'
    <3>1. CASE ProcessStep(w)
      BY <1>0, <3>1, ProcessAgrees
    <3>2. CASE StartProcess(w)
      BY <3>2, StartAgrees
    <3>3. CASE Crash(w)
      BY <1>0, <3>3 DEF Crash, Exit, Agree, WireTypeOK
    <3>4. ~DropReply(w)
      BY <1>0 DEF DropReply
    <3> QED
      BY <1>1, <3>1, <3>2, <3>3, <3>4 DEF Environment
  <2> QED
    BY <2>1, <2>2 DEF AgreeInv
<1>2. ASSUME NEW w \in Worker, Serve(w) PROVE AgreeInv'
  BY <1>2, ServeAgrees
<1>3. CASE Maintain \/ Boundary \/ AbortUnplanned \/ Learner \/ UNCHANGED allVars
  <2> SUFFICES ASSUME NEW v \in Worker PROVE Agree(v)'
    BY DEF AgreeInv
  <2>1. /\ UNCHANGED <<at, process, channels>>
        /\ chosen'.worker = v => chosen' = chosen
    BY <1>3, OtherFrame
  <2>2. Agree(v)
    BY DEF AgreeInv
  <2>3. UNCHANGED <<at[v], own[v], held[v], discarding[v], requests[v], replies[v],
                    uploads[v], acks[v]>>
    BY <2>1 DEF process, channels
  <2>4. at[v] # "off" /\ chosen'.worker = v /\ chosen'.session = own[v] => at[v] = "work"
    BY <2>1, <2>2 DEF Agree
  <2> QED
    BY <2>2, <2>3, <2>4, AgreeStays
<1> QED
  BY <1>1, <1>2, <1>3 DEF NextService

LEMMA InitAgreeInv == InitService => AgreeInv
  BY DEF InitService, AgreeInv, Agree

(***************************************************************************)
(* No attempt without its process                                          *)
(***************************************************************************)

Running(n) == Live(n) /\ Current(n).state = "running"

CurrentOf(n) == [window |-> window, lease |-> n, try |-> tries[n]]

LeaseFor(id) == [kind |-> "lease", attempt |-> id]

\* the process holds the attempt, or the lease is on its way
Reached(w, id) == held[w] = id \/ LeaseFor(id) \in Range(replies[w])

Attended(n) ==
    Collecting /\ Running(n) =>
      LET w == Current(n).owner[1]
      IN  at[w] # "off" /\ own[w] = Current(n).owner[2] => Reached(w, CurrentOf(n))

\* Only BeginWindow and the start of a lease change the tries.
LEMMA TriesStay ==
    ASSUME WireTypeInv, [NextService]_allVars, \A w \in Worker : ~StartChosen(w), Collecting
    PROVE  UNCHANGED tries
<1>1. ASSUME NEW w \in Worker, ProcessStep(w) \/ Environment(w) PROVE UNCHANGED vars
  BY <1>1, ProcessTypes, EnvironmentTypes
<1>2. ASSUME NEW w \in Worker, Serve(w) PROVE UNCHANGED tries
  <2>1. CASE ServeRegister(w) \/ ServeReady(w)
    BY <2>1 DEF ServeRegister, ServeReady, RegisterWhileCollecting, RegisterAtBoundary, MarkReady
  <2>2. CASE ServeHeartbeat(w) \/ ChosenRefused(w)
    BY <2>2 DEF ServeHeartbeat, ChosenRefused, vars
  <2>3. CASE ServeNoWork(w) \/ ChooseLease(w)
    BY <2>3 DEF ServeNoWork, ChooseLease, AcknowledgeDiscards
  <2>4. CASE ServeFailed(w) \/ ServeComplete(w)
    BY <2>4 DEF ServeFailed, ServeComplete, FailAttempt, ReserveCompletion, vars
  <2>5. CASE ServePart(w)
    BY <2>5 DEF ServePart, FailAttempt, AcceptPart, vars
  <2> QED
    BY <1>2, <2>1, <2>2, <2>3, <2>4, <2>5 DEF Serve
<1>3. CASE Maintain
  BY <1>3 DEF Maintain, CompletionStep, FinalizeCompletion, RejectCompletion, SweepStep, ExpireWorkers
<1>4. CASE Boundary
  BY <1>4 DEF Boundary, BoundaryStep, BeginWindow, RefuseWindow
<1>5. CASE AbortUnplanned \/ Learner
  BY <1>5 DEF AbortUnplanned, Learner, RequestLearnerReadyDrain, AbortWindow, StartCommit,
              FinishCommit, FailCommit, ReleaseParts
<1>6. CASE UNCHANGED allVars
  BY <1>6 DEF allVars, vars
<1> QED
  BY <1>1, <1>2, <1>3, <1>4, <1>5, <1>6 DEF NextService, vars

\* An attempt that runs has run before, or has just been started.
LEMMA RunningStep ==
    ASSUME ServiceInv, [NextService]_allVars, NEW n \in Lease, Collecting', Running(n)'
    PROVE  /\ Collecting /\ window' = window
           /\ \/ /\ Running(n) /\ tries'[n] = tries[n]
                 /\ Current(n).owner' = Current(n).owner
                 /\ CurrentOf(n)' = CurrentOf(n)
              \/ \E v \in Worker :
                   /\ StartAttempt(n, v)
                   /\ tries'[n] = tries[n] + 1
                   /\ Current(n).owner' = <<v, session[v]>>
<1>0. /\ TypeInv /\ LifeInv /\ TypeInv' /\ LifeInv'
      /\ [Next]_vars \/ StaleStep
  BY NextServiceInv, StepOfCoordinator DEF ServiceInv
<1> DEFINE k == tries'[n]
<1>1. /\ k \in Nat /\ k > 0 /\ k <= MaximumAttempts /\ k \in Try
      /\ tries[n] \in Nat /\ window \in Nat
      /\ attempt'[n][k].state = "running"
      /\ attempt[n][k] \in Attempt
  BY <1>0, BudgetAssumption, BoundAssumption
  DEF TypeInv, TypeOK, AttemptMap, Running, Live, Current, Try
<1>2. PICK j \in Try : j = k
  BY <1>1
<1>4. window' = window /\ Collecting /\ Lives(n, j)
  BY <1>0, <1>1, <1>2, AttemptsLive DEF NewWindow, Unstarted
<1>5. ASSUME attempt[n][j].state = "running", attempt'[n][j].owner = attempt[n][j].owner
      PROVE  /\ Running(n) /\ tries'[n] = tries[n]
             /\ Current(n).owner' = Current(n).owner
             /\ CurrentOf(n)' = CurrentOf(n)
  <2>1. j = tries[n]
    BY <1>0, <1>5 DEF LifeInv, OneLive, LiveStates
  <2> QED
    BY <1>1, <1>2, <1>4, <1>5, <2>1 DEF Running, Live, Current, CurrentOf
<1>6. CASE Ages(attempt[n][j], attempt'[n][j])
  <2>1. attempt[n][j].state = "running" /\ attempt'[n][j].owner = attempt[n][j].owner
    BY <1>1, <1>2, <1>6 DEF Ages, Attempt
  <2> QED
    BY <1>4, <1>5, <2>1
<1>7. CASE /\ attempt[n][j].state = "running"
           /\ attempt'[n][j].owner = attempt[n][j].owner
  BY <1>4, <1>5, <1>7
<1>8. CASE \E v \in Worker :
             /\ StartAttempt(n, v)
             /\ j = tries[n] + 1
             /\ attempt'[n][j] = [owner |-> <<v, session[v]>>, state |-> "running",
                                  parts |-> 0, term |-> 0]
  <2>1. PICK v \in Worker :
             /\ StartAttempt(n, v)
             /\ j = tries[n] + 1
             /\ attempt'[n][j] = [owner |-> <<v, session[v]>>, state |-> "running",
                                  parts |-> 0, term |-> 0]
    BY <1>8
  <2>2. Current(n).owner' = <<v, session[v]>>
    BY <1>2, <2>1 DEF Current
  <2> QED
    BY <1>2, <1>4, <2>1, <2>2
<1> QED
  BY <1>4, <1>6, <1>7, <1>8 DEF Lives, Keeps

\* A process that goes on keeps its attempt, and the lease on its way, until
\* the attempt has passed.
LEMMA ReachedStays ==
    ASSUME MaxFaults = 0, ServiceInv, AnswerInv, AgreeInv, [NextService]_allVars,
           NEW w \in Worker, at[w] # "off", at'[w] # "off",
           NEW id \in LeaseId, Reached(w, id), ~Passed(id)
    PROVE  Reached(w, id)' /\ own'[w] = own[w]
<1>0. /\ WireTypeInv /\ WireTypeOK /\ faults = 0 /\ OneAnswer(w) /\ Agree(w)
  BY DEF ServiceInv, WireTypeInv, WireTypeOK, AnswerInv, AgreeInv
<1>1. ASSUME UNCHANGED <<held[w], own[w]>>, Range(replies[w]) \subseteq Range(replies'[w])
      PROVE  Reached(w, id)' /\ own'[w] = own[w]
  BY <1>1 DEF Reached
<1>2. CASE ProcessStep(w)
  <2>1. own' = own
    BY <1>2, ProcessRequests
  <2>2. CASE held[w] = id
    <3>1. at[w] \notin LoopStates
      BY <1>0, <2>2 DEF Agree, LeaseId, NoAttempt, Lease
    <3>2. held'[w] = held[w] \/ Passed(held[w])
      BY <1>0, <1>2, <3>1, ProcessAgrees
    <3>3. Passed(held[w]) <=> Passed(id)
      BY <2>2 DEF Passed, CurrentId, AttemptOf
    <3> QED
      BY <2>1, <2>2, <3>2, <3>3 DEF Reached
  <2>3. CASE LeaseFor(id) \in Range(replies[w])
    <3>1. replies[w] # <<>> /\ Truthful(w, LeaseFor(id))
      BY <1>0, <2>3, RangeOfNone DEF Agree
    <3>2. Head(replies[w]) = LeaseFor(id)
      BY <1>0, <2>3, <3>1, OneAtATime
    <3>3. at[w] = "work" /\ Head(replies[w]).kind = "lease" /\ Head(replies[w]).attempt = id
      BY <3>1, <3>2 DEF LeaseFor, Truthful
    <3>4. ~TimeoutInLoop(w) /\ ~TimeoutInAttempt(w) /\ ~TimeoutInReport(w)
      BY <1>0, NoTimeouts
    <3>5. TakeLease(w)
      BY <1>2, <3>3, <3>4
      DEF ProcessStep, LoopRaises, Registered, Poll, LoopAgain, CollectionRaises, Upload, Uploaded,
          Heartbeat, Beaten, Collected, AttemptRaises, AttemptEnds, Answered
    <3>6. held'[w] = id
      BY <1>0, <3>3, <3>5 DEF TakeLease, WireTypeOK
    <3> QED
      BY <2>1, <3>6 DEF Reached
  <2> QED
    BY <2>2, <2>3 DEF Reached
<1>3. CASE Environment(w)
  <2>1. ~StartProcess(w) /\ ~DropReply(w)
    BY <1>0 DEF StartProcess, DropReply
  <2>2. ~Crash(w)
    BY <1>0 DEF Crash, Exit, WireTypeOK
  <2> QED
    BY <1>3, <2>1, <2>2 DEF Environment
<1>4. ASSUME NEW v \in Worker \ {w}, ProcessStep(v) \/ Environment(v)
      PROVE  Reached(w, id)' /\ own'[w] = own[w]
  <2>1. UNCHANGED <<held[w], own[w], replies[w]>>
    BY <1>0, <1>4, ProcessFrame
  <2> QED
    BY <1>1, <2>1
<1>5. ASSUME NEW v \in Worker, Serve(v)
      PROVE  Reached(w, id)' /\ own'[w] = own[w]
  <2>1. UNCHANGED process
    BY <1>0, <1>5, ServeFrame
  <2>2. replies' = replies \/ \E s, kind, a : Reply(v, s, kind, a)
    BY <1>5
    DEF Serve, ServeRegister, ServeReady, ServeHeartbeat, ServeNoWork, ChooseLease, StartChosen,
        ChosenRefused, ServeFailed, ServeComplete, ServePart, SettledReply, Served
  <2>3. Range(replies[w]) \subseteq Range(replies'[w])
    <3>1. CASE replies' = replies
      BY <3>1
    <3>2. ASSUME NEW s, NEW kind, NEW a, Reply(v, s, kind, a), replies' # replies
          PROVE  Range(replies[w]) \subseteq Range(replies'[w])
      <4>1. \/ replies'[w] = replies[w]
            \/ replies'[w] = Append(replies[w], [kind |-> kind, attempt |-> a])
        BY <1>0, <3>2, WireFacts DEF Reply
      <4> QED
        BY <1>0, <4>1, RangeOfAppend, WireFacts
    <3> QED
      BY <2>2, <3>1, <3>2
  <2> QED
    BY <1>1, <2>1, <2>3 DEF process
<1>6. CASE Maintain \/ Boundary \/ AbortUnplanned \/ Learner \/ UNCHANGED allVars
  <2>1. UNCHANGED <<process, channels>>
    BY <1>6, OtherFrame
  <2> QED
    BY <1>1, <2>1 DEF process, channels
<1> QED
  BY <1>2, <1>3, <1>4, <1>5, <1>6 DEF NextService

\* A lease that is started is sent to the session that is to have it.
LEMMA StartReaches ==
    ASSUME ServiceInv, OrderInv, [NextService]_allVars, NEW n \in Lease, NEW v \in Worker,
           Collecting, StartAttempt(n, v), tries'[n] = tries[n] + 1, window' = window,
           at'[v] # "off", own'[v] = session[v]
    PROVE  Reached(v, CurrentOf(n))'
<1>0. WireTypeInv /\ WireTypeOK /\ TypeInv /\ tries[n] \in Nat /\ tries \in [Lease -> Nat]
  BY DEF ServiceInv, WireTypeInv, TypeInv, TypeOK
<1>1. PICK u \in Worker : StartChosen(u)
  <2>1. tries' # tries
    BY <1>0
  <2> QED
    BY <1>0, <2>1, TriesStay
<1>2. /\ chosen.worker = u /\ StartAttempt(chosen.lease, u)
      /\ Reply(u, chosen.session, "lease",
               [window |-> window, lease |-> chosen.lease, try |-> tries[chosen.lease] + 1])
      /\ UNCHANGED <<at, own>>
  BY <1>1 DEF StartChosen, process
<1>3. chosen.lease = n
  <2>1. tries' = [tries EXCEPT ![chosen.lease] = @ + 1]
    BY <1>2 DEF StartAttempt
  <2> QED
    BY <1>0, <2>1
<1>4. u = v
  <2>1. DOMAIN active = Worker /\ active[u] = Idle
    BY <1>0, <1>1 DEF TypeInv, TypeOK, StartChosen, MayStart
  <2>2. active' = [active EXCEPT ![v] = <<n, tries[n] + 1>>]
    BY DEF StartAttempt
  <2>3. active' = [active EXCEPT ![u] = <<n, tries[n] + 1>>]
    BY <1>2, <1>3 DEF StartAttempt
  <2>4. <<n, tries[n] + 1>> # Idle
    BY <1>0 DEF Idle
  <2> QED
    BY <2>1, <2>2, <2>3, <2>4
<1>5. own[v] = chosen.session
  BY <1>2, <1>4 DEF OrderInv, InOrder, Latest
<1>6. replies'[v] = Append(replies[v],
          LeaseFor([window |-> window, lease |-> n, try |-> tries[n] + 1]))
  BY <1>0, <1>2, <1>3, <1>4, <1>5, WireFacts DEF Reply, LeaseFor
<1>7. LeaseFor([window |-> window, lease |-> n, try |-> tries[n] + 1]) \in Range(replies'[v])
  BY <1>0, <1>6, RangeOfAppend, WireFacts
<1> QED
  BY <1>7 DEF Reached, CurrentOf, LeaseFor

\* A process that lives after a step has lived before it, or has begun.
LEMMA OwnStays ==
    ASSUME ServiceInv, [NextService]_allVars, NEW v \in Worker, at'[v] # "off",
           own'[v] # own[v] + 1
    PROVE  at[v] # "off" /\ own'[v] = own[v]
<1>0. WireTypeOK
  BY DEF ServiceInv, WireTypeInv
<1>1. CASE ProcessStep(v)
  <2>1. at[v] # "off"
    BY <1>1 DEF ProcessStep, LoopRaises, Registered, TakeLease, Poll, LoopAgain, CollectionRaises,
                Upload, Uploaded, Heartbeat, Beaten, Collected, AttemptRaises, AttemptEnds,
                TimeoutInLoop, TimeoutInAttempt, TimeoutInReport, Answered, LoopStates
  <2> QED
    BY <1>1, <2>1, ProcessRequests
<1>2. CASE Environment(v)
  <2>1. ~Crash(v)
    BY <1>0 DEF Crash, Exit, WireTypeOK
  <2>2. ~StartProcess(v)
    BY <1>0, WireFacts DEF StartProcess
  <2>3. CASE DropReply(v)
    <3>1. at[v] # "off" /\ own'[v] = own[v]
      BY <2>3 DEF DropReply, process
    <3> QED
      BY <3>1
  <2> QED
    BY <1>2, <2>1, <2>2, <2>3 DEF Environment
<1>3. ASSUME NEW u \in Worker \ {v}, ProcessStep(u) \/ Environment(u)
      PROVE  at[v] # "off" /\ own'[v] = own[v]
  BY <1>0, <1>3, ProcessFrame
<1>4. ASSUME NEW u \in Worker, Serve(u)
      PROVE  at[v] # "off" /\ own'[v] = own[v]
  BY <1>0, <1>4, ServeFrame DEF process
<1>5. CASE Maintain \/ Boundary \/ AbortUnplanned \/ Learner \/ UNCHANGED allVars
  BY <1>5, OtherFrame DEF process
<1> QED
  BY <1>1, <1>2, <1>3, <1>4, <1>5 DEF NextService

LEMMA NextAttended ==
    ASSUME MaxFaults = 0, ServiceInv, AnswerInv, OrderInv, AgreeInv,
           [NextService]_allVars, NEW n \in Lease, Attended(n)
    PROVE  Attended(n)'
<1> DEFINE w == Current(n).owner[1]
           x == Current(n).owner[2]
<1> SUFFICES ASSUME Collecting', Running(n)', at'[w'] # "off", own'[w'] = x'
             PROVE  Reached(w, CurrentOf(n))'
  BY DEF Attended
<1>0. /\ TypeInv /\ LifeInv /\ WireTypeOK /\ TypeInv'
      /\ session \in [Worker -> Nat]
      /\ tries \in [Lease -> Nat]
  <2>1. TypeInv /\ LifeInv /\ WireTypeOK /\ TypeInv'
    BY NextServiceInv DEF ServiceInv, WireTypeInv
  <2> QED
    BY <2>1, BoundAssumption DEF TypeInv, TypeOK
<1>1. /\ Collecting /\ window' = window
      /\ \/ /\ Running(n) /\ tries'[n] = tries[n]
            /\ Current(n).owner' = Current(n).owner
            /\ CurrentOf(n)' = CurrentOf(n)
         \/ \E v \in Worker :
              /\ StartAttempt(n, v)
              /\ tries'[n] = tries[n] + 1
              /\ Current(n).owner' = <<v, session[v]>>
  BY RunningStep
<1>2. CASE \E v \in Worker :
              /\ StartAttempt(n, v)
              /\ tries'[n] = tries[n] + 1
              /\ Current(n).owner' = <<v, session[v]>>
  <2>1. PICK v \in Worker :
              /\ StartAttempt(n, v)
              /\ tries'[n] = tries[n] + 1
              /\ Current(n).owner' = <<v, session[v]>>
    BY <1>2
  <2>2. w' = v /\ x' = session[v]
    BY <2>1
  <2>3. Reached(v, CurrentOf(n))'
    BY <1>1, <2>1, <2>2, StartReaches
  <2> QED
    BY <2>2, <2>3 DEF Reached
<1>3. CASE /\ Running(n) /\ tries'[n] = tries[n]
           /\ Current(n).owner' = Current(n).owner
           /\ CurrentOf(n)' = CurrentOf(n)
  <2>1. w' = w /\ x' = x
    BY <1>3
  <2>2. /\ tries[n] \in Try
        /\ attempt[n][tries[n]] \in Attempt
        /\ attempt[n][tries[n]].state = "running"
    BY <1>0, <1>3, BudgetAssumption DEF Running, Live, Current, Try, TypeInv, TypeOK, AttemptMap
  <2>4. w \in Worker /\ x \in Nat /\ x <= session[w]
    <3> DEFINE o == attempt[n][tries[n]].owner
    <3>1. o # Nobody /\ o[2] <= session[o[1]]
      BY <1>0, <2>2 DEF LifeInv, OwnersKnown
    <3>2. o \in Owner
      BY <2>2, <3>1 DEF Attempt
    <3>3. o[1] \in Worker /\ o[2] \in Nat
      BY <3>2 DEF Owner, Session
    <3> QED
      BY <3>1, <3>3 DEF Current
  <2>5. PICK v \in Worker : v = w
    BY <2>4
  <2>6. PICK id \in LeaseId : id = CurrentOf(n)
    <3>1. CurrentOf(n) \in LeaseId
      BY <1>0, <2>2 DEF CurrentOf, LeaseId, TypeInv, TypeOK
    <3> QED
      BY <3>1
  <2>7. ~Passed(id)
    BY <1>1, <1>3, <2>6 DEF Passed, CurrentId, AttemptOf, CurrentOf, Running, Current
  <2>8. x <= own[v]
    <3>1. session[v] <= Latest(v) /\ session[v] \in Nat /\ Latest(v) \in Nat
      BY <1>0, RegistrySessions DEF Latest, LifeInv, SessionsGrow
    <3>2. Latest(v) <= own[v] /\ own[v] \in Nat
      BY <1>0, WireFacts DEF OrderInv, InOrder, Ordered
    <3> QED
      BY <2>4, <2>5, <3>1, <3>2
  <2>9. at[v] # "off" /\ own'[v] = own[v]
    <3>1. own'[v] # own[v] + 1
      BY <1>0, <2>1, <2>4, <2>5, <2>8, WireFacts
    <3>2. at'[v] # "off"
      BY <2>1, <2>5
    <3> QED
      BY <3>1, <3>2, OwnStays
  <2>10. Reached(v, id)
    BY <1>1, <1>3, <2>1, <2>5, <2>6, <2>9 DEF Attended
  <2>11. Reached(v, id)'
    BY <2>1, <2>5, <2>7, <2>9, <2>10, ReachedStays
  <2> QED
    BY <1>3, <2>1, <2>5, <2>6, <2>11 DEF Reached
<1> QED
  BY <1>1, <1>2, <1>3

TalkInv == AnswerInv /\ OrderInv /\ AgreeInv

LEMMA SpecTalkInv == ASSUME MaxFaults = 0 PROVE ServiceSpec => []TalkInv
<1>1. InitService => TalkInv
  BY InitAnswerInv, InitOrderInv, InitAgreeInv DEF TalkInv
<1>2. ServiceInv /\ TalkInv /\ [NextService]_allVars => TalkInv'
  BY NextAnswerInv, NextOrderInv, NextAgreeInv DEF TalkInv, ServiceInv
<1> QED
  BY <1>1, <1>2, SpecServiceInv, PTL DEF ServiceSpec

\* Without late and dropped replies, an attempt that runs at the coordinator
\* for a session whose process lives is held by that process, or the lease is
\* on its way to it (NoOrphan): none is left to its timeout.
THEOREM NoLeaseIsOrphaned ==
    ASSUME MaxFaults = 0
    PROVE  ServiceSpec => []NoOrphan
<1> DEFINE AllAttended == \A n \in Lease : Attended(n)
<1>1. InitService => AllAttended
  BY DEF InitService, Init, Attended, Collecting
<1>2. ServiceInv /\ TalkInv /\ AllAttended /\ [NextService]_allVars => AllAttended'
  BY NextAttended DEF TalkInv
<1>3. AllAttended => NoOrphan
  BY DEF Attended, Running, Reached, CurrentOf, LeaseFor, NoOrphan, Range
<1> QED
  BY <1>1, <1>2, <1>3, SpecServiceInv, SpecTalkInv, PTL DEF ServiceSpec

(***************************************************************************)
(* The parts of an attempt                                                 *)
(***************************************************************************)

\* the I/O thread accepts the part that v has sent first
TakesPart(v) ==
    LET m == Head(uploads[v])
    IN  /\ ServePart(v)
        /\ ~Tombstoned(m.attempt)
        /\ Names(m.attempt)
        /\ m.part = Current(m.attempt.lease).parts
        /\ \E k \in 0 .. MaxPart : AcceptPart(m.attempt.lease, k)

Takes(id) == \E v \in Worker : TakesPart(v) /\ Head(uploads[v]).attempt = id

LEMMA UploadTypes ==
    ASSUME WireTypeOK, NEW v \in Worker, uploads[v] # <<>>
    PROVE  /\ Head(uploads[v]) \in Part
           /\ Head(uploads[v]) \in Range(uploads[v])
           /\ Head(uploads[v]).attempt \in LeaseId
           /\ Head(uploads[v]).attempt.lease \in Lease
<1>1. uploads[v] \in Seq(Part)
  BY WireFacts
<1>2. Head(uploads[v]) \in Part /\ Head(uploads[v]) \in Range(uploads[v])
  BY <1>1, RangeOfTail
<1> QED
  BY <1>2 DEF Part, LeaseId

\* No other step takes a part.
LEMMA StepTakesPart ==
    ASSUME ServiceInv, [NextService]_allVars
    PROVE  QuietStep \/ \E v \in Worker : TakesPart(v)
<1>0. WireTypeInv /\ WireTypeOK /\ TypeInv
  BY DEF ServiceInv, WireTypeInv
<1>1. ASSUME NEW w \in Worker, ProcessStep(w) \/ Environment(w) PROVE QuietStep
  BY <1>0, <1>1, ProcessTypes, EnvironmentTypes DEF QuietStep
<1>2. ASSUME NEW w \in Worker, Serve(w) PROVE QuietStep \/ TakesPart(w)
  <2>1. CASE ServeRegister(w) \/ ServeReady(w) \/ ServeNoWork(w) \/ ChooseLease(w)
    <3>1. WorkerStep
      BY <2>1 DEF ServeRegister, ServeReady, ServeNoWork, ChooseLease, WorkerStep
    <3> QED
      BY <3>1 DEF QuietStep
  <2>2. CASE ServeHeartbeat(w) \/ ChosenRefused(w)
    BY <2>2 DEF ServeHeartbeat, ChosenRefused, QuietStep
  <2>3. CASE ServeFailed(w) \/ ServeComplete(w)
    <3>1. Head(requests[w]).attempt \in LeaseId
      BY <1>0, <2>3, ServingTypes DEF ServeFailed, ServeComplete
    <3>2. Head(requests[w]).attempt.lease \in Lease
      BY <3>1 DEF LeaseId
    <3> QED
      BY <2>3, <3>2 DEF ServeFailed, ServeComplete, QuietStep
  <2>4. CASE ServePart(w)
    <3>1. Head(uploads[w]).attempt.lease \in Lease
      BY <1>0, <2>4, UploadTypes DEF ServePart
    <3> QED
      BY <2>4, <3>1 DEF ServePart, TakesPart, Reservable, QuietStep
  <2>5. CASE StartChosen(w)
    <3>1. [Next]_vars \/ StaleStep
      BY StepOfCoordinator DEF ServiceInv
    <3>2. chosen.lease \in Lease
      BY <1>0, <2>5, WireAssumption DEF StartChosen, WireTypeOK, Choice, Nothing, NoPlan
    <3>3. tries' # tries
      <4>1. tries' = [tries EXCEPT ![chosen.lease] = @ + 1]
        BY <2>5 DEF StartChosen, StartAttempt
      <4>2. tries \in [Lease -> Nat]
        BY <1>0 DEF TypeInv, TypeOK
      <4>3. tries'[chosen.lease] = tries[chosen.lease] + 1 /\ tries[chosen.lease] \in Nat
        BY <3>2, <4>1, <4>2
      <4> QED
        BY <4>3
    <3>4. \A n \in Lease, k \in 0 .. MaxPart : ~AcceptPart(n, k)
      BY <3>3 DEF AcceptPart
    <3> QED
      BY <3>1, <3>4 DEF Next, AttemptStep, QuietStep
  <2> QED
    BY <1>2, <2>1, <2>2, <2>3, <2>4, <2>5 DEF Serve
<1>3. CASE Maintain \/ Boundary
  BY <1>3 DEF Maintain, Boundary, QuietStep
<1>4. CASE AbortUnplanned \/ Learner
  <2>1. LearnerStep
    BY <1>4 DEF AbortUnplanned, Learner, LearnerStep
  <2> QED
    BY <2>1 DEF QuietStep
<1>5. CASE UNCHANGED allVars
  BY <1>5 DEF allVars, QuietStep
<1> QED
  BY <1>1, <1>2, <1>3, <1>4, <1>5 DEF NextService

\* id is an attempt that has been started, in an open window or a closed one
Begun(id) == id.window <= window /\ (id.window = window => AttemptOf(id).state # "unstarted")

LEMMA BegunStays ==
    ASSUME ServiceInv, [NextService]_allVars, NEW id \in LeaseId, Begun(id)
    PROVE  /\ Begun(id)'
           /\ id.window = window' =>
                id.window = window /\ AttemptOf(id)'.owner = AttemptOf(id).owner
<1>0. TypeInv /\ LifeInv /\ ([Next]_vars \/ StaleStep)
  BY StepOfCoordinator DEF ServiceInv
<1>1. id.lease \in Lease /\ id.try \in Try /\ id.window \in Nat /\ window \in Nat
  BY <1>0, BoundAssumption DEF LeaseId, TypeInv, TypeOK
<1>2. CASE NewWindow
  BY <1>1, <1>2 DEF NewWindow, Begun
<1>3. CASE window' = window /\ Lives(id.lease, id.try)
  <2>1. CASE Ages(attempt[id.lease][id.try], attempt'[id.lease][id.try])
    BY <1>3, <2>1 DEF Ages, Begun, AttemptOf
  <2>2. CASE /\ attempt[id.lease][id.try].state = "running"
             /\ attempt'[id.lease][id.try].state = "running"
             /\ attempt'[id.lease][id.try].owner = attempt[id.lease][id.try].owner
    BY <1>3, <2>2 DEF Begun, AttemptOf
  <2>3. CASE attempt[id.lease][id.try].state = "unstarted"
    BY <1>3, <2>3 DEF Begun, AttemptOf
  <2> QED
    BY <1>3, <2>1, <2>2, <2>3 DEF Lives, Keeps
<1> QED
  BY <1>0, <1>1, <1>2, <1>3, AttemptsLive

\* An attempt that runs in an aborted window has no part, and gets none.
LEMMA AbortedParts ==
    ASSUME ServiceInv, WindowInv, [NextService]_allVars, ~Collecting,
           NEW n \in Lease, NEW k \in Try, attempt[n][k].state \in LiveStates,
           ~NewWindow
    PROVE  attempt[n][k].parts = 0 /\ attempt'[n][k].parts = 0
<1>0. TypeInv /\ LifeInv /\ ([Next]_vars \/ StaleStep)
  BY StepOfCoordinator DEF ServiceInv
<1>1. Live(n)
  BY <1>0 DEF LifeInv, OneLive, Live, Current, LiveStates, Try
<1>2. Aborted
  BY <1>1 DEF WindowInv, OrderlyInv, IInv, LeaseInv, LiveIsOpen
<1>3. ~Collecting'
  BY <1>0, AttemptsLive
<1>4. AbortedInv /\ AbortedInv'
  BY <1>0, <1>2, <1>3, AfterAbort DEF WindowInv
<1> QED
  BY <1>4 DEF AbortedInv

\* The parts of a live attempt grow by the part that is taken for it.
LEMMA PartsStay ==
    ASSUME ServiceInv, WindowInv, [NextService]_allVars,
           NEW id \in LeaseId, Begun(id), Names(id)'
    PROVE  /\ Names(id)
           /\ AttemptOf(id).parts \in Nat
           /\ AttemptOf(id).parts' = AttemptOf(id).parts + (IF Takes(id) THEN 1 ELSE 0)
<1> DEFINE n == id.lease
           k == id.try
<1>0. /\ TypeInv /\ LifeInv /\ WireTypeOK
      /\ n \in Lease /\ k \in Try /\ k \in Nat /\ k > 0
      /\ id = [window |-> id.window, lease |-> n, try |-> k]
      /\ attempt[n][k] \in Attempt /\ attempt[n][k].parts \in Nat
      /\ tries[n] \in Nat
  <2>1. TypeInv /\ LifeInv /\ WireTypeOK
    BY DEF ServiceInv, WireTypeInv
  <2>2. n \in Lease /\ k \in Try /\ id = [window |-> id.window, lease |-> n, try |-> k]
    BY DEF LeaseId
  <2>3. attempt[n][k] \in Attempt /\ tries[n] \in Nat
    BY <2>1, <2>2, BoundAssumption DEF TypeInv, TypeOK, AttemptMap
  <2> QED
    BY <2>1, <2>2, <2>3, BudgetAssumption, BoundAssumption DEF Try, Attempt
<1>1. /\ id.window = window' /\ tries'[n] = k
      /\ attempt'[n][k].state \in LiveStates
  BY <1>0 DEF Names, Live, Current, LiveStates
<1>2. id.window = window /\ window' = window
  BY <1>1, BegunStays
<1>3. attempt[n][k].state # "unstarted"
  BY <1>2 DEF Begun, AttemptOf
<1>a. ~NewWindow
  BY <1>0, <1>1 DEF NewWindow, Unstarted, LiveStates
<1>4. ASSUME attempt[n][k].state \in LiveStates PROVE Names(id) /\ k = tries[n]
  <2>1. k = tries[n]
    BY <1>0, <1>4 DEF LifeInv, OneLive
  <2> QED
    BY <1>0, <1>2, <1>4, <2>1 DEF Names, Live, Current, LiveStates
<1>5. ASSUME Ages(attempt[n][k], attempt'[n][k])
      PROVE  Names(id) /\ k = tries[n] /\ attempt'[n][k].parts = attempt[n][k].parts
  <2>1. attempt[n][k].state \in LiveStates
    BY <1>0, <1>1, <1>3, <1>5 DEF Ages, Attempt, LiveStates
  <2>2. attempt'[n][k].parts = attempt[n][k].parts
    <3>1. CASE Collecting
      BY <1>1, <1>5, <3>1 DEF Ages
    <3>2. CASE ~Collecting
      BY <1>0, <1>a, <2>1, <3>2, AbortedParts
    <3> QED
      BY <3>1, <3>2
  <2> QED
    BY <1>4, <2>1, <2>2
<1>6. CASE \E v \in Worker : TakesPart(v)
  <2>1. PICK v \in Worker : TakesPart(v)
    BY <1>6
  <2> DEFINE a == Head(uploads[v]).attempt
  <2>2. a \in LeaseId /\ a.lease \in Lease
    BY <1>0, <2>1, UploadTypes DEF TakesPart, ServePart
  <2>3. PartLife(a.lease) /\ a.window = window /\ tries[a.lease] = a.try
    BY <1>0, <2>1, <2>2, PartLives DEF TakesPart, Names
  <2>4. CASE a = id
    <3>1. k = tries[n] /\ Grows(n)
      BY <2>3, <2>4 DEF PartLife
    <3>2. /\ attempt[n][k].state \in LiveStates
          /\ attempt'[n][k].parts = attempt[n][k].parts + 1
      BY <3>1 DEF Grows, LiveStates
    <3>3. Takes(id)
      BY <2>1, <2>4 DEF Takes
    <3> QED
      BY <1>0, <1>4, <3>2, <3>3 DEF AttemptOf
  <2>5. CASE a # id
    <3>1. a = [window |-> a.window, lease |-> a.lease, try |-> a.try]
      BY <2>2 DEF LeaseId
    <3>2. a.lease # n \/ a.try # k
      BY <1>0, <1>2, <2>3, <2>5, <3>1
    <3>3. Ages(attempt[n][k], attempt'[n][k])
      BY <1>0, <2>3, <3>2 DEF PartLife
    <3>4. Names(id) /\ k = tries[n] /\ attempt'[n][k].parts = attempt[n][k].parts
      BY <1>5, <3>3
    <3>5. ~Takes(id)
      <4> SUFFICES ASSUME NEW u \in Worker, TakesPart(u), Head(uploads[u]).attempt = id
                   PROVE  FALSE
        BY DEF Takes
      <4>1. PartLife(n)
        BY <1>0, PartLives DEF TakesPart
      <4>2. attempt'[n][tries[n]].parts = attempt[n][tries[n]].parts + 1
        BY <4>1 DEF PartLife, Grows
      <4> QED
        BY <1>0, <3>4, <4>2
    <3> QED
      BY <1>0, <3>4, <3>5 DEF AttemptOf
  <2> QED
    BY <2>4, <2>5
<1>7. CASE ~\E v \in Worker : TakesPart(v)
  <2>1. QuietLife
    BY <1>0, <1>7, StepTakesPart, QuietLives
  <2>2. Keeps(n, k)
    BY <1>0, <1>a, <2>1 DEF QuietLife
  <2>3. Ages(attempt[n][k], attempt'[n][k])
    BY <1>3, <2>2 DEF Keeps
  <2>4. ~Takes(id)
    BY <1>7 DEF Takes
  <2> QED
    BY <1>0, <1>5, <2>3, <2>4 DEF AttemptOf
<1> QED
  BY <1>6, <1>7

(***************************************************************************)
(* The attempts that the messages of a channel name                        *)
(***************************************************************************)

Ids(q) == {m.attempt : m \in Range(q)}

\* at most one message of q names id
Once(q, id) == \A i, j \in DOMAIN q : q[i].attempt = id /\ q[j].attempt = id => i = j

LEMMA IdsOfAppend ==
    ASSUME NEW S, NEW q \in Seq(S), NEW m, NEW id, Once(q, id), m.attempt # id \/ id \notin Ids(q)
    PROVE  /\ Ids(Append(q, m)) = Ids(q) \cup {m.attempt}
           /\ Once(Append(q, m), id)
<1>1. Ids(Append(q, m)) = Ids(q) \cup {m.attempt}
  BY RangeOfAppend DEF Ids
<1>2. /\ Len(q) \in Nat /\ DOMAIN q = 1 .. Len(q)
      /\ DOMAIN Append(q, m) = 1 .. (Len(q) + 1)
      /\ \A i \in 1 .. Len(q) : Append(q, m)[i] = q[i]
      /\ Append(q, m)[Len(q) + 1] = m
  OBVIOUS
<1>3. \A i \in DOMAIN q : q[i].attempt = id => m.attempt # id
  BY DEF Ids, Range
<1>4. ASSUME NEW i \in DOMAIN Append(q, m), NEW j \in DOMAIN Append(q, m),
             Append(q, m)[i].attempt = id, Append(q, m)[j].attempt = id
      PROVE  i = j
  <2> DEFINE r == Append(q, m)
  <2>1. i \in DOMAIN q \/ i = Len(q) + 1
    BY <1>2
  <2>2. j \in DOMAIN q \/ j = Len(q) + 1
    BY <1>2
  <2>3. /\ i \in DOMAIN q => r[i] = q[i]
        /\ j \in DOMAIN q => r[j] = q[j]
        /\ r[Len(q) + 1] = m
    BY <1>2
  <2> HIDE DEF r
  <2>4. r[i].attempt = id /\ r[j].attempt = id
    BY <1>4 DEF r
  <2> QED
    BY <1>3, <2>1, <2>2, <2>3, <2>4 DEF Once
<1> QED
  BY <1>1, <1>4 DEF Once

LEMMA IdsOfTail ==
    ASSUME NEW S, NEW q \in Seq(S), q # <<>>, NEW id, Once(q, id)
    PROVE  /\ Once(Tail(q), id)
           /\ Head(q).attempt = id => id \notin Ids(Tail(q))
<1>1. /\ Len(q) \in Nat /\ Len(q) > 0 /\ DOMAIN q = 1 .. Len(q)
      /\ DOMAIN Tail(q) = 1 .. (Len(q) - 1)
      /\ \A i \in 1 .. (Len(q) - 1) : Tail(q)[i] = q[i + 1]
      /\ Head(q) = q[1]
  OBVIOUS
<1> DEFINE r == Tail(q)
<1>2. \A i \in DOMAIN r : i \in Nat /\ i + 1 \in DOMAIN q /\ r[i] = q[i + 1] /\ i + 1 # 1
  BY <1>1
<1>3. 1 \in DOMAIN q /\ Head(q) = q[1]
  BY <1>1
<1> HIDE DEF r
<1>4. Once(r, id)
  BY <1>2 DEF Once
<1>5. ASSUME Head(q).attempt = id, id \in Ids(r) PROVE FALSE
  <2>1. PICK i \in DOMAIN r : r[i].attempt = id
    BY <1>5 DEF Ids, Range
  <2> QED
    BY <1>2, <1>3, <1>5, <2>1 DEF Once
<1> QED
  BY <1>4, <1>5 DEF r

LEMMA IdsOfNone == Ids(<<>>) = {} /\ \A id : Once(<<>>, id)
<1>1. DOMAIN <<>> = {}
  OBVIOUS
<1> QED
  BY <1>1, RangeOfNone DEF Ids, Once

LEMMA IdsOfLess ==
    ASSUME NEW q, NEW r, Range(r) \subseteq Range(q)
    PROVE  Ids(r) \subseteq Ids(q)
  BY DEF Ids

(***************************************************************************)
(* Whose attempt a message names                                           *)
(***************************************************************************)

\* id has been started for session x of w
OwnedBy(id, w, x) == Begun(id) /\ (id.window = window => AttemptOf(id).owner = <<w, x>>)

Owned(w) ==
    /\ at[w] = "off" => replies[w] = <<>> /\ acks[w] = <<>>
    /\ at[w] \in AttemptStates => OwnedBy(held[w], w, own[w])
    /\ \A id \in Ids(replies[w]) \cap LeaseId : OwnedBy(id, w, own[w])
    /\ \A m \in Range(uploads[w]) : OwnedBy(m.attempt, w, m.session)
    /\ \A id \in Ids(acks[w]) : OwnedBy(id, w, own[w])

OwnedInv == \A w \in Worker : Owned(w)

LEMMA OwnedByStays ==
    ASSUME ServiceInv, [NextService]_allVars, NEW id \in LeaseId, NEW w, NEW x,
           OwnedBy(id, w, x)
    PROVE  OwnedBy(id, w, x)'
  BY BegunStays DEF OwnedBy

LEMMA MessageTypes ==
    ASSUME WireTypeOK, NEW w \in Worker
    PROVE  /\ \A m \in Range(uploads[w]) : m \in Part /\ m.attempt \in LeaseId
           /\ \A m \in Range(acks[w]) : m \in PartAnswer /\ m.attempt \in LeaseId
           /\ Ids(acks[w]) \subseteq LeaseId /\ Ids(uploads[w]) \subseteq LeaseId
           /\ \A m \in Range(replies[w]) : m \in Answer
<1>1. uploads[w] \in Seq(Part) /\ acks[w] \in Seq(PartAnswer) /\ replies[w] \in Seq(Answer)
  BY WireFacts
<1>2. /\ \A i \in DOMAIN uploads[w] : uploads[w][i] \in Part
      /\ \A i \in DOMAIN acks[w] : acks[w][i] \in PartAnswer
      /\ \A i \in DOMAIN replies[w] : replies[w][i] \in Answer
  BY <1>1
<1>3. /\ \A m \in Part : m.attempt \in LeaseId
      /\ \A m \in PartAnswer : m.attempt \in LeaseId
  BY DEF Part, PartAnswer
<1> QED
  BY <1>2, <1>3 DEF Range, Ids

LEMMA OwnedAfter ==
    ASSUME ServiceInv, [NextService]_allVars, NEW w \in Worker, Owned(w),
           at'[w] = "off" => replies'[w] = <<>> /\ acks'[w] = <<>>,
           \/ own'[w] = own[w]
           \/ at'[w] \notin AttemptStates /\ replies'[w] = <<>> /\ acks'[w] = <<>>,
           at'[w] \in AttemptStates =>
             held'[w] \in LeaseId /\ OwnedBy(held'[w], w, own[w]),
           \A id \in (Ids(replies'[w]) \cap LeaseId) \ Ids(replies[w]) :
             OwnedBy(id, w, own[w])',
           \A m \in Range(uploads'[w]) \ Range(uploads[w]) :
             m.attempt \in LeaseId /\ OwnedBy(m.attempt, w, m.session),
           \A id \in Ids(acks'[w]) \ Ids(acks[w]) :
             id \in LeaseId /\ OwnedBy(id, w, own[w])
    PROVE  Owned(w)'
<1>1. \A id \in LeaseId : \A x : OwnedBy(id, w, x) => OwnedBy(id, w, x)'
  BY OwnedByStays
<1>2. /\ \A m \in Range(uploads[w]) : m.attempt \in LeaseId
      /\ Ids(acks[w]) \subseteq LeaseId
  BY MessageTypes DEF ServiceInv, WireTypeInv
<1>3. PICK x : x = own[w]
  OBVIOUS
<1>4. PICK h : h = held'[w]
  OBVIOUS
<1>5. at'[w] \in AttemptStates => OwnedBy(held[w], w, own[w])'
  <2>1. at'[w] \in AttemptStates => h \in LeaseId /\ OwnedBy(h, w, x) /\ own'[w] = x
    BY <1>3, <1>4
  <2>2. at'[w] \in AttemptStates => OwnedBy(h, w, x)'
    BY <1>1, <2>1
  <2> QED
    BY <1>4, <2>1, <2>2 DEF OwnedBy, Begun, AttemptOf
<1>6. ASSUME NEW id \in Ids(replies'[w]) \cap LeaseId PROVE OwnedBy(id, w, own[w])'
  <2>1. CASE id \in Ids(replies[w])
    <3>1. OwnedBy(id, w, x)'
      BY <1>1, <1>3, <1>6, <2>1 DEF Owned
    <3>2. own'[w] = x
      BY <1>3, <1>6, IdsOfNone
    <3> QED
      BY <3>1, <3>2 DEF OwnedBy
  <2> QED
    BY <1>6, <2>1
<1>7. ASSUME NEW m \in Range(uploads'[w]) PROVE OwnedBy(m.attempt, w, m.session)'
  <2>1. m.attempt \in LeaseId /\ OwnedBy(m.attempt, w, m.session)
    BY <1>2, <1>7 DEF Owned
  <2> QED
    BY <1>1, <2>1
<1>8. ASSUME NEW id \in Ids(acks'[w]) PROVE OwnedBy(id, w, own[w])'
  <2>1. id \in LeaseId /\ OwnedBy(id, w, x)
    BY <1>2, <1>3, <1>8 DEF Owned
  <2>2. own'[w] = x
    BY <1>3, <1>8, IdsOfNone
  <2> QED
    BY <1>1, <2>1, <2>2 DEF OwnedBy
<1> QED
  BY <1>5, <1>6, <1>7, <1>8 DEF Owned

\* r is what is left of q after at most one message was taken or all are lost
LeftOf(r, q) == r = q \/ r = <<>> \/ (q # <<>> /\ r = Tail(q))

LEMMA LessLeft ==
    ASSUME NEW S, NEW q \in Seq(S), NEW r, LeftOf(r, q)
    PROVE  /\ Range(r) \subseteq Range(q) /\ Ids(r) \subseteq Ids(q)
           /\ \A id : Once(q, id) => Once(r, id)
<1>1. Range(r) \subseteq Range(q)
  BY RangeOfTail, RangeOfNone DEF LeftOf
<1>2. ASSUME NEW id, Once(q, id) PROVE Once(r, id)
  BY <1>2, IdsOfTail, IdsOfNone DEF LeftOf
<1> QED
  BY <1>1, <1>2, IdsOfLess

\* What a process does with its channels and its attempt.
LEMMA ProcessMoves ==
    ASSUME WireTypeOK, NEW w \in Worker, ProcessStep(w) \/ Crash(w) \/ DropReply(w)
    PROVE  /\ own' = own
           /\ at'[w] = "off" => at[w] = "off" \/ (replies'[w] = <<>> /\ acks'[w] = <<>>)
           /\ LeftOf(replies'[w], replies[w]) /\ LeftOf(acks'[w], acks[w])
           /\ uploads'[w] = uploads[w] \/ Upload(w)
           /\ at'[w] \in AttemptStates =>
                TakeLease(w) \/ (at[w] \in AttemptStates /\ held'[w] = held[w])
<1>b. /\ LoopStates = {"register", "ready", "work", "poll"}
      /\ AttemptStates = {"collect", "upload", "beat", "final", "complete", "failed"}
  BY DEF LoopStates, AttemptStates
<1>d. /\ DOMAIN requests = Worker /\ DOMAIN replies = Worker /\ DOMAIN uploads = Worker
      /\ DOMAIN acks = Worker /\ DOMAIN at = Worker /\ DOMAIN own = Worker
      /\ DOMAIN held = Worker
  BY DEF WireTypeOK
<1>1. CASE LoopRaises(w) \/ TimeoutInLoop(w) \/ Crash(w)
  <2>1. Exit(w) /\ at[w] # "off"
    BY <1>b, <1>1 DEF LoopRaises, TimeoutInLoop, Crash, Answered
  <2> QED
    BY <1>b, <1>d, <2>1 DEF Exit, LeftOf
<1>2. CASE Registered(w) \/ Poll(w)
  BY <1>b, <1>d, <1>2 DEF Registered, Poll, Answered, Ask, Pop, process, LeftOf
<1>3. CASE TakeLease(w)
  BY <1>b, <1>d, <1>3 DEF TakeLease, Answered, Pop, LeftOf
<1>4. ASSUME AskForWork(w), replies[w] # <<>>, replies' = Pop(replies, w),
             UNCHANGED <<uploads, acks>>
      PROVE  /\ own' = own /\ at'[w] = "work" /\ uploads'[w] = uploads[w]
             /\ LeftOf(replies'[w], replies[w]) /\ LeftOf(acks'[w], acks[w])
  BY <1>d, <1>4 DEF AskForWork, Ask, Pop, LeftOf
<1>5. CASE LoopAgain(w)
  <2>1. AskForWork(w) /\ replies[w] # <<>> /\ replies' = Pop(replies, w)
        /\ UNCHANGED <<uploads, acks>>
    BY <1>5 DEF LoopAgain, Answered
  <2> QED
    BY <1>b, <1>4, <2>1
<1>6. CASE CollectionRaises(w) \/ Heartbeat(w)
  BY <1>b, <1>d, <1>6 DEF CollectionRaises, Heartbeat, ReportFailure, Ask, process, LeftOf
<1>7. CASE Upload(w)
  BY <1>b, <1>d, <1>7 DEF Upload, process, LeftOf
<1>8. CASE Uploaded(w)
  <2>1. /\ at[w] = "upload" /\ acks[w] # <<>> /\ acks'[w] = Tail(acks[w])
        /\ UNCHANGED <<own, held, replies, uploads>>
    BY <1>8, <1>d DEF Uploaded, Pop, ReportFailure, process
  <2>2. at'[w] # "off"
    BY <1>8, <1>d DEF Uploaded, ReportFailure, Ask
  <2> QED
    BY <1>b, <2>1, <2>2 DEF LeftOf
<1>9. CASE Beaten(w)
  BY <1>b, <1>d, <1>9 DEF Beaten, Answered, Pop, LeftOf
<1>10. CASE Collected(w)
  <2>1. at[w] = "final" /\ replies[w] # <<>> /\ replies' = Pop(replies, w)
        /\ UNCHANGED <<uploads, acks>>
    BY <1>10 DEF Collected, Answered
  <2>2. AskForWork(w) \/ (Ask(w, "complete", "complete") /\ UNCHANGED process)
    BY <1>10 DEF Collected
  <2>3. CASE AskForWork(w)
    BY <1>b, <1>4, <2>1, <2>3
  <2>4. CASE Ask(w, "complete", "complete") /\ UNCHANGED process
    BY <1>b, <1>d, <2>1, <2>4 DEF Ask, Pop, process, LeftOf
  <2> QED
    BY <2>2, <2>3, <2>4
<1>11. CASE AttemptRaises(w)
  BY <1>b, <1>d, <1>11 DEF AttemptRaises, Answered, Pop, ReportFailure, Ask, process, LeftOf
<1>12. CASE AttemptEnds(w)
  <2>1. AskForWork(w) /\ replies[w] # <<>> /\ replies' = Pop(replies, w)
        /\ UNCHANGED <<uploads, acks>>
    BY <1>12 DEF AttemptEnds, Answered
  <2> QED
    BY <1>b, <1>4, <2>1
<1>13. CASE TimeoutInAttempt(w)
  BY <1>b, <1>d, <1>13 DEF TimeoutInAttempt, ReportFailure, Ask, process, LeftOf
<1>14. CASE TimeoutInReport(w)
  BY <1>b, <1>d, <1>14 DEF TimeoutInReport, AskForWork, Ask, LeftOf
<1>15. CASE DropReply(w)
  <2>1. UNCHANGED <<at, own, held, uploads>>
    BY <1>15 DEF DropReply, process
  <2>2. LeftOf(replies'[w], replies[w]) /\ LeftOf(acks'[w], acks[w])
    BY <1>d, <1>15 DEF DropReply, Pop, LeftOf
  <2> QED
    BY <2>1, <2>2
<1> QED
  BY <1>1, <1>2, <1>3, <1>5, <1>6, <1>7, <1>8, <1>9, <1>10, <1>11, <1>12, <1>13, <1>14, <1>15
  DEF ProcessStep

\* The new messages of a step belong to their worker.
LEMMA ProcessOwned ==
    ASSUME ServiceInv, OwnedInv, [NextService]_allVars, NEW w \in Worker,
           ProcessStep(w) \/ Environment(w)
    PROVE  Owned(w)'
<1>0. WireTypeOK /\ HoldsLease /\ Owned(w)
  BY DEF ServiceInv, WireTypeInv, OwnedInv
<1>1. CASE StartProcess(w)
  <2>1. /\ at[w] = "off" /\ at'[w] = "register"
        /\ UNCHANGED <<replies, uploads, acks>>
    BY <1>0, <1>1 DEF StartProcess, WireTypeOK
  <2>2. replies'[w] = <<>> /\ acks'[w] = <<>> /\ at'[w] \notin AttemptStates
    BY <1>0, <2>1 DEF Owned, AttemptStates
  <2>3. Ids(replies'[w]) = {} /\ Ids(acks'[w]) = {}
    BY <2>2, IdsOfNone
  <2> QED
    BY <1>0, <2>1, <2>2, <2>3, OwnedAfter
<1>2. CASE ProcessStep(w) \/ Crash(w) \/ DropReply(w)
  <2>1. /\ own' = own
        /\ at'[w] = "off" => at[w] = "off" \/ (replies'[w] = <<>> /\ acks'[w] = <<>>)
        /\ LeftOf(replies'[w], replies[w]) /\ LeftOf(acks'[w], acks[w])
        /\ uploads'[w] = uploads[w] \/ Upload(w)
        /\ at'[w] \in AttemptStates =>
             TakeLease(w) \/ (at[w] \in AttemptStates /\ held'[w] = held[w])
    BY <1>0, <1>2, ProcessMoves
  <2>2. at'[w] = "off" => replies'[w] = <<>> /\ acks'[w] = <<>>
    BY <1>0, <2>1 DEF LeftOf, Owned
  <2>3. Ids(replies'[w]) \subseteq Ids(replies[w]) /\ Ids(acks'[w]) \subseteq Ids(acks[w])
    BY <1>0, <2>1, LessLeft, WireFacts
  <2>4. at'[w] \in AttemptStates => held'[w] \in LeaseId /\ OwnedBy(held'[w], w, own[w])
    <3>1. ASSUME TakeLease(w)
          PROVE  held'[w] \in LeaseId /\ OwnedBy(held'[w], w, own[w])
      <4>1. /\ replies[w] # <<>> /\ Head(replies[w]).kind = "lease"
            /\ held'[w] = Head(replies[w]).attempt
        BY <1>0, <3>1 DEF TakeLease, Answered, WireTypeOK
      <4>2. Head(replies[w]) \in Range(replies[w]) /\ Head(replies[w]) \in Answer
        BY <1>0, <4>1, RangeOfTail, WireFacts
      <4>3. held'[w] \in Ids(replies[w]) \cap LeaseId
        BY <4>1, <4>2 DEF Ids, Answer
      <4> QED
        BY <1>0, <4>3 DEF Owned
    <3> QED
      BY <1>0, <2>1, <3>1 DEF HoldsLease, Owned
  <2>5. ASSUME NEW m \in Range(uploads'[w]) \ Range(uploads[w])
        PROVE  m.attempt \in LeaseId /\ OwnedBy(m.attempt, w, m.session)
    <3>1. Upload(w)
      BY <2>1, <2>5
    <3> DEFINE p == [attempt |-> held[w], part |-> sent[w], session |-> own[w]]
    <3>2. at[w] = "collect" /\ uploads'[w] = Append(uploads[w], p)
      BY <1>0, <3>1 DEF Upload, WireTypeOK
    <3>3. m = p
      <4> HIDE DEF p
      <4> QED
        BY <1>0, <2>5, <3>2, RangeOfAppend, WireFacts
    <3> QED
      BY <1>0, <3>2, <3>3 DEF Owned, HoldsLease, AttemptStates
  <2> QED
    BY <1>0, <2>1, <2>2, <2>3, <2>4, <2>5, OwnedAfter
<1> QED
  BY <1>1, <1>2 DEF Environment

\* A lease is started for the session it is sent to, and it is new.
LEMMA LeaseStarts ==
    ASSUME ServiceInv, OrderInv, NEW w \in Worker, StartChosen(w),
           NEW id, id = [window |-> window, lease |-> chosen.lease,
                         try |-> tries[chosen.lease] + 1]
    PROVE  /\ id \in LeaseId /\ ~Begun(id) /\ Begun(id)'
           /\ AttemptOf(id)' = [owner |-> <<w, chosen.session>>, state |-> "running",
                                parts |-> 0, term |-> 0]
<1>0. WireTypeOK /\ TypeInv /\ LifeInv /\ InOrder(w)
  BY DEF ServiceInv, WireTypeInv, OrderInv
<1> DEFINE n == chosen.lease
<1>1. /\ chosen.worker = w /\ MayStart(n, w) /\ StartAttempt(n, w) /\ window' = window
  BY DEF StartChosen, windowState
<1>2. n \in Lease
  BY <1>0, <1>1, WireAssumption DEF WireTypeOK, Choice, Nothing, NoPlan
<1>3. /\ tries[n] \in Nat /\ tries[n] + 1 \in Try /\ window \in Nat
  <2>1. tries[n] \in Nat /\ tries[n] < MaximumAttempts /\ window \in Nat
    BY <1>0, <1>1, <1>2, BudgetAssumption, BoundAssumption DEF TypeInv, TypeOK, MayStart, Fresh
  <2> QED
    BY <2>1, BudgetAssumption DEF Try
<1>4. id \in LeaseId /\ id.window = window /\ id.lease = n /\ id.try = tries[n] + 1
  BY <1>2, <1>3 DEF LeaseId
<1>5. attempt[n][tries[n] + 1].state = "unstarted"
  BY <1>0, <1>2, <1>3 DEF LifeInv, Counted
<1>6. session[w] = chosen.session
  BY <1>0, <1>1 DEF InOrder, Latest
<1>7. attempt'[n][tries[n] + 1] = [owner |-> <<w, chosen.session>>, state |-> "running",
                                  parts |-> 0, term |-> 0]
  BY <1>0, <1>1, <1>2, <1>3, <1>6 DEF StartAttempt, TypeInv, TypeOK, AttemptMap
<1>8. ~Begun(id)
  BY <1>4, <1>5 DEF Begun, AttemptOf
<1>9. AttemptOf(id)' = attempt'[n][tries[n] + 1]
  BY <1>4 DEF AttemptOf
<1>10. Begun(id)'
  BY <1>1, <1>3, <1>4, <1>7, <1>9 DEF Begun
<1> QED
  BY <1>4, <1>7, <1>8, <1>9, <1>10

\* What a worker is answered: only the start of a lease sends a new one.
LEMMA ServeReplies ==
    ASSUME WireTypeOK, TypeInv, NEW w \in Worker, Serve(w)
    PROVE  \/ replies'[w] = replies[w]
           \/ \E m : /\ replies'[w] = Append(replies[w], m)
                     /\ at[w] # "off"
                     /\ \/ m.attempt \notin LeaseId
                        \/ /\ StartChosen(w) /\ own[w] = chosen.session
                           /\ m.attempt = [window |-> window, lease |-> chosen.lease,
                                           try |-> tries[chosen.lease] + 1]
<1>1. NoAttempt \notin LeaseId /\ Receipt \notin LeaseId
  BY DEF LeaseId, NoAttempt, Receipt, Lease
<1>2. ASSUME NEW s, NEW kind, NEW a, Reply(w, s, kind, a)
      PROVE  \/ replies'[w] = replies[w]
             \/ \E m : /\ replies'[w] = Append(replies[w], m)
                       /\ at[w] # "off" /\ own[w] = s /\ m.attempt = a
  <2>1. CASE at[w] # "off" /\ own[w] = s
    <3>1. replies'[w] = Append(replies[w], [kind |-> kind, attempt |-> a])
      BY <1>2, <2>1, WireFacts DEF Reply
    <3> QED
      BY <2>1, <3>1
  <2>2. CASE ~(at[w] # "off" /\ own[w] = s)
    BY <1>2, <2>2 DEF Reply
  <2> QED
    BY <2>1, <2>2
<1>3. CASE ~StartChosen(w)
  <2>1. \/ replies' = replies
        \/ \E s, kind, a : a \in {NoAttempt, Receipt} /\ Reply(w, s, kind, a)
    <3>1. CASE ServeRegister(w) \/ ServeReady(w) \/ ServeFailed(w) \/ ServeComplete(w)
      BY <3>1 DEF ServeRegister, ServeReady, ServeFailed, ServeComplete, Served
    <3>2. CASE ServeHeartbeat(w)
      BY <3>2 DEF ServeHeartbeat, Served
    <3>3. CASE ServeNoWork(w)
      BY <3>3 DEF ServeNoWork, SettledReply
    <3>4. CASE ChooseLease(w) \/ ServePart(w)
      BY <3>4 DEF ChooseLease, ServePart
    <3>5. CASE ChosenRefused(w)
      BY <3>5 DEF ChosenRefused, SettledReply
    <3> QED
      BY <1>3, <3>1, <3>2, <3>3, <3>4, <3>5 DEF Serve
  <2> QED
    BY <1>1, <1>2, <2>1
<1>4. CASE StartChosen(w)
  <2>1. Reply(w, chosen.session, "lease",
              [window |-> window, lease |-> chosen.lease, try |-> tries[chosen.lease] + 1])
    BY <1>4 DEF StartChosen
  <2> QED
    BY <1>2, <1>4, <2>1
<1> QED
  BY <1>3, <1>4

\* What a part is answered: only the part that is taken is acknowledged.
LEMMA ServeAcks ==
    ASSUME WireTypeOK, NEW w \in Worker, Serve(w)
    PROVE  \/ acks'[w] = acks[w]
           \/ \E m : /\ ServePart(w) /\ acks'[w] = Append(acks[w], m)
                     /\ at[w] # "off" /\ own[w] = Head(uploads[w]).session
                     /\ m.attempt = Head(uploads[w]).attempt
                     /\ m.part = Head(uploads[w]).part
                     /\ m.kind = "ack" => TakesPart(w)
<1>1. CASE ~ServePart(w)
  BY <1>1 DEF Serve, ServeRegister, ServeReady, ServeHeartbeat, ServeNoWork, ChooseLease,
              StartChosen, ChosenRefused, ServeFailed, ServeComplete
<1>2. CASE ServePart(w)
  <2> DEFINE p == Head(uploads[w])
             Ack(kind) == [kind |-> kind, attempt |-> p.attempt, part |-> p.part]
             Acked(kind) == IF at[w] # "off" /\ own[w] = p.session
                            THEN [acks EXCEPT ![w] = Append(@, Ack(kind))]
                            ELSE acks
  <2>1. PICK kind \in {"ack", "drain", "abort"} :
          acks' = Acked(kind) /\ (kind = "ack" => TakesPart(w))
    <3>1. \/ acks' = Acked("drain")
          \/ acks' = Acked("ack") /\ TakesPart(w)
          \/ acks' = Acked("abort")
      BY <1>2 DEF ServePart, TakesPart, Reservable
    <3> QED
      BY <3>1
  <2>2. CASE at[w] # "off" /\ own[w] = p.session
    <3>1. acks'[w] = Append(acks[w], Ack(kind))
      BY <2>1, <2>2 DEF WireTypeOK
    <3> QED
      BY <1>2, <2>1, <2>2, <3>1
  <2>3. CASE ~(at[w] # "off" /\ own[w] = p.session)
    BY <2>1, <2>3
  <2> QED
    BY <2>2, <2>3
<1> QED
  BY <1>1, <1>2

LEMMA ServeOwned ==
    ASSUME ServiceInv, OrderInv, OwnedInv, NEW w \in Worker, Serve(w)
    PROVE  Owned(w)'
<1>0. /\ WireTypeOK /\ HoldsLease /\ TypeInv /\ Owned(w) /\ UNCHANGED <<at, own, held>>
      /\ [NextService]_allVars
      /\ replies[w] \in Seq(Answer) /\ acks[w] \in Seq(PartAnswer)
  BY ServeFrame, WireFacts DEF ServiceInv, WireTypeInv, OwnedInv, NextService, process
<1>1. at[w] = "off" => replies'[w] = <<>> /\ acks'[w] = <<>>
  BY <1>0, ServeReplies, ServeAcks DEF Owned
<1>2. ASSUME NEW id \in (Ids(replies'[w]) \cap LeaseId) \ Ids(replies[w])
      PROVE  OwnedBy(id, w, own[w])'
  <2>1. PICK m : /\ replies'[w] = Append(replies[w], m)
                 /\ \/ m.attempt \notin LeaseId
                    \/ /\ StartChosen(w) /\ own[w] = chosen.session
                       /\ m.attempt = [window |-> window, lease |-> chosen.lease,
                                       try |-> tries[chosen.lease] + 1]
    BY <1>0, <1>2, ServeReplies
  <2>2. id = m.attempt
    BY <1>0, <1>2, <2>1, RangeOfAppend DEF Ids
  <2>3. /\ StartChosen(w) /\ own[w] = chosen.session
        /\ id = [window |-> window, lease |-> chosen.lease, try |-> tries[chosen.lease] + 1]
    BY <1>2, <2>1, <2>2
  <2>4. Begun(id)' /\ AttemptOf(id)'.owner = <<w, chosen.session>>
    BY <2>3, LeaseStarts
  <2> QED
    BY <1>0, <2>3, <2>4 DEF OwnedBy
<1>3. ASSUME NEW id \in Ids(acks'[w]) \ Ids(acks[w])
      PROVE  id \in LeaseId /\ OwnedBy(id, w, own[w])
  <2>1. PICK m : /\ ServePart(w) /\ acks'[w] = Append(acks[w], m)
                 /\ own[w] = Head(uploads[w]).session
                 /\ m.attempt = Head(uploads[w]).attempt
    BY <1>0, <1>3, ServeAcks
  <2>2. id = Head(uploads[w]).attempt
    BY <1>0, <1>3, <2>1, RangeOfAppend DEF Ids
  <2>3. Head(uploads[w]) \in Range(uploads[w]) /\ Head(uploads[w]).attempt \in LeaseId
    BY <1>0, <2>1, UploadTypes DEF ServePart
  <2> QED
    BY <1>0, <2>1, <2>2, <2>3 DEF Owned
<1>4. Range(uploads'[w]) \subseteq Range(uploads[w])
  BY <1>0, ServeFrame
<1>5. at'[w] \in AttemptStates => held'[w] \in LeaseId /\ OwnedBy(held'[w], w, own[w])
  BY <1>0 DEF Owned, HoldsLease
<1> QED
  BY <1>0, <1>1, <1>2, <1>3, <1>4, <1>5, OwnedAfter

\* Steps of others leave what a worker owns.
LEMMA OwnedStays ==
    ASSUME ServiceInv, [NextService]_allVars, NEW v \in Worker, Owned(v),
           UNCHANGED <<at[v], own[v], held[v], replies[v], acks[v]>>,
           Range(uploads'[v]) \subseteq Range(uploads[v])
    PROVE  Owned(v)'
<1>1. HoldsLease
  BY DEF ServiceInv, WireTypeInv
<1>2. at'[v] = "off" => replies'[v] = <<>> /\ acks'[v] = <<>>
  BY DEF Owned
<1>3. at'[v] \in AttemptStates => held'[v] \in LeaseId /\ OwnedBy(held'[v], v, own[v])
  BY <1>1 DEF Owned, HoldsLease
<1>4. Ids(replies'[v]) = Ids(replies[v]) /\ Ids(acks'[v]) = Ids(acks[v])
  OBVIOUS
<1> QED
  BY <1>2, <1>3, <1>4, OwnedAfter

LEMMA NextOwnedInv ==
    ASSUME ServiceInv, OrderInv, OwnedInv, [NextService]_allVars
    PROVE  OwnedInv'
<1>0. WireTypeOK /\ \A v \in Worker : Owned(v)
  BY DEF ServiceInv, WireTypeInv, OwnedInv
<1>1. ASSUME NEW w \in Worker, ProcessStep(w) \/ Environment(w), NEW v \in Worker
      PROVE  Owned(v)'
  <2>1. CASE v = w
    BY <1>1, <2>1, ProcessOwned
  <2>2. CASE v # w
    <3>1. UNCHANGED <<at[v], own[v], held[v], discarding[v], requests[v], replies[v],
                      uploads[v], acks[v], chosen>>
      BY <1>0, <1>1, <2>2, ProcessFrame
    <3> QED
      BY <1>0, <3>1, OwnedStays
  <2> QED
    BY <2>1, <2>2
<1>2. ASSUME NEW w \in Worker, Serve(w), NEW v \in Worker PROVE Owned(v)'
  <2>1. CASE v = w
    BY <1>2, <2>1, ServeOwned
  <2>2. CASE v # w
    BY <1>0, <1>2, <2>2, ServeFrame, OwnedStays DEF process
  <2> QED
    BY <2>1, <2>2
<1>3. ASSUME Maintain \/ Boundary \/ AbortUnplanned \/ Learner \/ UNCHANGED allVars,
             NEW v \in Worker
      PROVE  Owned(v)'
  BY <1>0, <1>3, OtherFrame, OwnedStays DEF process, channels
<1> QED
  BY <1>1, <1>2, <1>3 DEF NextService, OwnedInv

LEMMA InitOwnedInv == InitService => OwnedInv
<1> SUFFICES ASSUME InitService, NEW w \in Worker PROVE Owned(w)
  BY DEF OwnedInv
<1>1. /\ at[w] = "off" /\ replies[w] = <<>> /\ acks[w] = <<>> /\ uploads[w] = <<>>
  BY DEF InitService
<1>2. Ids(replies[w]) = {} /\ Ids(acks[w]) = {} /\ Range(uploads[w]) = {}
  BY <1>1, IdsOfNone, RangeOfNone
<1> QED
  BY <1>1, <1>2 DEF Owned, AttemptStates

\* A part of an attempt comes from the worker that owns it.
LEMMA TakesOwn ==
    ASSUME ServiceInv, OwnedInv, NEW id, NEW w \in Worker, NEW x, OwnedBy(id, w, x),
           Takes(id)
    PROVE  TakesPart(w) /\ uploads[w] # <<>> /\ Head(uploads[w]).attempt = id
<1>0. WireTypeOK
  BY DEF ServiceInv, WireTypeInv
<1>1. PICK v \in Worker : TakesPart(v) /\ Head(uploads[v]).attempt = id
  BY DEF Takes
<1>2. uploads[v] # <<>>
  BY <1>1 DEF TakesPart, ServePart
<1>3. OwnedBy(id, v, Head(uploads[v]).session)
  BY <1>0, <1>1, <1>2, UploadTypes DEF OwnedInv, Owned
<1>4. <<v, Head(uploads[v]).session>> = <<w, x>>
  BY <1>1, <1>3 DEF OwnedBy, TakesPart, Names
<1>5. v = w
  BY <1>4
<1> QED
  BY <1>1, <1>2, <1>5

(***************************************************************************)
(* A lease on its way is new                                               *)
(***************************************************************************)

New(w, id) ==
    /\ at[w] \in AttemptStates => held[w] # id
    /\ id \notin Ids(uploads[w])
    /\ id \notin Ids(acks[w])
    /\ Once(replies[w], id)
    /\ Names(id) => AttemptOf(id).parts = 0

NewLeases(w) == \A id \in LeaseId : id \in Ids(replies[w]) => New(w, id)

NewInv == \A w \in Worker : NewLeases(w)

LEMMA NewStays ==
    ASSUME ServiceInv, WindowInv, OwnedInv, [NextService]_allVars,
           NEW w \in Worker, NEW id \in LeaseId, id \in Ids(replies[w]), New(w, id),
           at'[w] \in AttemptStates => held'[w] # id,
           id \notin Ids(uploads'[w]), id \notin Ids(acks'[w]), Once(replies'[w], id)
    PROVE  New(w, id)'
<1> SUFFICES ASSUME Names(id)' PROVE AttemptOf(id)'.parts = 0
  BY DEF New
<1>1. PICK x : x = own[w]
  OBVIOUS
<1>2. OwnedBy(id, w, x)
  BY <1>1 DEF OwnedInv, Owned
<1>3. /\ Names(id)
      /\ AttemptOf(id).parts' = AttemptOf(id).parts + (IF Takes(id) THEN 1 ELSE 0)
  BY <1>2, PartsStay DEF OwnedBy
<1>4. ~Takes(id)
  <2> SUFFICES ASSUME Takes(id) PROVE FALSE
    OBVIOUS
  <2>1. uploads[w] # <<>> /\ Head(uploads[w]).attempt = id
    BY <1>2, TakesOwn
  <2>2. Head(uploads[w]) \in Range(uploads[w])
    BY <2>1, UploadTypes DEF ServiceInv, WireTypeInv
  <2> QED
    BY <2>1, <2>2 DEF New, Ids
<1> QED
  BY <1>3, <1>4 DEF New

\* Steps that give a worker nothing of a lease that is on its way.
LEMMA NewStay ==
    ASSUME ServiceInv, WindowInv, OwnedInv, [NextService]_allVars,
           NEW w \in Worker, NewLeases(w),
           LeftOf(replies'[w], replies[w]), Ids(acks'[w]) \subseteq Ids(acks[w]),
           \A id \in Ids(replies'[w]) \cap LeaseId : id \notin Ids(uploads'[w]),
           \A id \in Ids(replies'[w]) \cap LeaseId :
             at'[w] \in AttemptStates => held'[w] # id
    PROVE  NewLeases(w)'
<1> SUFFICES ASSUME NEW id \in LeaseId, id \in Ids(replies'[w]) PROVE New(w, id)'
  BY DEF NewLeases
<1>1. replies[w] \in Seq(Answer)
  BY WireFacts DEF ServiceInv, WireTypeInv
<1>2. id \in Ids(replies[w])
  BY <1>1, LessLeft
<1>3. New(w, id)
  BY <1>2 DEF NewLeases
<1>4. Once(replies'[w], id)
  BY <1>1, <1>3, LessLeft DEF New
<1>5. id \notin Ids(acks'[w])
  BY <1>3 DEF New
<1> QED
  BY <1>2, <1>3, <1>4, <1>5, NewStays

LEMMA ProcessNew ==
    ASSUME ServiceInv, WindowInv, OwnedInv, NewInv, [NextService]_allVars,
           NEW w \in Worker, ProcessStep(w) \/ Environment(w)
    PROVE  NewLeases(w)'
<1>0. /\ WireTypeOK /\ HoldsLease /\ NewLeases(w) /\ Owned(w)
      /\ replies[w] \in Seq(Answer) /\ acks[w] \in Seq(PartAnswer) /\ uploads[w] \in Seq(Part)
  BY WireFacts DEF ServiceInv, WireTypeInv, NewInv, OwnedInv
<1>1. CASE StartProcess(w)
  <2>1. at[w] = "off" /\ UNCHANGED replies
    BY <1>1 DEF StartProcess
  <2>2. replies'[w] = <<>>
    BY <1>0, <2>1 DEF Owned
  <2> QED
    BY <2>2, IdsOfNone DEF NewLeases
<1>2. CASE ProcessStep(w) \/ Crash(w) \/ DropReply(w)
  <2>1. /\ LeftOf(replies'[w], replies[w]) /\ LeftOf(acks'[w], acks[w])
        /\ uploads'[w] = uploads[w] \/ Upload(w)
        /\ at'[w] \in AttemptStates =>
             TakeLease(w) \/ (at[w] \in AttemptStates /\ held'[w] = held[w])
    BY <1>0, <1>2, ProcessMoves
  <2>2. /\ Ids(acks'[w]) \subseteq Ids(acks[w])
        /\ Ids(replies'[w]) \subseteq Ids(replies[w])
    BY <1>0, <2>1, LessLeft
  <2>3. ASSUME NEW id \in Ids(replies'[w]) \cap LeaseId
        PROVE  New(w, id) /\ Once(replies[w], id)
    BY <1>0, <2>2, <2>3 DEF NewLeases, New
  <2>4. ASSUME NEW id \in Ids(replies'[w]) \cap LeaseId
        PROVE  id \notin Ids(uploads'[w])
    <3>1. CASE uploads'[w] = uploads[w]
      BY <2>3, <2>4, <3>1 DEF New
    <3>2. CASE Upload(w)
      <4> DEFINE p == [attempt |-> held[w], part |-> sent[w], session |-> own[w]]
      <4>1. at[w] = "collect" /\ uploads'[w] = Append(uploads[w], p)
        BY <1>0, <3>2 DEF Upload, WireTypeOK
      <4>2. p.attempt # id
        BY <2>3, <2>4, <4>1 DEF New, AttemptStates
      <4> HIDE DEF p
      <4>3. Ids(uploads'[w]) = Ids(uploads[w]) \cup {p.attempt}
        BY <1>0, <4>1, RangeOfAppend DEF Ids
      <4> QED
        BY <2>3, <2>4, <4>2, <4>3 DEF New
    <3> QED
      BY <2>1, <3>1, <3>2
  <2>5. ASSUME NEW id \in Ids(replies'[w]) \cap LeaseId, at'[w] \in AttemptStates
        PROVE  held'[w] # id
    <3>1. CASE TakeLease(w)
      <4>1. /\ replies[w] # <<>> /\ replies'[w] = Tail(replies[w])
            /\ held'[w] = Head(replies[w]).attempt
        BY <1>0, <3>1 DEF TakeLease, Answered, Pop, WireTypeOK
      <4> QED
        BY <1>0, <2>3, <2>5, <4>1, IdsOfTail
    <3>2. CASE at[w] \in AttemptStates /\ held'[w] = held[w]
      BY <2>3, <2>5, <3>2 DEF New
    <3> QED
      BY <2>1, <2>5, <3>1, <3>2
  <2> QED
    BY <1>0, <2>1, <2>2, <2>4, <2>5, NewStay
<1> QED
  BY <1>1, <1>2 DEF Environment

LEMMA ServeNew ==
    ASSUME ServiceInv, WindowInv, OrderInv, OwnedInv, NewInv,
           NEW w \in Worker, Serve(w)
    PROVE  NewLeases(w)'
<1>0. /\ WireTypeOK /\ HoldsLease /\ TypeInv /\ NewLeases(w) /\ Owned(w)
      /\ UNCHANGED <<at, own, held>> /\ [NextService]_allVars
      /\ replies[w] \in Seq(Answer) /\ acks[w] \in Seq(PartAnswer)
  BY ServeFrame, WireFacts
  DEF ServiceInv, WireTypeInv, OwnedInv, NewInv, NextService, process
<1> SUFFICES ASSUME NEW id \in LeaseId, id \in Ids(replies'[w]) PROVE New(w, id)'
  BY DEF NewLeases
<1>1. Range(uploads'[w]) \subseteq Range(uploads[w])
  BY <1>0, ServeFrame
<1>2. Ids(uploads'[w]) \subseteq Ids(uploads[w])
  BY <1>1, IdsOfLess
<1>3. CASE id \in Ids(replies[w])
  <2>1. New(w, id)
    BY <1>0, <1>3 DEF NewLeases
  <2>2. Once(replies'[w], id)
    <3>1. CASE replies'[w] = replies[w]
      BY <2>1, <3>1 DEF New
    <3>2. CASE replies'[w] # replies[w]
      <4>1. PICK m : /\ replies'[w] = Append(replies[w], m)
                     /\ \/ m.attempt \notin LeaseId
                        \/ /\ StartChosen(w) /\ own[w] = chosen.session
                           /\ m.attempt = [window |-> window, lease |-> chosen.lease,
                                           try |-> tries[chosen.lease] + 1]
        BY <1>0, <3>2, ServeReplies
      <4>2. m.attempt # id
        <5>1. Begun(id)
          BY <1>0, <1>3 DEF Owned, OwnedBy
        <5>2. StartChosen(w) /\ m.attempt = [window |-> window, lease |-> chosen.lease,
                                             try |-> tries[chosen.lease] + 1]
              => ~Begun(m.attempt)
          BY LeaseStarts
        <5> QED
          BY <4>1, <5>1, <5>2
      <4> QED
        BY <1>0, <2>1, <4>1, <4>2, IdsOfAppend DEF New
    <3> QED
      BY <3>1, <3>2
  <2>3. id \notin Ids(acks'[w])
    <3>1. CASE acks'[w] = acks[w]
      BY <2>1, <3>1 DEF New
    <3>2. CASE acks'[w] # acks[w]
      <4>1. PICK m : /\ ServePart(w) /\ acks'[w] = Append(acks[w], m)
                     /\ m.attempt = Head(uploads[w]).attempt
        BY <1>0, <3>2, ServeAcks
      <4>2. Head(uploads[w]) \in Range(uploads[w])
        BY <1>0, <4>1, UploadTypes DEF ServePart
      <4>3. Ids(acks'[w]) = Ids(acks[w]) \cup {m.attempt}
        BY <1>0, <4>1, RangeOfAppend DEF Ids
      <4> QED
        BY <2>1, <4>1, <4>2, <4>3 DEF New, Ids
    <3> QED
      BY <3>1, <3>2
  <2> QED
    BY <1>0, <1>2, <1>3, <2>1, <2>2, <2>3, NewStays DEF New
<1>4. CASE id \notin Ids(replies[w])
  <2>1. PICK m : /\ replies'[w] = Append(replies[w], m)
                 /\ \/ m.attempt \notin LeaseId
                    \/ /\ StartChosen(w) /\ own[w] = chosen.session
                       /\ m.attempt = [window |-> window, lease |-> chosen.lease,
                                       try |-> tries[chosen.lease] + 1]
    BY <1>0, <1>4, ServeReplies
  <2>2. id = m.attempt
    BY <1>0, <1>4, <2>1, RangeOfAppend DEF Ids
  <2>3. /\ StartChosen(w)
        /\ id = [window |-> window, lease |-> chosen.lease, try |-> tries[chosen.lease] + 1]
    BY <2>1, <2>2
  <2>4. ~Begun(id) /\ AttemptOf(id)'.parts = 0
    BY <2>3, LeaseStarts
  <2>5. at[w] \in AttemptStates => held[w] # id
    BY <1>0, <2>4 DEF Owned, OwnedBy
  <2>6. id \notin Ids(uploads[w])
    BY <1>0, <2>4 DEF Owned, OwnedBy, Ids
  <2>7. id \notin Ids(acks[w]) /\ acks'[w] = acks[w]
    BY <1>0, <2>3, <2>4 DEF Owned, OwnedBy, StartChosen
  <2>8. Once(replies'[w], id)
    <3>1. Once(replies[w], id)
      BY <1>4 DEF Once, Ids, Range
    <3> QED
      BY <1>0, <1>4, <2>1, <3>1, IdsOfAppend
  <2> QED
    BY <1>0, <1>2, <2>4, <2>5, <2>6, <2>7, <2>8 DEF New
<1> QED
  BY <1>3, <1>4

LEMMA NextNewInv ==
    ASSUME ServiceInv, WindowInv, OrderInv, OwnedInv, NewInv,
           [NextService]_allVars
    PROVE  NewInv'
<1>0. /\ WireTypeOK /\ \A v \in Worker : NewLeases(v) /\ replies[v] \in Seq(Answer)
  BY WireFacts DEF ServiceInv, WireTypeInv, NewInv
<1>a. ASSUME NEW v \in Worker, UNCHANGED <<at[v], held[v], replies[v], acks[v]>>,
             Range(uploads'[v]) \subseteq Range(uploads[v])
      PROVE  NewLeases(v)'
  <2>1. LeftOf(replies'[v], replies[v]) /\ Ids(acks'[v]) \subseteq Ids(acks[v])
    BY <1>a DEF LeftOf
  <2>2. \A id \in Ids(replies'[v]) \cap LeaseId : New(v, id)
    BY <1>0, <1>a DEF NewLeases
  <2>3. Ids(uploads'[v]) \subseteq Ids(uploads[v])
    BY <1>a, IdsOfLess
  <2>4. /\ \A id \in Ids(replies'[v]) \cap LeaseId : id \notin Ids(uploads'[v])
        /\ \A id \in Ids(replies'[v]) \cap LeaseId :
             at'[v] \in AttemptStates => held'[v] # id
    BY <1>a, <2>2, <2>3 DEF New
  <2> QED
    BY <1>0, <2>1, <2>4, NewStay
<1>1. ASSUME NEW w \in Worker, ProcessStep(w) \/ Environment(w), NEW v \in Worker
      PROVE  NewLeases(v)'
  <2>1. CASE v = w
    BY <1>1, <2>1, ProcessNew
  <2>2. CASE v # w
    <3>1. UNCHANGED <<at[v], own[v], held[v], discarding[v], requests[v], replies[v],
                      uploads[v], acks[v], chosen>>
      BY <1>0, <1>1, <2>2, ProcessFrame
    <3> QED
      BY <1>a, <3>1
  <2> QED
    BY <2>1, <2>2
<1>2. ASSUME NEW w \in Worker, Serve(w), NEW v \in Worker PROVE NewLeases(v)'
  <2>1. CASE v = w
    BY <1>2, <2>1, ServeNew
  <2>2. CASE v # w
    BY <1>0, <1>2, <1>a, <2>2, ServeFrame DEF process
  <2> QED
    BY <2>1, <2>2
<1>3. ASSUME Maintain \/ Boundary \/ AbortUnplanned \/ Learner \/ UNCHANGED allVars,
             NEW v \in Worker
      PROVE  NewLeases(v)'
  BY <1>a, <1>3, OtherFrame DEF process, channels
<1> QED
  BY <1>1, <1>2, <1>3 DEF NextService, NewInv

LEMMA InitNewInv == InitService => NewInv
<1> SUFFICES ASSUME InitService, NEW w \in Worker PROVE NewLeases(w)
  BY DEF NewInv
<1>1. replies[w] = <<>>
  BY DEF InitService
<1> QED
  BY <1>1, IdsOfNone DEF NewLeases

(***************************************************************************)
(* The parts that a process counts                                         *)
(***************************************************************************)

\* s parts of attempt id are counted and p are taken: one may be on its way in
\* U or be answered in A.
Tally(id, s, p, uploading, U, A) ==
    /\ p = s \/ (uploading /\ p = s + 1)
    /\ id \in Ids(U) => uploading /\ p = s
    /\ Once(U, id)
    /\ \A m \in Range(U) : m.attempt = id => m.part = s
    /\ \A m \in Range(A) : m.kind = "ack" /\ m.attempt = id => m.part < p

LEMMA TallyUpload ==
    ASSUME NEW U \in Seq(Part), NEW A, NEW id, NEW s \in Nat, NEW p, Tally(id, s, p, FALSE, U, A),
           NEW x
    PROVE  Tally(id, s, p, TRUE, Append(U, [attempt |-> id, part |-> s, session |-> x]), A)
<1> DEFINE m == [attempt |-> id, part |-> s, session |-> x]
<1>1. id \notin Ids(U) /\ p = s /\ Once(U, id)
  BY DEF Tally
<1>2. m.attempt = id /\ m.part = s
  OBVIOUS
<1> HIDE DEF m
<1>3. Range(Append(U, m)) = Range(U) \cup {m} /\ Once(Append(U, m), id)
  BY <1>1, RangeOfAppend, IdsOfAppend
<1>4. Tally(id, s, p, TRUE, Append(U, m), A)
  BY <1>1, <1>2, <1>3 DEF Tally
<1> QED
  BY <1>4 DEF m

\* the acknowledgement of the part just sent
LEMMA TallyAcked ==
    ASSUME NEW U, NEW A \in Seq(PartAnswer), NEW id, NEW s \in Nat, NEW p, NEW up,
           Tally(id, s, p, up, U, A),
           A # <<>>, Head(A) = [kind |-> "ack", attempt |-> id, part |-> s]
    PROVE  Tally(id, s + 1, p, FALSE, U, Tail(A))
<1>1. Head(A) \in Range(A) /\ Range(Tail(A)) \subseteq Range(A)
  BY RangeOfTail
<1>2. p = s + 1 /\ id \notin Ids(U)
  BY <1>1 DEF Tally
<1> QED
  BY <1>1, <1>2 DEF Tally, Ids

\* the part is taken
LEMMA TallyTaken ==
    ASSUME NEW U \in Seq(Part), NEW A, NEW B, NEW id, NEW s \in Nat, NEW p \in Nat, NEW up,
           Tally(id, s, p, up, U, A), U # <<>>, Head(U).attempt = id,
           \A m \in Range(A) : m.part \in Nat,
           \A m \in Range(B) \ Range(A) : m.part = Head(U).part
    PROVE  Tally(id, s, p + 1, up, Tail(U), B)
<1>1. Head(U) \in Range(U) /\ Range(Tail(U)) \subseteq Range(U)
  BY RangeOfTail
<1>2. up /\ p = s /\ Head(U).part = s /\ Once(U, id)
  BY <1>1 DEF Tally, Ids
<1>3. Once(Tail(U), id) /\ id \notin Ids(Tail(U))
  BY <1>2, IdsOfTail
<1>4. ASSUME NEW m \in Range(B), m.kind = "ack", m.attempt = id
      PROVE  m.part < p + 1
  <2>1. CASE m \in Range(A)
    <3>1. m.part < p /\ m.part \in Nat
      BY <1>4, <2>1 DEF Tally
    <3> QED
      BY <3>1
  <2>2. CASE m \notin Range(A)
    BY <1>2, <2>2
  <2> QED
    BY <2>1, <2>2
<1> QED
  BY <1>1, <1>2, <1>3, <1>4 DEF Tally

\* messages are lost, or are about other attempts
LEMMA TallyLess ==
    ASSUME NEW U, NEW A, NEW V, NEW B, NEW id, NEW s, NEW p, NEW up,
           Tally(id, s, p, up, U, A), Range(V) \subseteq Range(U), Once(V, id),
           \A m \in Range(B) \ Range(A) : m.kind = "ack" => m.attempt # id
    PROVE  Tally(id, s, p, up, V, B)
  BY IdsOfLess DEF Tally

Collects == {"collect", "upload", "beat", "final", "complete"}

Counts(w) ==
    /\ at[w] \in LoopStates \cup {"off"} => sent[w] = 0
    /\ at[w] \in Collects /\ ~discarding[w] /\ Names(held[w]) =>
         Tally(held[w], sent[w], AttemptOf(held[w]).parts, at[w] = "upload",
               uploads[w], acks[w])

CountsInv == \A w \in Worker : Counts(w)

\* Steps that are not of the process and take no part of its attempt.
LEMMA CountsStay ==
    ASSUME ServiceInv, WindowInv, OwnedInv, [NextService]_allVars,
           NEW w \in Worker, Counts(w),
           UNCHANGED <<at[w], held[w], discarding[w], sent[w]>>,
           LeftOf(uploads'[w], uploads[w]),
           at[w] \in Collects =>
             /\ ~Takes(held[w])
             /\ \A m \in Range(acks'[w]) \ Range(acks[w]) :
                  m.kind = "ack" => m.attempt # held[w]
    PROVE  Counts(w)'
<1>0. /\ WireTypeOK /\ HoldsLease /\ uploads[w] \in Seq(Part)
      /\ Collects \subseteq AttemptStates
  BY WireFacts DEF ServiceInv, WireTypeInv, Collects, AttemptStates
<1>1. at'[w] \in LoopStates \cup {"off"} => sent'[w] = 0
  BY DEF Counts
<1>2. ASSUME at[w] \in Collects, ~discarding[w], Names(held[w])'
      PROVE  Tally(held[w], sent[w], AttemptOf(held[w]).parts, at[w] = "upload",
                   uploads[w], acks[w])'
  <2>1. PICK id : id = held[w]
    OBVIOUS
  <2>2. id \in LeaseId /\ Begun(id) /\ held'[w] = id
    BY <1>0, <1>2, <2>1 DEF HoldsLease, OwnedInv, Owned, OwnedBy
  <2>3. Names(id)'
    BY <1>2, <2>1, <2>2 DEF Names
  <2>4. ~Takes(id)
    BY <1>2, <2>1
  <2>5. /\ Names(id)
        /\ AttemptOf(id).parts \in Nat
        /\ AttemptOf(id).parts' = AttemptOf(id).parts + 0
    BY <2>2, <2>3, <2>4, PartsStay
  <2>6. PICK p \in Nat : p = AttemptOf(id).parts /\ p = AttemptOf(id).parts'
    BY <2>5
  <2>7. Tally(id, sent[w], p, at[w] = "upload", uploads[w], acks[w])
    BY <1>2, <2>1, <2>5, <2>6 DEF Counts
  <2>8. Range(uploads'[w]) \subseteq Range(uploads[w]) /\ Once(uploads'[w], id)
    <3>1. Once(uploads[w], id)
      BY <2>7 DEF Tally
    <3> QED
      BY <1>0, <3>1, LessLeft
  <2>9. Tally(id, sent[w], p, at[w] = "upload", uploads'[w], acks'[w])
    <3>1. \A m \in Range(acks'[w]) \ Range(acks[w]) : m.kind = "ack" => m.attempt # id
      BY <1>2, <2>1
    <3> QED
      BY <2>7, <2>8, <3>1, TallyLess
  <2> QED
    BY <2>2, <2>6, <2>9 DEF AttemptOf
<1> QED
  BY <1>1, <1>2 DEF Counts

LEMMA TakenFrom ==
    ASSUME ServiceInv, OwnedInv, NEW w \in Worker, at[w] \in AttemptStates,
           Takes(held[w])
    PROVE  /\ TakesPart(w) /\ uploads[w] # <<>> /\ Head(uploads[w]).attempt = held[w]
           /\ uploads'[w] = Tail(uploads[w]) /\ uploads'[w] # uploads[w]
<1>0. WireTypeOK /\ HoldsLease /\ uploads[w] \in Seq(Part)
  BY WireFacts DEF ServiceInv, WireTypeInv
<1>1. PICK id : id = held[w]
  OBVIOUS
<1>2. PICK x : x = own[w]
  OBVIOUS
<1>3. Takes(id) /\ id \in LeaseId /\ OwnedBy(id, w, x)
  BY <1>0, <1>1, <1>2 DEF HoldsLease, OwnedInv, Owned
<1>4. TakesPart(w) /\ uploads[w] # <<>> /\ Head(uploads[w]).attempt = id
  BY <1>3, TakesOwn
<1>5. uploads'[w] = Tail(uploads[w])
  BY <1>0, <1>4 DEF TakesPart, ServePart, Pop, WireTypeOK
<1>6. Tail(uploads[w]) # uploads[w]
  <2>1. PICK q \in Seq(Part) : q = uploads[w]
    BY <1>0
  <2>2. PICK r : r = Tail(q)
    OBVIOUS
  <2>3. q # <<>>
    BY <1>4, <2>1
  <2>4. Len(r) = Len(q) - 1 /\ Len(q) \in Nat
    BY <2>2, <2>3
  <2>5. r # q
    BY <2>4
  <2> QED
    BY <2>1, <2>2, <2>5
<1> QED
  BY <1>1, <1>4, <1>5, <1>6

\* A step of the process of w: it goes on counting its parts.
LEMMA ProcessCounts ==
    ASSUME ServiceInv, OwnedInv, NewInv, CountsInv, NEW w \in Worker, ProcessStep(w)
    PROVE  Counts(w)'
<1>0. /\ WireTypeOK /\ HoldsLease /\ Counts(w) /\ NewLeases(w)
      /\ uploads[w] \in Seq(Part) /\ acks[w] \in Seq(PartAnswer) /\ replies[w] \in Seq(Answer)
      /\ sent[w] \in Nat /\ discarding[w] \in BOOLEAN
  BY WireFacts DEF ServiceInv, WireTypeInv, CountsInv, NewInv, WireTypeOK
<1>a. UNCHANGED vars
  BY <1>0, ProcessTypes DEF ServiceInv, WireTypeInv
<1>b. /\ LoopStates = {"register", "ready", "work", "poll"}
      /\ Collects = {"collect", "upload", "beat", "final", "complete"}
      /\ AttemptStates = {"collect", "upload", "beat", "final", "complete", "failed"}
  BY DEF LoopStates, AttemptStates, Collects
<1>c. \A id : /\ Names(id)' <=> Names(id)
              /\ AttemptOf(id)' = AttemptOf(id)
  BY <1>a DEF Names, Live, Current, AttemptOf, vars, windowState
<1>d. /\ DOMAIN at = Worker /\ DOMAIN held = Worker /\ DOMAIN discarding = Worker
      /\ DOMAIN sent = Worker /\ DOMAIN uploads = Worker /\ DOMAIN acks = Worker
      /\ DOMAIN replies = Worker
  BY <1>0 DEF WireTypeOK
<1>e. ASSUME at'[w] = "failed" \/ (at'[w] \in LoopStates \cup {"off"} /\ sent'[w] = 0)
      PROVE  Counts(w)'
  BY <1>b, <1>e DEF Counts
<1>f. ASSUME at'[w] \in Collects, NEW id, held'[w] = id,
             ~discarding'[w] /\ Names(id) =>
               Tally(id, sent'[w], AttemptOf(id).parts, at'[w] = "upload",
                     uploads'[w], acks'[w])
      PROVE  Counts(w)'
  <2>1. Names(held[w])' <=> Names(id)
    BY <1>c, <1>f DEF Names
  <2>2. AttemptOf(held[w])'.parts = AttemptOf(id).parts
    <3>1. AttemptOf(held[w])' = AttemptOf(id)'
      BY <1>f DEF AttemptOf
    <3> QED
      BY <1>c, <3>1
  <2> QED
    BY <1>b, <1>f, <2>1, <2>2 DEF Counts
<1>g. PICK h : h = held[w]
  OBVIOUS
<1>h. ASSUME at[w] \in Collects, ~discarding[w], Names(h)
      PROVE  Tally(h, sent[w], AttemptOf(h).parts, at[w] = "upload", uploads[w], acks[w])
  BY <1>0, <1>g, <1>h DEF Counts, Names, AttemptOf
<1>1. CASE LoopRaises(w) \/ TimeoutInLoop(w)
  BY <1>1, <1>d, <1>e DEF LoopRaises, TimeoutInLoop, Exit
<1>2. CASE Registered(w) \/ Poll(w)
  <2>1. at[w] \in LoopStates /\ at'[w] \in LoopStates /\ sent'[w] = sent[w]
    BY <1>2, <1>b, <1>d DEF Registered, Poll, Answered, Ask, process
  <2> QED
    BY <1>0, <1>e, <2>1 DEF Counts
<1>3. CASE TakeLease(w)
  <2>1. /\ at[w] = "work" /\ replies[w] # <<>> /\ Head(replies[w]).kind = "lease"
        /\ at'[w] = "collect" /\ held'[w] = Head(replies[w]).attempt
        /\ UNCHANGED <<sent, uploads, acks>>
    BY <1>3, <1>d DEF TakeLease, Answered
  <2>2. PICK id : id = Head(replies[w]).attempt
    OBVIOUS
  <2>3. id \in LeaseId /\ id \in Ids(replies[w])
    <3>1. Head(replies[w]) \in Range(replies[w]) /\ Head(replies[w]) \in Answer
      BY <1>0, <2>1, RangeOfTail
    <3> QED
      BY <2>1, <2>2, <3>1 DEF Ids, Answer
  <2>4. New(w, id)
    BY <1>0, <2>3 DEF NewLeases
  <2>5. sent[w] = 0
    BY <1>0, <1>b, <2>1 DEF Counts
  <2>6. Names(id) => Tally(id, 0, AttemptOf(id).parts, FALSE, uploads[w], acks[w])
    BY <2>4 DEF New, Tally, Once, Ids, Range
  <2> QED
    BY <1>b, <1>f, <2>1, <2>2, <2>5, <2>6
<1>4. CASE LoopAgain(w) \/ AttemptEnds(w) \/ TimeoutInReport(w)
  <2>1. AskForWork(w)
    BY <1>4 DEF LoopAgain, AttemptEnds, TimeoutInReport
  <2> QED
    BY <1>b, <1>d, <1>e, <2>1 DEF AskForWork, Ask
<1>5. CASE CollectionRaises(w) \/ AttemptRaises(w) \/ TimeoutInAttempt(w)
  <2>1. ReportFailure(w)
    BY <1>5 DEF CollectionRaises, AttemptRaises, TimeoutInAttempt
  <2> QED
    BY <1>d, <1>e, <2>1 DEF ReportFailure, Ask
<1>6. CASE Upload(w)
  <2>1. /\ at[w] = "collect" /\ ~discarding[w] /\ at'[w] = "upload"
        /\ uploads'[w] = Append(uploads[w],
                                [attempt |-> held[w], part |-> sent[w], session |-> own[w]])
        /\ UNCHANGED <<held, sent, discarding, acks>>
    BY <1>6, <1>d DEF Upload, process
  <2>2. Names(h) => Tally(h, sent[w], AttemptOf(h).parts, TRUE, uploads'[w], acks[w])
    <3> SUFFICES ASSUME Names(h)
                 PROVE  Tally(h, sent[w], AttemptOf(h).parts, TRUE, uploads'[w], acks[w])
      OBVIOUS
    <3>1. Tally(h, sent[w], AttemptOf(h).parts, FALSE, uploads[w], acks[w])
      BY <1>b, <1>h, <2>1
    <3> QED
      BY <1>0, <1>g, <2>1, <3>1, TallyUpload
  <2> QED
    BY <1>b, <1>f, <1>g, <2>1, <2>2
<1>7. CASE Uploaded(w)
  <2>1. /\ at[w] = "upload" /\ acks[w] # <<>> /\ acks'[w] = Tail(acks[w])
        /\ UNCHANGED <<held, uploads>>
    BY <1>7, <1>d DEF Uploaded, Pop, ReportFailure, process
  <2>2. CASE /\ Acknowledged(w)
             /\ at' = [at EXCEPT ![w] = "collect"]
             /\ sent' = [sent EXCEPT ![w] = @ + 1]
             /\ UNCHANGED discarding
    <3>1. at'[w] = "collect" /\ sent'[w] = sent[w] + 1
      BY <1>d, <2>2
    <3>2. Names(h) /\ ~discarding[w] =>
            Tally(h, sent[w] + 1, AttemptOf(h).parts, FALSE, uploads[w], Tail(acks[w]))
      BY <1>0, <1>b, <1>g, <1>h, <2>1, <2>2, TallyAcked DEF Acknowledged
    <3>3. (at'[w] = "upload") = FALSE
      BY <3>1
    <3>4. Names(h) /\ ~discarding'[w] =>
            Tally(h, sent'[w], AttemptOf(h).parts, at'[w] = "upload", uploads'[w], acks'[w])
      BY <2>1, <2>2, <3>1, <3>2, <3>3
    <3>5. at'[w] \in Collects /\ held'[w] = h
      BY <1>b, <1>g, <2>1, <3>1
    <3> QED
      BY <1>f, <3>4, <3>5
  <2>3. CASE /\ at' = [at EXCEPT ![w] = "collect"]
             /\ discarding' = [discarding EXCEPT ![w] = TRUE]
    <3>1. at'[w] = "collect" /\ discarding'[w]
      BY <1>d, <2>3
    <3> QED
      BY <1>b, <1>f, <1>g, <2>1, <3>1
  <2>4. CASE ReportFailure(w)
    BY <1>d, <1>e, <2>4 DEF ReportFailure, Ask
  <2> QED
    BY <1>7, <2>2, <2>3, <2>4 DEF Uploaded
<1>8. ASSUME at[w] \in Collects \ {"upload"}, at'[w] \in Collects \ {"upload"},
             UNCHANGED <<held, sent, uploads, acks>>, discarding[w] => discarding'[w]
      PROVE  Counts(w)'
  <2>1. (at'[w] = "upload") = FALSE /\ (at[w] = "upload") = FALSE
    BY <1>8
  <2>2. ~discarding'[w] /\ Names(h) =>
          Tally(h, sent[w], AttemptOf(h).parts, FALSE, uploads[w], acks[w])
    BY <1>h, <1>8, <2>1
  <2> QED
    BY <1>f, <1>g, <1>8, <2>1, <2>2
<1>9. CASE Heartbeat(w)
  BY <1>8, <1>9, <1>b, <1>d DEF Heartbeat, Ask, process
<1>10. CASE Beaten(w)
  BY <1>0, <1>8, <1>10, <1>b, <1>d DEF Beaten, Answered
<1>11. CASE Collected(w)
  <2>1. at[w] = "final" /\ UNCHANGED <<uploads, acks>>
    BY <1>11 DEF Collected, Answered
  <2>2. CASE AskForWork(w)
    BY <1>b, <1>d, <1>e, <2>2 DEF AskForWork, Ask
  <2>3. CASE Ask(w, "complete", "complete") /\ UNCHANGED process
    BY <1>8, <1>b, <1>d, <2>1, <2>3 DEF Ask, process
  <2> QED
    BY <1>11, <2>2, <2>3 DEF Collected
<1> QED
  BY <1>1, <1>2, <1>3, <1>4, <1>5, <1>6, <1>7, <1>9, <1>10, <1>11 DEF ProcessStep

LEMMA ServeCounts ==
    ASSUME ServiceInv, WindowInv, OwnedInv, CountsInv, NEW w \in Worker, Serve(w)
    PROVE  Counts(w)'
<1>0. /\ WireTypeOK /\ HoldsLease /\ Counts(w)
      /\ UNCHANGED <<at, held, discarding, sent>>
      /\ [NextService]_allVars
      /\ uploads[w] \in Seq(Part) /\ acks[w] \in Seq(PartAnswer) /\ sent[w] \in Nat
      /\ Collects \subseteq AttemptStates
  BY ServeFrame, WireFacts
  DEF ServiceInv, WireTypeInv, CountsInv, NextService, process, WireTypeOK, Collects, AttemptStates
<1>m. ASSUME NEW m \in Range(acks'[w]) \ Range(acks[w])
      PROVE  /\ m.attempt = Head(uploads[w]).attempt
             /\ m.part = Head(uploads[w]).part
             /\ m.kind = "ack" => TakesPart(w)
  <2>1. PICK a : /\ acks'[w] = Append(acks[w], a)
                 /\ a.attempt = Head(uploads[w]).attempt
                 /\ a.part = Head(uploads[w]).part
                 /\ a.kind = "ack" => TakesPart(w)
    BY <1>0, <1>m, ServeAcks
  <2>2. m = a
    BY <1>0, <1>m, <2>1, RangeOfAppend
  <2> QED
    BY <2>1, <2>2
<1>1. CASE at[w] \in Collects /\ Takes(held[w])
  <2>1. /\ TakesPart(w) /\ uploads[w] # <<>> /\ Head(uploads[w]).attempt = held[w]
        /\ uploads'[w] = Tail(uploads[w])
    BY <1>0, <1>1, TakenFrom
  <2>2. PICK id : id = held[w]
    OBVIOUS
  <2>3. id \in LeaseId /\ Begun(id) /\ held'[w] = id
    BY <1>0, <1>1, <2>2 DEF HoldsLease, OwnedInv, Owned, OwnedBy
  <2>4. ASSUME ~discarding[w], Names(held[w])'
        PROVE  Tally(held[w], sent[w], AttemptOf(held[w]).parts, at[w] = "upload",
                     uploads[w], acks[w])'
    <3>1. Names(id)'
      BY <2>2, <2>3, <2>4 DEF Names
    <3>2. /\ Names(id) /\ AttemptOf(id).parts \in Nat
          /\ AttemptOf(id).parts' = AttemptOf(id).parts + 1
      BY <1>0, <1>1, <2>2, <2>3, <3>1, PartsStay
    <3>3. PICK p \in Nat : p = AttemptOf(id).parts
      BY <3>2
    <3>4. Tally(id, sent[w], p, at[w] = "upload", uploads[w], acks[w])
      BY <1>0, <1>1, <2>2, <2>4, <3>2, <3>3 DEF Counts
    <3>5. \A m \in Range(acks'[w]) \ Range(acks[w]) : m.part = Head(uploads[w]).part
      BY <1>m
    <3>6. \A m \in Range(acks[w]) : m.part \in Nat
      BY <1>0, MessageTypes DEF PartAnswer
    <3>7. Tally(id, sent[w], p + 1, at[w] = "upload", uploads'[w], acks'[w])
      BY <1>0, <2>1, <2>2, <3>4, <3>5, <3>6, TallyTaken
    <3> QED
      BY <1>0, <2>3, <3>2, <3>3, <3>7 DEF AttemptOf
  <2>5. at'[w] \in LoopStates \cup {"off"} => sent'[w] = 0
    BY <1>0 DEF Counts
  <2> QED
    BY <1>0, <2>4, <2>5 DEF Counts
<1>2. CASE at[w] \in Collects => ~Takes(held[w])
  <2>1. LeftOf(uploads'[w], uploads[w])
    <3>1. CASE ServePart(w)
      BY <1>0, <3>1 DEF ServePart, Pop, LeftOf, WireTypeOK
    <3>2. CASE ~ServePart(w)
      BY <3>2 DEF LeftOf, Serve, ServeRegister, ServeReady, ServeHeartbeat, ServeNoWork,
                  ChooseLease, StartChosen, ChosenRefused, ServeFailed, ServeComplete
    <3> QED
      BY <3>1, <3>2
  <2>2. ASSUME at[w] \in Collects, NEW m \in Range(acks'[w]) \ Range(acks[w]), m.kind = "ack"
        PROVE  m.attempt # held[w]
    <3>1. TakesPart(w) /\ m.attempt = Head(uploads[w]).attempt
      BY <1>m, <2>2
    <3> QED
      BY <1>2, <2>2, <3>1 DEF Takes
  <2> QED
    BY <1>0, <1>2, <2>1, <2>2, CountsStay
<1> QED
  BY <1>1, <1>2

LEMMA NextCountsInv ==
    ASSUME ServiceInv, WindowInv, OwnedInv, NewInv, CountsInv,
           [NextService]_allVars
    PROVE  CountsInv'
<1>0. /\ WireTypeOK /\ \A v \in Worker : Counts(v) /\ Owned(v) /\ acks[v] \in Seq(PartAnswer)
      /\ Collects \subseteq AttemptStates
  BY WireFacts DEF ServiceInv, WireTypeInv, CountsInv, OwnedInv, Collects, AttemptStates
<1>a. ASSUME NEW v \in Worker,
             UNCHANGED <<at[v], held[v], discarding[v], sent[v], uploads[v]>>,
             LeftOf(acks'[v], acks[v])
      PROVE  Counts(v)'
  <2>1. at[v] \in Collects => ~Takes(held[v])
    BY <1>0, <1>a, TakenFrom
  <2>2. Range(acks'[v]) \subseteq Range(acks[v])
    BY <1>0, <1>a, LessLeft
  <2>3. LeftOf(uploads'[v], uploads[v])
    BY <1>a DEF LeftOf
  <2> QED
    BY <1>0, <1>a, <2>1, <2>2, <2>3, CountsStay
<1>1. ASSUME NEW w \in Worker, ProcessStep(w) \/ Environment(w), NEW v \in Worker
      PROVE  Counts(v)'
  <2>1. CASE v # w
    <3>1. UNCHANGED <<at[v], own[v], held[v], discarding[v], sent[v], requests[v],
                      replies[v], uploads[v], acks[v], chosen>>
      BY <1>0, <1>1, <2>1, ProcessFrame
    <3> QED
      BY <1>a, <3>1 DEF LeftOf
  <2>2. CASE v = w /\ ProcessStep(w)
    BY <2>2, ProcessCounts
  <2>3. CASE v = w /\ Environment(w)
    <3>1. CASE StartProcess(w)
      <4>1. at[w] = "off" /\ at'[w] = "register" /\ sent'[w] = sent[w]
        BY <1>0, <3>1 DEF StartProcess, WireTypeOK
      <4> QED
        BY <1>0, <2>3, <4>1 DEF Counts, Collects
    <3>2. CASE Crash(w)
      <4>1. at'[w] = "off" /\ sent'[w] = 0
        BY <1>0, <3>2 DEF Crash, Exit, WireTypeOK
      <4> QED
        BY <2>3, <4>1 DEF Counts, Collects
    <3>3. CASE DropReply(w)
      <4>1. UNCHANGED <<at, held, discarding, sent, uploads>>
        BY <3>3 DEF DropReply, process
      <4>2. LeftOf(acks'[w], acks[w])
        BY <1>0, <3>3, ProcessMoves
      <4> QED
        BY <1>a, <2>3, <4>1, <4>2
    <3> QED
      BY <2>3, <3>1, <3>2, <3>3 DEF Environment
  <2> QED
    BY <1>1, <2>1, <2>2, <2>3
<1>2. ASSUME NEW w \in Worker, Serve(w), NEW v \in Worker PROVE Counts(v)'
  <2>1. CASE v = w
    BY <1>2, <2>1, ServeCounts
  <2>2. CASE v # w
    <3>1. /\ UNCHANGED <<at, held, discarding, sent>>
          /\ acks'[v] = acks[v]
      BY <1>0, <1>2, <2>2, ServeFrame DEF process
    <3>2. uploads'[v] = uploads[v]
      <4>1. uploads' = uploads \/ uploads' = Pop(uploads, w)
        BY <1>2 DEF Serve, ServeRegister, ServeReady, ServeHeartbeat, ServeNoWork, ChooseLease,
                    StartChosen, ChosenRefused, ServeFailed, ServeComplete, ServePart
      <4> QED
        BY <1>0, <2>2, <4>1 DEF Pop, WireTypeOK
    <3> QED
      BY <1>a, <3>1, <3>2 DEF LeftOf
  <2> QED
    BY <2>1, <2>2
<1>3. ASSUME Maintain \/ Boundary \/ AbortUnplanned \/ Learner \/ UNCHANGED allVars,
             NEW v \in Worker
      PROVE  Counts(v)'
  <2>1. UNCHANGED <<at, process, channels>>
    BY <1>3, OtherFrame
  <2>2. UNCHANGED <<at[v], held[v], discarding[v], sent[v], uploads[v]>> /\ acks'[v] = acks[v]
    BY <2>1 DEF process, channels
  <2> QED
    BY <1>a, <2>2 DEF LeftOf
<1> QED
  BY <1>1, <1>2, <1>3 DEF NextService, CountsInv

LEMMA InitCountsInv == InitService => CountsInv
  BY DEF InitService, CountsInv, Counts, Collects

PartInv == OrderInv /\ OwnedInv /\ NewInv /\ CountsInv

\* Whatever answers are late or dropped, and whenever the learner aborts, the
\* parts that a process has counted are those its live attempt has at the
\* coordinator (CountsAgree).
THEOREM PartsAreCounted == ServiceSpec => []CountsAgree
<1>1. InitService => PartInv
  BY InitOrderInv, InitOwnedInv, InitNewInv, InitCountsInv DEF PartInv
<1>2. ServiceInv /\ WindowInv /\ PartInv /\ [NextService]_allVars => PartInv'
  BY NextOrderInv, NextOwnedInv, NextNewInv, NextCountsInv DEF PartInv, ServiceInv
<1>3. PartInv => CountsAgree
  <2> SUFFICES ASSUME PartInv, NEW w \in Worker,
                      at[w] \in {"collect", "beat", "final", "complete"},
                      ~discarding[w], Names(held[w])
               PROVE  Current(held[w].lease).parts = sent[w]
    BY DEF CountsAgree
  <2>1. Tally(held[w], sent[w], AttemptOf(held[w]).parts, at[w] = "upload",
              uploads[w], acks[w])
    BY DEF PartInv, CountsInv, Counts, Collects
  <2>2. AttemptOf(held[w]).parts = sent[w]
    BY <2>1 DEF Tally
  <2>3. tries[held[w].lease] = held[w].try
    BY DEF Names
  <2> QED
    BY <2>2, <2>3 DEF AttemptOf, Current
<1> QED
  BY <1>1, <1>2, <1>3, SpecServiceInv, SpecWindowInv, PTL DEF ServiceSpec

=============================================================================
