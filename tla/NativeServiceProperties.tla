----------------------- MODULE NativeServiceProperties -----------------------
(***************************************************************************)
(* What the coordinator's service and its workers promise each other.      *)
(***************************************************************************)
EXTENDS NativeService

\* A process waits for exactly one answer: whatever fails while a message is
\* served, and wherever the learner interferes, it is answered once.  Without
\* it a worker would wait out its timeout, or take one answer for the next.
EveryRequestIsAnswered ==
    \A w \in Worker :
        /\ at[w] \in Waiting => Outstanding(w) = 1
        /\ at[w] = "upload" => Cardinality(OnTheWay(uploads, w)) + Len(acks[w]) = 1

\* An attempt that runs at the coordinator for a session whose process lives
\* is held by that process or is in the lease on its way to it: no lease of
\* an open window is left to its timeout.
NoOrphan ==
    \A n \in Lease :
        Collecting /\ Live(n) /\ Current(n).state = "running" =>
            LET w  == Current(n).owner[1]
                id == [window |-> window, lease |-> n, try |-> tries[n]]
            IN  at[w] # "off" /\ own[w] = Current(n).owner[2] =>
                    \/ held[w] = id
                    \/ \E i \in DOMAIN replies[w] :
                         replies[w][i] = [kind |-> "lease", attempt |-> id]

\* The parts a process has counted are those its live attempt has at the
\* coordinator, whatever acknowledgement came late: a result it sends is never
\* refused because "counts differ from ACKed parts".  A process that throws its
\* attempt away sends no result: a DRAIN that comes late for an earlier attempt
\* can make it do so with a part of the live one still on its way.
CountsAgree ==
    \A w \in Worker :
        /\ at[w] \in {"collect", "beat", "final", "complete"}
        /\ ~discarding[w]
        /\ Names(held[w])
        =>
            Current(held[w].lease).parts = sent[w]

\* service.py:799: a work request that meets a window boundary is answered
\* with the boundary, never with the abort that kills the worker.
LoopIsNeverAborted ==
    \A w \in Worker : at[w] \in LoopStates =>
        \A i \in DOMAIN replies[w] : replies[w][i].kind # "abort"

\* Taking the choice of a lease and its start apart, with learner calls in
\* between, and driving the coordinator by real processes adds no behaviour
\* to the coordinator: every invariant of it holds here.
RefinesCoordinator == Spec

\* deliver_receipt and wait_for_receipt_delivery end: every session that may
\* receive the receipt is sent it, or it is no longer a recipient.
DeliveryCompletes ==
    Settled ~> ~Settled \/ \A w \in Worker :
                   topology[w] # 0 /\ ready[w] => w \in delivered

=============================================================================
