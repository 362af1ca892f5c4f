---------------------- MODULE NativeCoordinator_proofs ----------------------
(***************************************************************************)
(* Theorems about NativeCoordinator, for every value of its constants:     *)
(* its types; its safety, that every live attempt is tracked by one        *)
(* session, a settled window runs nothing and the outcomes the learner     *)
(* commits are those of a closed, unchanging window; its accounting, that  *)
(* every lease counts once and the target closes the window; and that it   *)
(* implements WindowContract.                                              *)
(*                                                                         *)
(* No safety property is inductive alone.  A completing attempt may not    *)
(* slip into a window the callback is committing: that needs "ready to     *)
(* commit" to imply that nothing is live, which needs live leases to be    *)
(* open, which needs every path that ends a lease to have released its     *)
(* attempt first.  IInv is their conjunction with those facts; ResultInv   *)
(* adds who may hold rows and what the total is the sum of.                *)
(***************************************************************************)
EXTENDS NativeCoordinatorProperties, FiniteSetTheorems, WellFoundedInduction, TLAPS

(***************************************************************************)
(* Type correctness                                                        *)
(***************************************************************************)

\* A ready worker has registered: an attempt is owned by a real session.
ReadyIsRegistered == \A w \in Worker : ready[w] => session[w] # 0

TypeInv == TypeOK /\ ReadyIsRegistered

AttemptMap == [Lease -> [Try -> Attempt]]

\* Clearing an attempt gives an attempt.
LEMMA ClearedType == ASSUME NEW a \in Attempt PROVE Cleared(a) \in Attempt
<1>1. CASE a.state = "unstarted"
  BY <1>1 DEF Cleared
<1>2. CASE a.state # "unstarted"
  <2>1. Cleared(a) = [a EXCEPT !.state = "finished", !.parts = 0, !.term = 0]
    BY <1>2 DEF Cleared
  <2>2. 0 \in 0 .. MaxPart
    BY BoundAssumption
  <2> QED
    BY <2>1, <2>2 DEF Attempt
<1> QED
  BY <1>1, <1>2

\* Clearing the attempts of any set of leases keeps the shards well formed.
LEMMA ClearShardsType ==
    ASSUME NEW m \in AttemptMap, NEW D
    PROVE  ClearShards(m, D) \in AttemptMap
<1>1. \A n \in Lease, k \in Try : m[n][k] \in Attempt
  BY DEF AttemptMap
<1>2. \A n \in Lease, k \in Try : Cleared(m[n][k]) \in Attempt
  BY <1>1, ClearedType
<1>3. \A n \in Lease : [k \in Try |-> Cleared(m[n][k])] \in [Try -> Attempt]
  BY <1>2
<1> QED
  BY <1>3 DEF ClearShards, AttemptMap

\* Freeing workers of attempts leaves each one idle or where it was.
LEMMA ReleaseType ==
    ASSUME active \in [Worker -> {Idle} \cup (Lease \X Try)], NEW D
    PROVE  /\ Release(D) \in [Worker -> {Idle} \cup (Lease \X Try)]
           /\ FreeFailed(D) \in [Worker -> {Idle} \cup (Lease \X Try)]
BY DEF Release, FreeFailed

\* The tombstones of any set of leases are tombstones.
LEMMA TombstonesOfType ==
    ASSUME TypeOK, NEW D \in SUBSET Lease
    PROVE  TombstonesOf(D) \subseteq Tombstone
<1>1. window \in Nat /\ \A n \in Lease, k \in Try : attempt[n][k].owner \in Owner \cup {Nobody}
  BY BoundAssumption DEF TypeOK, Attempt
<1> QED
  BY <1>1 DEF TombstonesOf, Tombstone

\* Failing live attempts keeps the shards, their flags and the tombstones
\* well formed.
LEMMA FailType ==
    ASSUME TypeOK, NEW F \in SUBSET Lease, \A n \in F : Live(n), Fail(F)
    PROVE  /\ attempt' \in AttemptMap
           /\ discarded' \in [Lease -> BOOLEAN]
           /\ tombstones' \subseteq Tombstone
<1>1. \A n \in F : tries[n] \in Try
  BY BudgetAssumption DEF TypeOK, Live, Try
<1>2. \A n \in F : [attempt[n] EXCEPT ![tries[n]] = Cleared(@)] \in [Try -> Attempt]
  BY <1>1, ClearedType DEF TypeOK
<1>3. attempt' \in AttemptMap
  BY <1>2 DEF Fail, AttemptMap, TypeOK
<1>4. discarded' \in [Lease -> BOOLEAN]
  BY DEF Fail, TypeOK
<1>5. tombstones' \subseteq Tombstone
  BY TombstonesOfType DEF Fail, TypeOK
<1> QED
  BY <1>3, <1>4, <1>5

\* Starting an attempt of an open lease, for a registered worker, is well typed.
LEMMA StartAttemptType ==
    ASSUME TypeInv, NEW w \in Worker, NEW n \in Lease, ready[w],
           tries[n] < MaximumAttempts, StartAttempt(n, w)
    PROVE  /\ tries' \in [Lease -> 0 .. MaximumAttempts]
           /\ attempt' \in AttemptMap
           /\ active' \in [Worker -> {Idle} \cup (Lease \X Try)]
<1>1. tries[n] + 1 \in Try
  BY BudgetAssumption DEF TypeInv, TypeOK, Try
<1>2. session[w] \in Session
  BY BoundAssumption DEF TypeInv, TypeOK, ReadyIsRegistered, Session
<1>3. [owner |-> <<w, session[w]>>, state |-> "running", parts |-> 0, term |-> 0]
        \in Attempt
  BY <1>2, BoundAssumption DEF Attempt, Owner
<1>4. tries' \in [Lease -> 0 .. MaximumAttempts]
  BY <1>1, BudgetAssumption DEF StartAttempt, TypeInv, TypeOK, Try
<1>5. attempt' \in AttemptMap
  BY <1>1, <1>3 DEF StartAttempt, TypeInv, TypeOK, AttemptMap
<1>6. active' \in [Worker -> {Idle} \cup (Lease \X Try)]
  BY <1>1 DEF StartAttempt, TypeInv, TypeOK
<1> QED
  BY <1>4, <1>5, <1>6

LEMMA InitTypeInv == Init => TypeInv
<1> SUFFICES ASSUME Init PROVE TypeInv
  OBVIOUS
<1>1. Unstarted \in Attempt
  BY BoundAssumption DEF Unstarted, Attempt
<1>2. attempt \in [Lease -> [Try -> Attempt]]
  BY <1>1 DEF Init
<1>3. TypeOK
  <2>1. /\ session \in [Worker -> 0 .. MaxSession]
        /\ active \in [Worker -> {Idle} \cup (Lease \X Try)]
        /\ pending \in [Worker -> 0 .. MaxSession]
        /\ topology \in [Worker -> 0 .. MaxSession]
    BY BoundAssumption DEF Init
  <2>2. /\ window \in 0 .. MaxWindow
        /\ tries \in [Lease -> 0 .. MaximumAttempts]
        /\ accepted \in [Lease -> 0 .. MaximumAttempts]
        /\ decided \in [Lease -> 0 .. MaxPart]
        /\ exposes \in [Lease -> SUBSET Artifact]
    BY BoundAssumption, BudgetAssumption DEF Init
  <2> QED
    BY <1>2, <2>1, <2>2 DEF Init, TypeOK
<1>4. ReadyIsRegistered
  BY DEF Init, ReadyIsRegistered
<1> QED
  BY <1>3, <1>4 DEF TypeInv

LEMMA NextTypeInv == TypeInv /\ [Next]_vars => TypeInv'
<1> SUFFICES ASSUME TypeInv, [Next]_vars PROVE TypeInv'
  OBVIOUS
<1> USE DEF AttemptMap
<1>0. TypeOK /\ ReadyIsRegistered
  BY DEF TypeInv
<1>1. ASSUME NEW w \in Worker, RegisterWhileCollecting(w) PROVE TypeInv'
  <2> DEFINE F == {n \in Lease : active[w] = <<n, tries[n]>> /\ Live(n)}
  <2>1. /\ attempt' \in AttemptMap
        /\ discarded' \in [Lease -> BOOLEAN]
        /\ tombstones' \subseteq Tombstone
    BY <1>0, <1>1, FailType DEF RegisterWhileCollecting
  <2>2. active' \in [Worker -> {Idle} \cup (Lease \X Try)]
    BY <1>0, <1>1, ReleaseType DEF RegisterWhileCollecting, TypeOK
  <2>3. Latest(w) + 1 \in 0 .. MaxSession
    BY <1>0, <1>1, BoundAssumption DEF RegisterWhileCollecting, TypeOK, Latest
  <2>4. TypeOK'
    BY <1>0, <1>1, <2>1, <2>2, <2>3
    DEF RegisterWhileCollecting, TypeOK, windowState, results, learner
  <2>5. ReadyIsRegistered'
    BY <1>0, <1>1 DEF RegisterWhileCollecting, ReadyIsRegistered, TypeOK
  <2> QED
    BY <2>4, <2>5 DEF TypeInv
<1>2. ASSUME NEW w \in Worker, RegisterAtBoundary(w) PROVE TypeInv'
  <2>1. Latest(w) + 1 \in 0 .. MaxSession
    BY <1>0, <1>2, BoundAssumption DEF RegisterAtBoundary, TypeOK, Latest
  <2>2. TypeOK'
    BY <1>0, <1>2, <2>1, BoundAssumption
    DEF RegisterAtBoundary, TypeOK, windowState, results, learner
  <2>3. ReadyIsRegistered'
    BY <1>0, <1>2 DEF RegisterAtBoundary, ReadyIsRegistered, TypeOK
  <2> QED
    BY <2>2, <2>3 DEF TypeInv
<1>3. ASSUME NEW w \in Worker, MarkReady(w) PROVE TypeInv'
  <2>1. TypeOK'
    BY <1>0, <1>3 DEF MarkReady, TypeOK, windowState, results, learner
  <2>2. ReadyIsRegistered'
    BY <1>0, <1>3 DEF MarkReady, ReadyIsRegistered, TypeOK, Latest
  <2> QED
    BY <2>1, <2>2 DEF TypeInv
<1>4. ASSUME NEW L \in SUBSET Lease, NEW W \in SUBSET Worker, ExpireWorkers(L, W)
      PROVE  TypeInv'
  <2> DEFINE F == L \cup {n \in Lease : /\ Live(n)
                                         /\ Current(n).state # "completing"
                                         /\ \E w \in W : active[w] = <<n, tries[n]>>}
  <2>1. F \in SUBSET Lease /\ \A n \in F : Live(n)
    BY <1>4 DEF ExpireWorkers
  <2>2. Fail(F) /\ active' = FreeFailed(F)
    BY <1>4 DEF ExpireWorkers
  <2> HIDE DEF F
  <2>3. /\ attempt' \in AttemptMap
        /\ discarded' \in [Lease -> BOOLEAN]
        /\ tombstones' \subseteq Tombstone
    BY <1>0, <2>1, <2>2, FailType
  <2>4. active' \in [Worker -> {Idle} \cup (Lease \X Try)]
    BY <1>0, <2>2, ReleaseType DEF TypeOK
  <2>5. TypeOK'
    BY <1>0, <1>4, <2>3, <2>4 DEF ExpireWorkers, TypeOK, windowState, results, learner
  <2>6. ReadyIsRegistered'
    BY <1>0, <1>4 DEF ExpireWorkers, ReadyIsRegistered, TypeOK
  <2> QED
    BY <2>5, <2>6 DEF TypeInv
<1>5. ASSUME NEW w \in Worker, RetryShard(w) PROVE TypeInv'
  <2>1. PICK n \in First(Retryable(w)) : StartAttempt(n, w)
    BY <1>5 DEF RetryShard
  <2>2. n \in Lease /\ tries[n] < MaximumAttempts
    BY <2>1 DEF First, Retryable, Inactive, Unsettled, Issued
  <2>3. /\ tries' \in [Lease -> 0 .. MaximumAttempts]
        /\ attempt' \in AttemptMap
        /\ active' \in [Worker -> {Idle} \cup (Lease \X Try)]
    BY <1>5, <2>1, <2>2, StartAttemptType DEF RetryShard, MayWork
  <2>4. TypeOK'
    BY <1>0, <1>5, <2>3
    DEF RetryShard, TypeOK, windowState, results, learner
  <2>5. ReadyIsRegistered'
    BY <1>0, <1>5 DEF RetryShard, ReadyIsRegistered
  <2> QED
    BY <2>4, <2>5 DEF TypeInv
<1>6. ASSUME NEW w \in Worker, IssueShard(w) PROVE TypeInv'
  <2>1. PICK n \in First(Fresh) : StartAttempt(n, w)
    BY <1>6 DEF IssueShard
  <2>2. n \in Lease /\ tries[n] < MaximumAttempts
    BY <2>1, BudgetAssumption DEF First, Fresh
  <2>3. /\ tries' \in [Lease -> 0 .. MaximumAttempts]
        /\ attempt' \in AttemptMap
        /\ active' \in [Worker -> {Idle} \cup (Lease \X Try)]
    BY <1>6, <2>1, <2>2, StartAttemptType DEF IssueShard, MayWork
  <2>4. TypeOK'
    BY <1>0, <1>6, <2>3
    DEF IssueShard, TypeOK, windowState, results, learner
  <2>5. ReadyIsRegistered'
    BY <1>0, <1>6 DEF IssueShard, ReadyIsRegistered
  <2> QED
    BY <2>4, <2>5 DEF TypeInv
<1>7. ASSUME NEW w \in Worker, AcknowledgeDiscards(w) PROVE TypeInv'
  BY <1>0, <1>7 DEF AcknowledgeDiscards, TypeInv, TypeOK, ReadyIsRegistered,
                    registry, windowState, results, learner
<1>8. ASSUME NEW n \in Lease, NEW k \in 0 .. MaxPart, AcceptPart(n, k) PROVE TypeInv'
  <2> DEFINE a == Current(n)
             D == IF ReachesHighWater(total + TerminalProvisional + k)
                  THEN Inactive ELSE {}
             m == [attempt EXCEPT ![n][tries[n]] =
                     [a EXCEPT !.parts = @ + 1, !.term = @ + k]]
  <2>1. tries[n] \in Try /\ a \in Attempt
    BY <1>0, <1>8, BudgetAssumption DEF AcceptPart, Live, Current, TypeOK, Try
  <2>2. a.parts + 1 \in 0 .. MaxPart /\ a.term + k \in 0 .. MaxPart
    BY <1>8, <2>1, BoundAssumption DEF AcceptPart, Attempt
  <2>3. [a EXCEPT !.parts = @ + 1, !.term = @ + k] \in Attempt
    BY <2>1, <2>2 DEF Attempt
  <2>4. m \in AttemptMap
    BY <1>0, <2>1, <2>3 DEF TypeOK
  <2>5. D \in SUBSET Lease
    BY DEF Inactive, Unsettled, Issued
  <2>6. /\ attempt' = ClearShards(m, D)
        /\ discarded' = [j \in Lease |-> discarded[j] \/ j \in D]
        /\ tombstones' = tombstones \cup TombstonesOf(D)
        /\ active' = Release(D)
        /\ highWater' \in BOOLEAN
    BY <1>0, <1>8 DEF AcceptPart, TypeOK, ReachesHighWater
  <2> HIDE DEF a, D, m
  <2>7. attempt' \in AttemptMap
    BY <2>4, <2>6, ClearShardsType
  <2>8. tombstones' \subseteq Tombstone
    BY <1>0, <2>5, <2>6, TombstonesOfType DEF TypeOK
  <2>9. active' \in [Worker -> {Idle} \cup (Lease \X Try)]
    BY <1>0, <2>6, ReleaseType DEF TypeOK
  <2>10. discarded' \in [Lease -> BOOLEAN]
    BY <1>0, <2>6 DEF TypeOK
  <2>11. TypeOK'
    BY <1>0, <1>8, <2>6, <2>7, <2>8, <2>9, <2>10 DEF AcceptPart, TypeOK, results, learner
  <2> QED
    BY <1>0, <1>8, <2>11 DEF AcceptPart, TypeInv, ReadyIsRegistered
<1>9. ASSUME NEW n \in Lease, FailAttempt(n) PROVE TypeInv'
  <2>1. /\ attempt' \in AttemptMap
        /\ discarded' \in [Lease -> BOOLEAN]
        /\ tombstones' \subseteq Tombstone
    BY <1>0, <1>9, FailType DEF FailAttempt
  <2>2. active' \in [Worker -> {Idle} \cup (Lease \X Try)]
    BY <1>0, <1>9, ReleaseType DEF FailAttempt, TypeOK
  <2>3. TypeOK'
    BY <1>0, <1>9, <2>1, <2>2 DEF FailAttempt, TypeOK, windowState, results, learner
  <2> QED
    BY <1>0, <1>9, <2>3 DEF FailAttempt, TypeInv, ReadyIsRegistered
<1>10. ASSUME NEW n \in Lease, ReserveCompletion(n) PROVE TypeInv'
  <2>1. tries[n] \in Try /\ Current(n) \in Attempt
    BY <1>0, <1>10, BudgetAssumption DEF ReserveCompletion, Projected, Live, Current, TypeOK, Try
  <2>2. [attempt[n][tries[n]] EXCEPT !.state = "completing"] \in Attempt
    BY <2>1 DEF Attempt, Current
  <2>3. attempt' \in AttemptMap
    BY <1>0, <1>10, <2>1, <2>2 DEF ReserveCompletion, Projected, TypeOK
  <2>4. [window |-> window, lease |-> n, try |-> tries[n], decisions |-> Current(n).term]
          \in Reservation
    BY <1>0, <2>1, BoundAssumption DEF Reservation, Attempt, TypeOK
  <2>5. reservations' \subseteq Reservation
    BY <1>0, <1>10, <2>4 DEF ReserveCompletion, Projected, TypeOK
  <2>6. TypeOK'
    BY <1>0, <1>10, <2>3, <2>5
    DEF ReserveCompletion, Projected, TypeOK, registry, windowState, results, learner
  <2> QED
    BY <1>0, <1>10, <2>6 DEF ReserveCompletion, Projected, TypeInv, ReadyIsRegistered, registry
<1>11. ASSUME NEW r \in reservations, NEW shown \in SUBSET Artifact,
              FinalizeCompletion(r, shown)
       PROVE  TypeInv'
  <2> DEFINE kept == [attempt EXCEPT ![r.lease][r.try] =
                        [@ EXCEPT !.state = "finished", !.parts = r.decisions]]
  <2>1. /\ r.lease \in Lease /\ r.try \in Try /\ r.decisions \in 0 .. MaxPart
    BY <1>0 DEF TypeOK, Reservation
  <2>2. kept \in AttemptMap
    <3>1. [attempt[r.lease][r.try] EXCEPT !.state = "finished", !.parts = r.decisions]
            \in Attempt
      <4>1. attempt[r.lease][r.try] \in Attempt
        BY <1>0, <2>1 DEF TypeOK
      <4> QED
        BY <2>1, <4>1 DEF Attempt
    <3> QED
      BY <1>0, <2>1, <3>1 DEF TypeOK
  <2>3. PICK D \in SUBSET Lease :
          /\ attempt' = ClearShards(kept, D)
          /\ discarded' = [m \in Lease |-> discarded[m] \/ m \in D]
          /\ tombstones' = tombstones \cup TombstonesOf(D)
          /\ active' = [Release(D) EXCEPT ![Current(r.lease).owner[1]] = Idle]
    <3> DEFINE D == IF /\ ~primaryOnly
                       /\ ~Draining
                       /\ Satisfied(total + r.decisions, FALSE,
                                    Missing([exposes EXCEPT ![r.lease] = shown]))
                    THEN Unsettled \ {r.lease}
                    ELSE IF ReachesHighWater(total + r.decisions + TerminalProvisional
                                               - Current(r.lease).term)
                         THEN Inactive ELSE {}
    <3>1. D \in SUBSET Lease
      BY DEF Inactive, Unsettled, Issued
    <3>2. /\ attempt' = ClearShards(kept, D)
          /\ discarded' = [m \in Lease |-> discarded[m] \/ m \in D]
          /\ tombstones' = tombstones \cup TombstonesOf(D)
          /\ active' = [Release(D) EXCEPT ![Current(r.lease).owner[1]] = Idle]
      BY <1>11 DEF FinalizeCompletion
    <3> QED
      BY <3>1, <3>2
  <2> HIDE DEF kept
  <2>4. attempt' \in AttemptMap
    BY <2>2, <2>3, ClearShardsType
  <2>5. tombstones' \subseteq Tombstone
    BY <1>0, <2>3, TombstonesOfType DEF TypeOK
  <2>6. active' \in [Worker -> {Idle} \cup (Lease \X Try)]
    <3>1. Release(D) \in [Worker -> {Idle} \cup (Lease \X Try)]
      BY <1>0, ReleaseType DEF TypeOK
    <3> QED
      BY <2>3, <3>1
  <2>7. discarded' \in [Lease -> BOOLEAN]
    BY <1>0, <2>3 DEF TypeOK
  <2>8. /\ accepted' \in [Lease -> 0 .. MaximumAttempts]
        /\ decided' \in [Lease -> 0 .. MaxPart]
        /\ exposes' \in [Lease -> SUBSET Artifact]
        /\ total' \in Nat
        /\ highWater' \in BOOLEAN
        /\ reservations' \subseteq Reservation
    <3>1. r.try \in 0 .. MaximumAttempts /\ r.decisions \in Nat
      BY <2>1, BudgetAssumption, BoundAssumption DEF Try
    <3>2. /\ accepted' = [accepted EXCEPT ![r.lease] = r.try]
          /\ decided' = [decided EXCEPT ![r.lease] = r.decisions]
          /\ exposes' = [exposes EXCEPT ![r.lease] = shown]
          /\ total' = total + r.decisions
          /\ reservations' = reservations \ {r}
      BY <1>11 DEF FinalizeCompletion
    <3>3. highWater' \in BOOLEAN
      BY <1>0, <1>11 DEF FinalizeCompletion, TypeOK, ReachesHighWater
    <3> QED
      BY <1>0, <2>1, <3>1, <3>2, <3>3 DEF TypeOK
  <2>9. TypeOK'
    BY <1>0, <1>11, <2>4, <2>5, <2>6, <2>7, <2>8 DEF FinalizeCompletion, TypeOK, learner
  <2> QED
    BY <1>0, <1>11, <2>9 DEF FinalizeCompletion, TypeInv, ReadyIsRegistered
<1>12. ASSUME NEW r \in reservations, RejectCompletion(r) PROVE TypeInv'
  <2> DEFINE F == IF ~Tombstoned(r) /\ Names(r) THEN {r.lease} ELSE {}
  <2>1. F \in SUBSET Lease /\ \A n \in F : Live(n)
    BY <1>0 DEF TypeOK, Reservation, Names
  <2>2. Fail(F) /\ active' = FreeFailed(F)
    BY <1>12 DEF RejectCompletion
  <2> HIDE DEF F
  <2>3. /\ attempt' \in AttemptMap
        /\ discarded' \in [Lease -> BOOLEAN]
        /\ tombstones' \subseteq Tombstone
    BY <1>0, <2>1, <2>2, FailType
  <2>4. active' \in [Worker -> {Idle} \cup (Lease \X Try)]
    BY <1>0, <2>2, ReleaseType DEF TypeOK
  <2>5. TypeOK'
    BY <1>0, <1>12, <2>3, <2>4 DEF RejectCompletion, TypeOK, windowState, results, learner
  <2> QED
    BY <1>0, <1>12, <2>5 DEF RejectCompletion, TypeInv, ReadyIsRegistered
<1>13. ASSUME NEW stale, NEW mode \in BOOLEAN, BeginWindow(stale, mode) PROVE TypeInv'
  <2>1. Unstarted \in Attempt
    BY BoundAssumption DEF Unstarted, Attempt
  <2>2. attempt' \in AttemptMap
    BY <1>13, <2>1 DEF BeginWindow
  <2>3. /\ session' \in [Worker -> 0 .. MaxSession]
        /\ topology' \in [Worker -> 0 .. MaxSession]
        /\ ready' \in [Worker -> BOOLEAN]
        /\ pending' \in [Worker -> 0 .. MaxSession]
        /\ pendingReady' \in [Worker -> BOOLEAN]
    BY <1>0, <1>13, BoundAssumption
    DEF BeginWindow, PromotePending, PromotedSession, PromotedReady, TypeOK
  <2>4. /\ tries' \in [Lease -> 0 .. MaximumAttempts]
        /\ accepted' \in [Lease -> 0 .. MaximumAttempts]
        /\ decided' \in [Lease -> 0 .. MaxPart]
        /\ exposes' \in [Lease -> SUBSET Artifact]
        /\ window' \in 0 .. MaxWindow
    BY <1>0, <1>13, BoundAssumption, BudgetAssumption DEF BeginWindow, TypeOK
  <2>5. TypeOK'
    BY <1>0, <1>13, <2>2, <2>3, <2>4 DEF BeginWindow, PromotePending, TypeOK, learner
  <2>6. ReadyIsRegistered'
    BY <1>0, <1>13
    DEF BeginWindow, PromotePending, PromotedSession, PromotedReady, ReadyIsRegistered, TypeOK
  <2> QED
    BY <2>5, <2>6 DEF TypeInv
<1>14. ASSUME NEW stale, RefuseWindow(stale) PROVE TypeInv'
  <2>1. /\ session' \in [Worker -> 0 .. MaxSession]
        /\ ready' \in [Worker -> BOOLEAN]
        /\ pending' \in [Worker -> 0 .. MaxSession]
        /\ pendingReady' \in [Worker -> BOOLEAN]
        /\ active' \in [Worker -> {Idle} \cup (Lease \X Try)]
    BY <1>0, <1>14, BoundAssumption
    DEF RefuseWindow, PromotePending, PromotedSession, PromotedReady, TypeOK
  <2>2. TypeOK'
    BY <1>0, <1>14, <2>1
    DEF RefuseWindow, PromotePending, TypeOK, windowState, results, learner
  <2>3. ReadyIsRegistered'
    BY <1>0, <1>14
    DEF RefuseWindow, PromotePending, PromotedSession, PromotedReady, ReadyIsRegistered, TypeOK
  <2> QED
    BY <2>2, <2>3 DEF TypeInv
<1>15. CASE RequestLearnerReadyDrain
  <2>1. Inactive \in SUBSET Lease
    BY DEF Inactive, Unsettled, Issued
  <2>2. attempt' \in AttemptMap
    BY <1>0, <1>15, ClearShardsType DEF RequestLearnerReadyDrain, TypeOK
  <2>3. tombstones' \subseteq Tombstone
    BY <1>0, <1>15, <2>1, TombstonesOfType DEF RequestLearnerReadyDrain, TypeOK
  <2>4. active' \in [Worker -> {Idle} \cup (Lease \X Try)]
    BY <1>0, <1>15, ReleaseType DEF RequestLearnerReadyDrain, TypeOK
  <2>5. TypeOK'
    BY <1>0, <1>15, <2>2, <2>3, <2>4 DEF RequestLearnerReadyDrain, TypeOK, results, learner
  <2> QED
    BY <1>0, <1>15, <2>5 DEF RequestLearnerReadyDrain, TypeInv, ReadyIsRegistered
<1>16. CASE StartCommit
  <2>1. Outcomes \subseteq Lease \X (0 .. MaxPart)
    BY <1>0 DEF Outcomes, TypeOK
  <2>2. TypeOK'
    BY <1>0, <1>16, <2>1 DEF StartCommit, TypeOK, registry, windowState, results
  <2> QED
    BY <1>0, <1>16, <2>2 DEF StartCommit, TypeInv, ReadyIsRegistered, registry
<1>17. CASE FinishCommit
  <2>1. /\ phase' = "committed"
        /\ committed' \in Nat
        /\ callback' = FALSE
    BY <1>0, <1>17 DEF FinishCommit, TypeOK
  <2>2. TypeOK'
    BY <1>0, <1>17, <2>1 DEF FinishCommit, TypeOK, registry, results
  <2> QED
    BY <1>0, <1>17, <2>2 DEF FinishCommit, TypeInv, ReadyIsRegistered, registry
<1>18. CASE FailCommit
  BY <1>0, <1>18
  DEF FailCommit, TypeInv, TypeOK, ReadyIsRegistered, registry, windowState, results
<1>19. CASE AbortWindow
  <2>1. attempt' \in AttemptMap
    BY <1>0, <1>19, ClearShardsType DEF AbortWindow, TypeOK
  <2>2. active' \in [Worker -> {Idle} \cup (Lease \X Try)]
    BY <1>19 DEF AbortWindow
  <2>3. TypeOK'
    BY <1>0, <1>19, <2>1, <2>2 DEF AbortWindow, TypeOK, results, learner
  <2> QED
    BY <1>0, <1>19, <2>3 DEF AbortWindow, TypeInv, ReadyIsRegistered
<1>20. CASE ReleaseParts
  <2>1. \A n \in Lease, k \in Try :
          [attempt[n][k] EXCEPT !.parts = 0, !.term = 0] \in Attempt
    <3>1. 0 \in 0 .. MaxPart
      BY BoundAssumption
    <3>2. \A n \in Lease, k \in Try : attempt[n][k] \in Attempt
      BY <1>0 DEF TypeOK
    <3> QED
      BY <3>1, <3>2 DEF Attempt
  <2>2. attempt' \in AttemptMap
    BY <1>20, <2>1 DEF ReleaseParts
  <2>3. TypeOK'
    BY <1>0, <1>20, <2>2 DEF ReleaseParts, TypeOK, registry, windowState, results, learner
  <2> QED
    BY <1>0, <1>20, <2>3 DEF ReleaseParts, TypeInv, ReadyIsRegistered, registry
<1>21. CASE UNCHANGED vars
  BY <1>0, <1>21
  DEF vars, TypeInv, TypeOK, ReadyIsRegistered, registry, windowState, results, learner
<1>22. ASSUME NEW stale, NEW mode \in PrimaryOnlyModes, BeginWindow(stale, mode) PROVE TypeInv'
  BY <1>13, <1>22, QuorumAssumption
<1>23. WorkerStep => TypeInv'
  BY <1>1, <1>2, <1>3, <1>5, <1>6, <1>7 DEF WorkerStep
<1>24. AttemptStep => TypeInv'
  BY <1>8, <1>9, <1>10 DEF AttemptStep
<1>25. CompletionStep => TypeInv'
  BY <1>11, <1>12 DEF CompletionStep
<1>26. SweepStep => TypeInv'
  BY <1>4 DEF SweepStep
<1>27. BoundaryStep => TypeInv'
  BY <1>14, <1>22 DEF BoundaryStep
<1>28. LearnerStep => TypeInv'
  BY <1>15, <1>16, <1>17, <1>18, <1>19, <1>20 DEF LearnerStep
<1> QED
  BY <1>21, <1>23, <1>24, <1>25, <1>26, <1>27, <1>28 DEF Next

\* Every reachable state is well typed: tries never exceed the retry budget,
\* sessions owning an attempt are registered ones, whatever the constants.
THEOREM TypeCorrect == Spec => []TypeOK
<1>1. Spec => []TypeInv
  BY InitTypeInv, NextTypeInv, PTL DEF Spec
<1>2. TypeInv => TypeOK
  BY DEF TypeInv
<1> QED
  BY <1>1, <1>2, PTL

(***************************************************************************)
(* Sums.  A property of every natural number, or of every subset of a      *)
(* finite set, is proved from the least counterexample it would have.      *)
(***************************************************************************)

\* A nonempty set of naturals has a least element.
LEMMA LeastNatural ==
    ASSUME NEW T \in SUBSET Nat, T # {}
    PROVE  \E m \in T : \A k \in T : m <= k
<1>1. PICK m \in T : \A k \in T : <<k, m>> \notin OpToRel(<, Nat)
  BY NatLessThanWellFounded, WFMin
<1>2. \A k \in T : ~(k < m)
  BY <1>1 DEF OpToRel
<1> QED
  BY <1>2

\* A nonempty family of subsets of a finite set has one that leaves the family
\* with any of its elements: induction over finite sets.
LEMMA SmallestSubset ==
    ASSUME NEW S, IsFiniteSet(S), NEW T, T \subseteq SUBSET S, T # {}
    PROVE  \E s \in T : \A n \in s : s \ {n} \notin T
<1>0. IsWellFoundedOn(StrictSubsetOrdering(S), SUBSET S)
  BY FS_StrictSubsetOrderingWellFounded, FS_FiniteSubsetsOfFinite
<1>1. PICK s \in T : \A t \in T : ~(<<t, s>> \in StrictSubsetOrdering(S))
  BY <1>0, WFMin
<1>2. \A n \in s : <<s \ {n}, s>> \in StrictSubsetOrdering(S)
  BY DEF StrictSubsetOrdering
<1> QED
  BY <1>1, <1>2

\* The element the sum over s takes first, and what the sum is then.
Pick(s) == CHOOSE n \in s : TRUE

Added(f, g, s) == IF s = {} THEN 0 ELSE f[Pick(s)] + g[s \ {Pick(s)}]

\* g is the sum of f over every set of the family D
IsSum(f, g, D) == g = [s \in D |-> Added(f, g, s)]

\* The recursive definition behind a sum over a finite set has a solution.
LEMMA SumExists ==
    ASSUME NEW S, IsFiniteSet(S), NEW f
    PROVE  \E g : IsSum(f, g, SUBSET S)
<1> DEFINE Upto(n) == {s \in SUBSET S : Cardinality(s) <= n}
           Failing == {n \in Nat : \A g : ~IsSum(f, g, Upto(n))}
<1>1. \A s \in SUBSET S : IsFiniteSet(s) /\ Cardinality(s) \in Nat
  BY FS_Subset, FS_CardinalityType
<1>2. 0 \notin Failing
  <2>1. \A s \in Upto(0) : s = {}
    BY <1>1, FS_EmptySet
  <2>2. IsSum(f, [s \in Upto(0) |-> 0], Upto(0))
    BY <2>1 DEF IsSum, Added
  <2> QED
    BY <2>2
<1>3. ASSUME NEW n \in Nat, n \notin Failing PROVE n + 1 \notin Failing
  <2>1. PICK g : IsSum(f, g, Upto(n))
    BY <1>3
  <2> DEFINE h == [s \in Upto(n + 1) |-> Added(f, g, s)]
  <2>2. ASSUME NEW s \in Upto(n + 1), s # {} PROVE h[s \ {Pick(s)}] = g[s \ {Pick(s)}]
    <3>1. Pick(s) \in s
      BY <2>2 DEF Pick
    <3>2. Cardinality(s \ {Pick(s)}) = Cardinality(s) - 1
      BY <1>1, <3>1, FS_RemoveElement
    <3>3. s \ {Pick(s)} \in Upto(n) /\ s \ {Pick(s)} \in Upto(n + 1)
      BY <1>1, <3>2
    <3>4. h[s \ {Pick(s)}] = Added(f, g, s \ {Pick(s)})
      BY <3>3
    <3>5. g[s \ {Pick(s)}] = Added(f, g, s \ {Pick(s)})
      BY <2>1, <3>3 DEF IsSum
    <3> QED
      BY <3>4, <3>5
  <2>3. \A s \in Upto(n + 1) : Added(f, g, s) = Added(f, h, s)
    BY <2>2 DEF Added
  <2>4. IsSum(f, h, Upto(n + 1))
    <3> HIDE DEF Upto
    <3> QED
      BY <2>3 DEF IsSum
  <2> QED
    BY <2>4
<1>4. Failing = {}
  <2> SUFFICES ASSUME Failing # {} PROVE FALSE
    OBVIOUS
  <2>1. PICK m \in Failing : \A k \in Failing : m <= k
    BY LeastNatural
  <2>2. m \in Nat /\ m # 0
    BY <1>2
  <2>3. m - 1 \in Nat /\ m - 1 \notin Failing
    BY <2>1, <2>2
  <2>4. (m - 1) + 1 \notin Failing
    BY <1>3, <2>3
  <2> QED
    BY <2>1, <2>2, <2>4
<1>5. Upto(Cardinality(S)) = SUBSET S
  BY <1>1, FS_Subset
<1>6. Cardinality(S) \in Nat
  BY FS_CardinalityType
<1> QED
  BY <1>4, <1>5, <1>6

\* MapThenSumSet is such a sum.
LEMMA SumIsSum ==
    ASSUME NEW S, IsFiniteSet(S), NEW f
    PROVE  \E g : IsSum(f, g, SUBSET S) /\ SumOver(f, S) = g[S]
<1> DEFINE iter == CHOOSE g : g = [s \in SUBSET S |-> Added(f, g, s)]
<1>1. IsSum(f, iter, SUBSET S)
  BY SumExists DEF IsSum
<1>2. SumOver(f, S) = iter[S]
  BY DEF SumOver, MapThenSumSet, MapThenFoldSet, Added, Pick
<1> QED
  BY <1>1, <1>2

\* Raising one value from zero raises the sum by it, and a sum of zeros is zero.
LEMMA SumGains ==
    ASSUME NEW S, IsFiniteSet(S), NEW f \in [S -> Nat], NEW m \in S, NEW d \in Nat,
           f[m] = 0
    PROVE  SumOver([f EXCEPT ![m] = d], S) = SumOver(f, S) + d
<1> DEFINE e == [f EXCEPT ![m] = d]
<1>1. PICK g : IsSum(f, g, SUBSET S) /\ SumOver(f, S) = g[S]
  BY SumIsSum
<1>2. PICK h : IsSum(e, h, SUBSET S) /\ SumOver(e, S) = h[S]
  BY SumIsSum
<1> DEFINE Agree(s) == g[s] \in Nat /\ h[s] = g[s] + (IF m \in s THEN d ELSE 0)
           Failing == {s \in SUBSET S : ~Agree(s)}
<1>3. ASSUME NEW s \in SUBSET S, s # {}, Agree(s \ {Pick(s)}) PROVE Agree(s)
  <2>1. Pick(s) \in s /\ f[Pick(s)] \in Nat
    BY <1>3 DEF Pick
  <2>2. /\ g[s] = f[Pick(s)] + g[s \ {Pick(s)}]
        /\ h[s] = e[Pick(s)] + h[s \ {Pick(s)}]
    BY <1>1, <1>2, <1>3 DEF IsSum, Added
  <2>3. CASE Pick(s) = m
    <3>1. e[Pick(s)] = d /\ f[Pick(s)] = 0 /\ m \in s /\ m \notin s \ {Pick(s)}
      BY <2>1, <2>3
    <3> QED
      BY <1>3, <2>1, <2>2, <3>1
  <2>4. CASE Pick(s) # m
    <3>1. e[Pick(s)] = f[Pick(s)] /\ (m \in s <=> m \in s \ {Pick(s)})
      BY <2>1, <2>4
    <3> QED
      BY <1>3, <2>1, <2>2, <3>1
  <2> QED
    BY <2>3, <2>4
<1>4. Agree({})
  <2>1. g[{}] = 0 /\ h[{}] = 0
    BY <1>1, <1>2 DEF IsSum, Added
  <2> QED
    BY <2>1
<1>5. Failing = {}
  <2> SUFFICES ASSUME Failing # {} PROVE FALSE
    OBVIOUS
  <2>0. Failing \subseteq SUBSET S
    OBVIOUS
  <2> HIDE DEF Failing
  <2>1. PICK s \in Failing : \A n \in s : s \ {n} \notin Failing
    BY <2>0, SmallestSubset
  <2> USE DEF Failing
  <2>2. s # {} /\ s \in SUBSET S
    BY <1>4
  <2>3. Pick(s) \in s
    BY <2>2 DEF Pick
  <2>5. Agree(s \ {Pick(s)})
    BY <2>1, <2>2, <2>3
  <2> QED
    BY <1>3, <2>1, <2>2, <2>5
<1>6. Agree(S)
  BY <1>5
<1> QED
  BY <1>1, <1>2, <1>6

LEMMA SumOfZeros ==
    ASSUME NEW S, IsFiniteSet(S), NEW f, \A n \in S : f[n] = 0
    PROVE  SumOver(f, S) = 0
<1>1. PICK g : IsSum(f, g, SUBSET S) /\ SumOver(f, S) = g[S]
  BY SumIsSum
<1> DEFINE Failing == {s \in SUBSET S : g[s] # 0}
<1>2. Failing = {}
  <2> SUFFICES ASSUME Failing # {} PROVE FALSE
    OBVIOUS
  <2>0. Failing \subseteq SUBSET S
    OBVIOUS
  <2> HIDE DEF Failing
  <2>1. PICK s \in Failing : \A n \in s : s \ {n} \notin Failing
    BY <2>0, SmallestSubset
  <2> USE DEF Failing
  <2>2. s # {} /\ s \in SUBSET S
    BY <1>1 DEF IsSum, Added
  <2>3. Pick(s) \in s
    BY <2>2 DEF Pick
  <2>5. g[s \ {Pick(s)}] = 0
    BY <2>1, <2>2, <2>3
  <2>6. g[s] = f[Pick(s)] + g[s \ {Pick(s)}]
    BY <1>1, <2>2 DEF IsSum, Added
  <2> QED
    BY <2>1, <2>2, <2>3, <2>5, <2>6
<1> QED
  BY <1>1, <1>2

(***************************************************************************)
(* Safety: sessions, attempts and the window the learner commits           *)
(***************************************************************************)

LiveStates == {"running", "completing"}

\* only the last attempt of a lease can be live
OneLive == \A n \in Lease, k \in Try : attempt[n][k].state \in LiveStates => k = tries[n]

\* a live lease is open, in an open window
LiveIsOpen ==
    \A n \in Lease : Live(n) =>
        /\ Collecting
        /\ accepted[n] = 0
        /\ ~discarded[n]

\* a lease that was not issued has neither a result nor a discard
UnissuedIsBlank ==
    \A n \in Lease : tries[n] = 0 => accepted[n] = 0 /\ ~discarded[n]

LeaseInv == OneLive /\ LiveIsOpen /\ UnissuedIsBlank /\ ActiveIsLive

IInv == TypeInv /\ LeaseInv /\ CommitsWhatItHanded

(***************************************************************************)
(* What a failure and a discard do to the live attempts                    *)
(***************************************************************************)

\* A failure ends exactly the attempts of F.
LEMMA FailEffect ==
    ASSUME TypeInv, OneLive, NEW F \in SUBSET Lease, \A n \in F : Live(n),
           Fail(F), tries' = tries
    PROVE  /\ OneLive'
           /\ \A n \in Lease : Live(n)' <=> Live(n) /\ n \notin F
           /\ \A n \in Lease : Live(n)' => Current(n)' = Current(n)
<1>1. attempt \in AttemptMap /\ \A n \in Lease : tries[n] \in 0 .. MaximumAttempts
  BY DEF TypeInv, TypeOK, AttemptMap
<1>2. \A n \in Lease \ F : attempt'[n] = attempt[n]
  BY DEF Fail
<1>3. ASSUME NEW n \in F
      PROVE  /\ tries[n] \in Try
             /\ attempt'[n][tries[n]].state = "finished"
             /\ \A k \in Try \ {tries[n]} : attempt'[n][k] = attempt[n][k]
  <2>1. n \in Lease /\ Live(n) /\ tries[n] \in Try
    BY <1>1, <1>3, BudgetAssumption DEF Live, Try
  <2>2. attempt'[n] = [attempt[n] EXCEPT ![tries[n]] = Cleared(@)]
    BY <1>3, <2>1 DEF Fail
  <2>3. attempt[n] \in [Try -> Attempt] /\ attempt[n][tries[n]] \in Attempt
    BY <1>1, <2>1 DEF AttemptMap
  <2>4. Cleared(attempt[n][tries[n]]).state = "finished"
    BY <2>1, <2>3 DEF Live, Current, Cleared, Attempt
  <2> QED
    BY <2>1, <2>2, <2>3, <2>4
<1>4. ASSUME NEW n \in Lease PROVE Live(n)' <=> Live(n) /\ n \notin F
  BY <1>2, <1>3 DEF Live, Current
<1>5. ASSUME NEW n \in Lease, Live(n)' PROVE Current(n)' = Current(n)
  BY <1>2, <1>4, <1>5 DEF Current
<1>6. OneLive'
  BY <1>2, <1>3 DEF OneLive, LiveStates
<1> QED
  BY <1>4, <1>5, <1>6

\* A failure that frees the workers of its attempts keeps sessions and live
\* attempts matched.
LEMMA FailSafe ==
    ASSUME IInv, NEW F \in SUBSET Lease, \A n \in F : Live(n), Fail(F),
           active' = FreeFailed(F), UNCHANGED <<tries, session, phase, accepted>>
    PROVE  LeaseInv'
<1>1. /\ OneLive'
      /\ \A n \in Lease : Live(n)' <=> Live(n) /\ n \notin F
      /\ \A n \in Lease : Live(n)' => Current(n)' = Current(n)
  BY FailEffect DEF IInv, LeaseInv
<1>2. LiveIsOpen'
  <2>1. \A n \in Lease \ F : discarded'[n] = discarded[n]
    BY DEF Fail, IInv, LeaseInv, TypeInv, TypeOK
  <2> QED
    BY <1>1, <2>1 DEF IInv, LeaseInv, LiveIsOpen, Collecting
<1>3. \A w \in Worker : active'[w] # Idle =>
        /\ active'[w] = active[w]
        /\ \A n \in F : active[w] # <<n, tries[n]>>
  BY DEF FreeFailed
<1>4. ASSUME NEW w \in Worker, active'[w] # Idle
      PROVE  \E n \in Lease : /\ active'[w] = <<n, tries'[n]>>
                               /\ Live(n)'
                               /\ Current(n)'.owner = <<w, session'[w]>>
  <2>1. active'[w] = active[w] /\ active[w] # Idle
    BY <1>3, <1>4
  <2>2. PICK n \in Lease : /\ active[w] = <<n, tries[n]>>
                           /\ Live(n)
                           /\ Current(n).owner = <<w, session[w]>>
    BY <2>1 DEF IInv, LeaseInv, ActiveIsLive
  <2>3. n \notin F
    BY <1>3, <1>4, <2>2
  <2>4. Live(n)' /\ Current(n)' = Current(n)
    BY <1>1, <2>2, <2>3
  <2> QED
    BY <2>1, <2>2, <2>4
<1>5. ASSUME NEW n \in Lease, Live(n)'
      PROVE  \E w \in Worker : active'[w] = <<n, tries'[n]>>
  <2>1. Live(n) /\ n \notin F
    BY <1>1, <1>5
  <2>2. PICK w \in Worker : active[w] = <<n, tries[n]>>
    BY <2>1 DEF IInv, LeaseInv, ActiveIsLive
  <2>3. \A m \in F : active[w] # <<m, tries[m]>>
    BY <2>1, <2>2
  <2>4. active'[w] = active[w]
    BY <2>3 DEF FreeFailed
  <2> QED
    BY <2>2, <2>4
<1>6. ActiveIsLive'
  BY <1>4, <1>5 DEF ActiveIsLive
<1>7. UnissuedIsBlank'
  <2>1. \A n \in F : tries[n] # 0
    BY BudgetAssumption DEF Live, IInv, TypeInv, TypeOK
  <2> QED
    BY <2>1 DEF Fail, IInv, LeaseInv, TypeInv, TypeOK, UnissuedIsBlank
<1> QED
  BY <1>1, <1>2, <1>6, <1>7 DEF LeaseInv

\* Clearing the leases of D ends their attempts and no other.
LEMMA ClearEffect ==
    ASSUME TypeInv, NEW m \in AttemptMap, NEW D \in SUBSET Lease,
           attempt' = ClearShards(m, D), tries' = tries,
           \A n \in Lease, k \in Try : m[n][k].state \in LiveStates => k = tries[n]
    PROVE  /\ OneLive'
           /\ \A n \in D : ~Live(n)'
           /\ \A n \in Lease \ D : attempt'[n] = m[n]
<1>1. \A n \in Lease \ D : attempt'[n] = m[n]
  BY DEF ClearShards
<1>2. ASSUME NEW n \in D, NEW k \in Try PROVE attempt'[n][k].state \notin LiveStates
  <2>1. attempt'[n][k] = Cleared(m[n][k])
    BY <1>2 DEF ClearShards
  <2>2. m[n][k] \in Attempt
    BY <1>2 DEF AttemptMap
  <2> QED
    BY <2>1, <2>2 DEF Cleared, Attempt, LiveStates
<1>3. \A n \in D : ~Live(n)'
  <2>1. \A n \in Lease : tries[n] > 0 => tries[n] \in Try
    BY BudgetAssumption DEF TypeInv, TypeOK, Try
  <2> QED
    BY <1>2, <2>1 DEF Live, Current, LiveStates
<1> QED
  BY <1>1, <1>2, <1>3 DEF OneLive

(***************************************************************************)
(* A window that is ready to commit                                        *)
(***************************************************************************)

\* Nothing runs in it.
LEMMA ReadyIsIdle ==
    ASSUME IInv, ReadyToCommit
    PROVE  /\ Collecting
           /\ Unsettled = {}
           /\ Inactive = {}
           /\ \A n \in Lease : ~Live(n)
           /\ \A w \in Worker : active[w] = Idle
<1>1. Collecting /\ Unsettled = {} /\ Inactive = {}
  BY DEF ReadyToCommit, Inactive
<1>2. \A n \in Lease : ~Live(n)
  <2>1. \A n \in Lease : Live(n) => n \in Unsettled
    BY DEF IInv, LeaseInv, LiveIsOpen, Unsettled, Issued, Live
  <2> QED
    BY <1>1, <2>1
<1>3. \A w \in Worker : active[w] = Idle
  BY <1>2 DEF IInv, LeaseInv, ActiveIsLive, TypeInv, TypeOK
<1> QED
  BY <1>1, <1>2, <1>3

\* It depends on the window's settings, results and discards alone.
LEMMA ReadyDepends ==
    ASSUME ReadyToCommit, UNCHANGED <<windowState, tries, results, discarded>>
    PROVE  ReadyToCommit' /\ Outcomes' = Outcomes /\ total' = total
BY DEF ReadyToCommit, Collecting, Satisfied, Draining, Missing, Unsettled, Issued,
       Outcomes, windowState, results

\* A sum over no lease is zero.
LEMMA EmptySum == ASSUME NEW f PROVE SumOver(f, {}) = 0
BY FS_EmptySet, SumOfZeros

\* A failure of no attempt changes no shard.
LEMMA FailNone ==
    ASSUME TypeInv, Fail({})
    PROVE  attempt' = attempt /\ discarded' = discarded
BY DEF Fail, TypeInv, TypeOK

\* No lease is left to issue: the drain or the target stops it.
LEMMA ReadyIssuesNothing ==
    ASSUME IInv, ReadyToCommit, NEW w \in Worker, MayWork(w), WorkLeft
    PROVE  FALSE
<1>1. Unsettled = {}
  BY ReadyIsIdle
<1>2. Provisional = 0
  <2>1. Open = {}
    BY <1>1 DEF Open
  <2> QED
    BY <2>1, EmptySum DEF Provisional
<1>3. ~Draining
  BY DEF MayWork
<1>4. ~primaryOnly /\ total >= Target
  BY <1>3 DEF ReadyToCommit, Satisfied
<1>5. total \in Nat /\ Target \in Nat
  BY BudgetAssumption DEF IInv, LeaseInv, TypeInv, TypeOK
<1> QED
  BY <1>2, <1>4, <1>5 DEF WorkLeft

(***************************************************************************)
(* Steps that share their effect on the leases                             *)
(***************************************************************************)

\* The workers' and leases' state decides LeaseInv.
leaseState == <<tries, attempt, active, session, phase, accepted, discarded>>

LEMMA LeaseFrame == LeaseInv /\ UNCHANGED leaseState => LeaseInv'
BY DEF LeaseInv, leaseState, OneLive, LiveIsOpen, UnissuedIsBlank, ActiveIsLive, Live,
       Current, Collecting

\* Relabelling attempts without starting or ending one is harmless.
LEMMA RelabelSafe ==
    ASSUME IInv, UNCHANGED <<tries, active, session, phase, accepted, discarded>>,
           \A n \in Lease, k \in Try :
               /\ attempt'[n][k].state \in LiveStates <=> attempt[n][k].state \in LiveStates
               /\ attempt'[n][k].owner = attempt[n][k].owner
    PROVE  LeaseInv'
<1>1. \A n \in Lease : tries[n] > 0 => tries[n] \in Try
  BY BudgetAssumption DEF IInv, TypeInv, TypeOK, Try
<1>2. \A n \in Lease : Live(n)' <=> Live(n)
  BY <1>1 DEF Live, Current, LiveStates
<1>3. \A n \in Lease : Live(n) => Current(n)'.owner = Current(n).owner
  BY <1>1 DEF Live, Current
<1>4. OneLive' /\ LiveIsOpen' /\ UnissuedIsBlank'
  BY <1>2 DEF IInv, LeaseInv, OneLive, LiveIsOpen, UnissuedIsBlank, Collecting
<1>5. ActiveIsLive'
  BY <1>2, <1>3 DEF IInv, LeaseInv, ActiveIsLive
<1> QED
  BY <1>4, <1>5 DEF LeaseInv

\* Discarding leases that have no live attempt touches no worker.
LEMMA DropInactiveSafe ==
    ASSUME IInv, NEW m \in AttemptMap, NEW D \in SUBSET Inactive,
           \A n \in Lease, k \in Try : /\ m[n][k].state = attempt[n][k].state
                                       /\ m[n][k].owner = attempt[n][k].owner,
           attempt' = ClearShards(m, D), active' = Release(D),
           discarded' = [n \in Lease |-> discarded[n] \/ n \in D],
           UNCHANGED <<tries, session, phase, accepted>>
    PROVE  LeaseInv'
<1>1. D \subseteq Lease /\ \A n \in D : ~Live(n) /\ tries[n] # 0
  BY BudgetAssumption DEF Inactive, Unsettled, Issued, IInv, TypeInv, TypeOK
<1>2. /\ OneLive'
      /\ \A n \in D : ~Live(n)'
      /\ \A n \in Lease \ D : attempt'[n] = m[n]
  <2>1. \A n \in Lease, k \in Try : m[n][k].state \in LiveStates => k = tries[n]
    BY DEF IInv, LeaseInv, OneLive
  <2> QED
    BY <1>1, <2>1, ClearEffect DEF IInv
<1>3. \A n \in Lease : tries[n] > 0 => tries[n] \in Try
  BY BudgetAssumption DEF IInv, TypeInv, TypeOK, Try
<1>4. \A n \in Lease : Live(n)' <=> Live(n)
  BY <1>1, <1>2, <1>3 DEF Live, Current, LiveStates
<1>5. \A n \in Lease : Live(n) => Current(n)'.owner = Current(n).owner
  BY <1>1, <1>2, <1>3 DEF Live, Current
<1>6. active' = active
  <2>1. ASSUME NEW w \in Worker PROVE active'[w] = active[w]
    <3>1. CASE active[w] = Idle
      BY <3>1 DEF Release
    <3>2. CASE active[w] # Idle
      <4>1. PICK n \in Lease : active[w] = <<n, tries[n]>> /\ Live(n)
        BY <3>2 DEF IInv, LeaseInv, ActiveIsLive
      <4>2. n \notin D
        BY <1>1, <4>1
      <4> QED
        BY <4>1, <4>2 DEF Release
    <3> QED
      BY <3>1, <3>2
  <2>2. active \in [Worker -> {Idle} \cup (Lease \X Try)] /\ active' = [w \in Worker |-> active'[w]]
    BY DEF IInv, TypeInv, TypeOK, Release
  <2> QED
    BY <2>1, <2>2
<1>7. LiveIsOpen' /\ UnissuedIsBlank'
  BY <1>1, <1>4 DEF IInv, LeaseInv, LiveIsOpen, UnissuedIsBlank, Collecting
<1>8. ActiveIsLive'
  BY <1>4, <1>5, <1>6 DEF IInv, LeaseInv, ActiveIsLive
<1> QED
  BY <1>2, <1>7, <1>8 DEF LeaseInv

\* A state in which nothing runs and every worker is idle.
LEMMA IdleSafe ==
    ASSUME OneLive', UnissuedIsBlank', \A n \in Lease : ~Live(n)',
           \A w \in Worker : active'[w] = Idle
    PROVE  LeaseInv'
<1>1. LiveIsOpen' /\ ActiveIsLive'
  BY DEF LiveIsOpen, ActiveIsLive
<1> QED
  BY <1>1 DEF LeaseInv

\* Starting an attempt of an open lease that has none, for an idle worker.
LEMMA StartSafe ==
    ASSUME IInv, NEW w \in Worker, NEW n \in Lease, MayWork(w), ~Live(n),
           tries[n] < MaximumAttempts, accepted[n] = 0, ~discarded[n],
           StartAttempt(n, w), UNCHANGED <<session, phase, accepted, discarded>>
    PROVE  LeaseInv'
<1> DEFINE new == [owner |-> <<w, session[w]>>, state |-> "running", parts |-> 0,
                   term |-> 0]
<1>1. /\ \A m \in Lease : tries[m] \in 0 .. MaximumAttempts
      /\ \A m \in Lease : tries[m] > 0 => tries[m] \in Try
      /\ tries[n] + 1 \in Try
  BY BudgetAssumption DEF IInv, TypeInv, TypeOK, Try
<1>2. /\ tries'[n] = tries[n] + 1
      /\ \A m \in Lease \ {n} : tries'[m] = tries[m] /\ attempt'[m] = attempt[m]
      /\ attempt'[n][tries[n] + 1] = new
      /\ \A k \in Try \ {tries[n] + 1} : attempt'[n][k] = attempt[n][k]
      /\ active'[w] = <<n, tries[n] + 1>>
      /\ \A v \in Worker \ {w} : active'[v] = active[v]
  BY <1>1 DEF StartAttempt, IInv, TypeInv, TypeOK
<1>3. Live(n)' /\ Current(n)' = new
  BY <1>1, <1>2 DEF Live, Current
<1>4. \A m \in Lease \ {n} : (Live(m)' <=> Live(m)) /\ Current(m)' = Current(m)
  BY <1>2 DEF Live, Current
<1>5. \A k \in Try : attempt[n][k].state \notin LiveStates
  <2> SUFFICES ASSUME NEW k \in Try, attempt[n][k].state \in LiveStates PROVE FALSE
    OBVIOUS
  <2>1. k = tries[n]
    BY DEF IInv, LeaseInv, OneLive
  <2>2. tries[n] > 0
    BY <2>1 DEF Try
  <2> QED
    BY <2>1, <2>2 DEF Live, Current, LiveStates
<1>6. OneLive'
  BY <1>1, <1>2, <1>5 DEF IInv, LeaseInv, OneLive
<1>7. LiveIsOpen'
  BY <1>3, <1>4 DEF IInv, LeaseInv, LiveIsOpen, MayWork, Collecting
<1>8. UnissuedIsBlank'
  BY <1>1, <1>2 DEF IInv, LeaseInv, UnissuedIsBlank
<1>9. ASSUME NEW v \in Worker, active'[v] # Idle
      PROVE  \E m \in Lease : /\ active'[v] = <<m, tries'[m]>>
                               /\ Live(m)'
                               /\ Current(m)'.owner = <<v, session'[v]>>
  <2>1. CASE v = w
    BY <1>2, <1>3, <2>1
  <2>2. CASE v # w
    <3>1. PICK m \in Lease : /\ active[v] = <<m, tries[m]>>
                             /\ Live(m)
                             /\ Current(m).owner = <<v, session[v]>>
      BY <1>2, <1>9, <2>2 DEF IInv, LeaseInv, ActiveIsLive
    <3>2. m # n
      BY <3>1
    <3> QED
      BY <1>2, <1>4, <2>2, <3>1, <3>2
  <2> QED
    BY <2>1, <2>2
<1>10. ASSUME NEW m \in Lease, Live(m)'
       PROVE  \E v \in Worker : active'[v] = <<m, tries'[m]>>
  <2>1. CASE m = n
    BY <1>2, <2>1
  <2>2. CASE m # n
    <3>1. PICK v \in Worker : active[v] = <<m, tries[m]>>
      BY <1>4, <1>10, <2>2 DEF IInv, LeaseInv, ActiveIsLive
    <3>2. m # 0 /\ active[w] = Idle
      BY DEF MayWork, Lease
    <3>3. v # w
      BY <3>1, <3>2 DEF Idle
    <3> QED
      BY <1>2, <2>2, <3>1, <3>3
  <2> QED
    BY <2>1, <2>2
<1>11. ActiveIsLive'
  BY <1>9, <1>10 DEF ActiveIsLive
<1> QED
  BY <1>6, <1>7, <1>8, <1>11 DEF LeaseInv

\* The lease of an accepted completion ends, and with it the tail D.
LEMMA FinalizeSafe ==
    ASSUME IInv, NEW r \in reservations, NEW shown, FinalizeCompletion(r, shown)
    PROVE  LeaseInv'
<1> DEFINE n == r.lease
           kept == [attempt EXCEPT ![r.lease][r.try] =
                      [@ EXCEPT !.state = "finished", !.parts = r.decisions]]
<1>1. /\ n \in Lease /\ r.try \in Try /\ r.try = tries[n] /\ Live(n)
      /\ r.decisions \in 0 .. MaxPart
  BY DEF FinalizeCompletion, Names, IInv, TypeInv, TypeOK, Reservation
<1>2. PICK D \in SUBSET Lease :
        /\ D \subseteq Unsettled \ {n}
        /\ attempt' = ClearShards(kept, D)
        /\ discarded' = [m \in Lease |-> discarded[m] \/ m \in D]
        /\ active' = [Release(D) EXCEPT ![Current(n).owner[1]] = Idle]
  <2> DEFINE D == IF /\ ~primaryOnly
                     /\ ~Draining
                     /\ Satisfied(total + r.decisions, FALSE,
                                  Missing([exposes EXCEPT ![n] = shown]))
                  THEN Unsettled \ {n}
                  ELSE IF ReachesHighWater(total + r.decisions + TerminalProvisional
                                             - Current(n).term)
                       THEN Inactive ELSE {}
  <2>1. D \in SUBSET Lease /\ D \subseteq Unsettled \ {n}
    BY <1>1 DEF Inactive, Unsettled, Issued
  <2>2. /\ attempt' = ClearShards(kept, D)
        /\ discarded' = [m \in Lease |-> discarded[m] \/ m \in D]
        /\ active' = [Release(D) EXCEPT ![Current(n).owner[1]] = Idle]
    BY DEF FinalizeCompletion
  <2> QED
    BY <2>1, <2>2
<1>3. /\ kept \in AttemptMap
      /\ kept[n][tries[n]].state = "finished"
      /\ \A k \in Try \ {tries[n]} : kept[n][k] = attempt[n][k]
      /\ \A m \in Lease \ {n} : kept[m] = attempt[m]
  <2>1. attempt \in [Lease -> [Try -> Attempt]] /\ attempt[n][tries[n]] \in Attempt
    BY <1>1 DEF IInv, TypeInv, TypeOK
  <2>2. [attempt[n][tries[n]] EXCEPT !.state = "finished", !.parts = r.decisions] \in Attempt
    BY <1>1, <2>1 DEF Attempt
  <2>3. [attempt[n][tries[n]] EXCEPT !.state = "finished", !.parts = r.decisions].state
          = "finished"
    BY <2>1 DEF Attempt
  <2> QED
    BY <1>1, <2>1, <2>2, <2>3 DEF AttemptMap
<1> HIDE DEF kept
<1>4. UNCHANGED <<tries, session, phase>> /\ accepted' = [accepted EXCEPT ![n] = r.try]
  BY DEF FinalizeCompletion
<1>5. \A m \in Lease, k \in Try : kept[m][k].state \in LiveStates => k = tries[m]
  BY <1>3 DEF IInv, LeaseInv, OneLive, LiveStates
<1>6. /\ OneLive'
      /\ \A m \in D : ~Live(m)'
      /\ \A m \in Lease \ D : attempt'[m] = kept[m]
  BY <1>2, <1>3, <1>4, <1>5, ClearEffect DEF IInv
<1>7. ~Live(n)'
  BY <1>1, <1>2, <1>3, <1>4, <1>6 DEF Live, Current
<1>8. \A m \in Lease \ (D \cup {n}) : (Live(m)' <=> Live(m)) /\ Current(m)' = Current(m)
  BY <1>3, <1>4, <1>6 DEF Live, Current
<1>9. \A m \in Lease : Live(m)' => m \notin D \cup {n} /\ Live(m)
  BY <1>6, <1>7, <1>8
<1>10. PICK w0 \in Worker : /\ active[w0] = <<n, tries[n]>>
                            /\ Current(n).owner = <<w0, session[w0]>>
  <2>1. PICK w0 \in Worker : active[w0] = <<n, tries[n]>>
    BY <1>1 DEF IInv, LeaseInv, ActiveIsLive
  <2>2. active[w0] # Idle
    BY <1>1, <2>1 DEF Idle, Lease
  <2>3. PICK m \in Lease : active[w0] = <<m, tries[m]>> /\ Current(m).owner = <<w0, session[w0]>>
    BY <2>2 DEF IInv, LeaseInv, ActiveIsLive
  <2> QED
    BY <2>1, <2>3
<1>11. /\ active'[w0] = Idle
       /\ \A v \in Worker \ {w0} : active'[v] = IF active[v][1] \in D THEN Idle ELSE active[v]
  BY <1>2, <1>10 DEF Release
<1>12. LiveIsOpen'
  BY <1>2, <1>4, <1>9 DEF IInv, LeaseInv, LiveIsOpen, TypeInv, TypeOK, Collecting
<1>13. UnissuedIsBlank'
  <2>1. \A m \in Lease : tries[m] = 0 => m # n /\ m \notin D
    BY <1>1, <1>2 DEF Live, Unsettled, Issued
  <2> QED
    BY <1>2, <1>4, <2>1 DEF IInv, LeaseInv, UnissuedIsBlank, TypeInv, TypeOK
<1>14. ASSUME NEW v \in Worker, active'[v] # Idle
       PROVE  \E m \in Lease : /\ active'[v] = <<m, tries'[m]>>
                               /\ Live(m)'
                               /\ Current(m)'.owner = <<v, session'[v]>>
  <2>1. v # w0 /\ active'[v] = active[v] /\ active[v][1] \notin D
    BY <1>11, <1>14
  <2>2. PICK m \in Lease : /\ active[v] = <<m, tries[m]>>
                           /\ Live(m)
                           /\ Current(m).owner = <<v, session[v]>>
    BY <1>14, <2>1 DEF IInv, LeaseInv, ActiveIsLive
  <2>3. m \notin D /\ m # n
    BY <1>10, <2>1, <2>2
  <2> QED
    BY <1>4, <1>8, <2>1, <2>2, <2>3
<1>15. ASSUME NEW m \in Lease, Live(m)'
       PROVE  \E v \in Worker : active'[v] = <<m, tries'[m]>>
  <2>1. m \notin D /\ m # n /\ Live(m)
    BY <1>9, <1>15
  <2>2. PICK v \in Worker : active[v] = <<m, tries[m]>>
    BY <2>1 DEF IInv, LeaseInv, ActiveIsLive
  <2>3. v # w0 /\ active[v][1] \notin D
    BY <1>10, <2>1, <2>2
  <2> QED
    BY <1>4, <1>11, <2>2, <2>3
<1>16. ActiveIsLive'
  BY <1>14, <1>15 DEF ActiveIsLive
<1> QED
  BY <1>6, <1>12, <1>13, <1>16 DEF LeaseInv

(***************************************************************************)
(* The inductive invariant                                                 *)
(***************************************************************************)

LEMMA InitIInv == Init => IInv
<1> SUFFICES ASSUME Init PROVE IInv
  OBVIOUS
<1>1. \A n \in Lease : ~Live(n)
  BY DEF Init, Live
<1>2. LeaseInv
  BY <1>1 DEF Init, LeaseInv, OneLive, LiveIsOpen, UnissuedIsBlank, ActiveIsLive, LiveStates,
              Unstarted
<1>3. CommitsWhatItHanded
  BY DEF Init, CommitsWhatItHanded
<1> QED
  BY <1>2, <1>3, InitTypeInv DEF IInv

\* A window begins with nothing running, whatever the one before left.
LEMMA BeginLeases ==
    ASSUME NEW stale, NEW mode, BeginWindow(stale, mode)
    PROVE  LeaseInv'
<1>1. /\ \A n \in Lease, k \in Try : attempt'[n][k].state = "unstarted"
      /\ \A n \in Lease : tries'[n] = 0 /\ accepted'[n] = 0 /\ ~discarded'[n]
      /\ \A v \in Worker : active'[v] = Idle
  BY DEF BeginWindow, Unstarted
<1>2. \A n \in Lease : ~Live(n)'
  BY <1>1 DEF Live
<1>3. OneLive' /\ UnissuedIsBlank'
  BY <1>1 DEF OneLive, UnissuedIsBlank, LiveStates
<1> QED
  BY <1>1, <1>2, <1>3, IdleSafe

LEMMA NextLeaseInv == IInv /\ [Next]_vars => LeaseInv'
<1> SUFFICES ASSUME IInv, [Next]_vars PROVE LeaseInv'
  OBVIOUS
<1> USE DEF windowState, results, registry
<1>0. ~Collecting => /\ \A n \in Lease : ~Live(n)
                     /\ \A w \in Worker : active[w] = Idle
  BY DEF IInv, LeaseInv, LiveIsOpen, ActiveIsLive
<1>1. ASSUME NEW w \in Worker, RegisterWhileCollecting(w) PROVE LeaseInv'
  BY <1>1, FailSafe DEF RegisterWhileCollecting
<1>2. ASSUME NEW w \in Worker, RegisterAtBoundary(w) PROVE LeaseInv'
  <2>1. ~Collecting /\ UNCHANGED <<tries, attempt, accepted, discarded>>
    BY <1>2 DEF RegisterAtBoundary
  <2>2. \A n \in Lease : ~Live(n)'
    BY <1>0, <2>1 DEF Live, Current
  <2>3. \A v \in Worker : active'[v] = Idle
    BY <1>0, <1>2, <2>1 DEF RegisterAtBoundary, IInv, TypeInv, TypeOK
  <2>4. OneLive' /\ UnissuedIsBlank'
    BY <2>1 DEF IInv, LeaseInv, OneLive, UnissuedIsBlank
  <2> QED
    BY <2>2, <2>3, <2>4, IdleSafe
<1>3. ASSUME NEW w \in Worker, MarkReady(w) PROVE LeaseInv'
  BY <1>3, LeaseFrame DEF MarkReady, leaseState, IInv
<1>4. ASSUME NEW L \in SUBSET Lease, NEW W \in SUBSET Worker, ExpireWorkers(L, W)
      PROVE  LeaseInv'
  <2> DEFINE F == L \cup {n \in Lease : /\ Live(n)
                                         /\ Current(n).state # "completing"
                                         /\ \E w \in W : active[w] = <<n, tries[n]>>}
  <2>1. /\ F \in SUBSET Lease /\ \A n \in F : Live(n)
        /\ Fail(F) /\ active' = FreeFailed(F)
        /\ UNCHANGED <<tries, session, phase, accepted>>
    BY <1>4 DEF ExpireWorkers
  <2> HIDE DEF F
  <2> QED
    BY <2>1, FailSafe
<1>5. ASSUME NEW w \in Worker, RetryShard(w) PROVE LeaseInv'
  <2>1. PICK n \in First(Retryable(w)) : StartAttempt(n, w)
    BY <1>5 DEF RetryShard
  <2>2. /\ n \in Lease /\ ~Live(n) /\ tries[n] < MaximumAttempts
        /\ accepted[n] = 0 /\ ~discarded[n]
    BY <2>1 DEF First, Retryable, Inactive, Unsettled, Issued
  <2> QED
    BY <1>5, <2>1, <2>2, StartSafe DEF RetryShard
<1>6. ASSUME NEW w \in Worker, IssueShard(w) PROVE LeaseInv'
  <2>1. PICK n \in First(Fresh) : StartAttempt(n, w)
    BY <1>6 DEF IssueShard
  <2>2. /\ n \in Lease /\ ~Live(n) /\ tries[n] < MaximumAttempts
        /\ accepted[n] = 0 /\ ~discarded[n]
    BY <2>1, BudgetAssumption DEF First, Fresh, Live, IInv, LeaseInv, UnissuedIsBlank
  <2> QED
    BY <1>6, <2>1, <2>2, StartSafe DEF IssueShard
<1>7. ASSUME NEW w \in Worker, AcknowledgeDiscards(w) PROVE LeaseInv'
  BY <1>7, LeaseFrame DEF AcknowledgeDiscards, leaseState, IInv
<1>8. ASSUME NEW n \in Lease, NEW k \in 0 .. MaxPart, AcceptPart(n, k) PROVE LeaseInv'
  <2> DEFINE a == Current(n)
             D == IF ReachesHighWater(total + TerminalProvisional + k)
                  THEN Inactive ELSE {}
             m == [attempt EXCEPT ![n][tries[n]] =
                     [a EXCEPT !.parts = @ + 1, !.term = @ + k]]
  <2>1. tries[n] \in Try /\ a \in Attempt /\ a = attempt[n][tries[n]]
        /\ attempt \in AttemptMap
    BY <1>8, BudgetAssumption DEF AcceptPart, Live, Current, IInv, TypeInv, TypeOK, Try,
                                  AttemptMap
  <2>2. a.parts + 1 \in 0 .. MaxPart /\ a.term + k \in 0 .. MaxPart
    BY <1>8, <2>1, BoundAssumption DEF AcceptPart, Attempt
  <2>3. /\ [a EXCEPT !.parts = @ + 1, !.term = @ + k] \in Attempt
        /\ [a EXCEPT !.parts = @ + 1, !.term = @ + k].state = a.state
        /\ [a EXCEPT !.parts = @ + 1, !.term = @ + k].owner = a.owner
    BY <2>1, <2>2 DEF Attempt
  <2>4. D \in SUBSET Inactive
    OBVIOUS
  <2>5. /\ attempt' = ClearShards(m, D)
        /\ discarded' = [j \in Lease |-> discarded[j] \/ j \in D]
        /\ active' = Release(D)
        /\ UNCHANGED <<tries, session, phase, accepted>>
    BY <1>8 DEF AcceptPart
  <2> HIDE DEF a, D
  <2>6. m \in AttemptMap
    BY <2>1, <2>3 DEF AttemptMap
  <2>7. \A j \in Lease, i \in Try : /\ m[j][i].state = attempt[j][i].state
                                    /\ m[j][i].owner = attempt[j][i].owner
    BY <2>1, <2>3 DEF AttemptMap
  <2> HIDE DEF m
  <2> QED
    BY <2>4, <2>5, <2>6, <2>7, DropInactiveSafe
<1>9. ASSUME NEW n \in Lease, FailAttempt(n) PROVE LeaseInv'
  BY <1>9, FailSafe DEF FailAttempt
<1>10. ASSUME NEW n \in Lease, ReserveCompletion(n) PROVE LeaseInv'
  <2>1. /\ tries[n] \in Try /\ attempt[n][tries[n]].state = "running"
        /\ attempt \in AttemptMap
    BY <1>10, BudgetAssumption
    DEF ReserveCompletion, Projected, Live, Current, IInv, TypeInv, TypeOK, Try, AttemptMap
  <2>2. attempt[n][tries[n]] \in Attempt
    BY <2>1 DEF AttemptMap
  <2>3. attempt' = [attempt EXCEPT ![n][tries[n]].state = "completing"]
    BY <1>10 DEF ReserveCompletion, Projected
  <2>4. \A j \in Lease, i \in Try :
          /\ attempt'[j][i].state \in LiveStates <=> attempt[j][i].state \in LiveStates
          /\ attempt'[j][i].owner = attempt[j][i].owner
    BY <2>1, <2>2, <2>3 DEF AttemptMap, Attempt, LiveStates
  <2> QED
    BY <1>10, <2>4, RelabelSafe DEF ReserveCompletion, Projected
<1>11. ASSUME NEW r \in reservations, NEW shown \in SUBSET Artifact,
              FinalizeCompletion(r, shown)
       PROVE  LeaseInv'
  BY <1>11, FinalizeSafe
<1>12. ASSUME NEW r \in reservations, RejectCompletion(r) PROVE LeaseInv'
  <2> DEFINE F == IF ~Tombstoned(r) /\ Names(r) THEN {r.lease} ELSE {}
  <2>1. /\ F \in SUBSET Lease /\ \A n \in F : Live(n)
        /\ Fail(F) /\ active' = FreeFailed(F)
        /\ UNCHANGED <<tries, session, phase, accepted>>
    BY <1>12 DEF RejectCompletion, Names, IInv, TypeInv, TypeOK, Reservation
  <2> HIDE DEF F
  <2> QED
    BY <2>1, FailSafe
<1>13. ASSUME NEW stale, NEW mode, BeginWindow(stale, mode) PROVE LeaseInv'
  BY <1>13, BeginLeases
<1>14. ASSUME NEW stale, RefuseWindow(stale) PROVE LeaseInv'
  <2>1. ~Collecting /\ UNCHANGED <<tries, attempt, accepted, discarded>>
    BY <1>14 DEF RefuseWindow
  <2>2. \A n \in Lease : ~Live(n)'
    BY <1>0, <2>1 DEF Live, Current
  <2>3. \A v \in Worker : active'[v] = Idle
    BY <1>0, <1>14, <2>1 DEF RefuseWindow
  <2>4. OneLive' /\ UnissuedIsBlank'
    BY <2>1 DEF IInv, LeaseInv, OneLive, UnissuedIsBlank
  <2> QED
    BY <2>2, <2>3, <2>4, IdleSafe
<1>15. CASE RequestLearnerReadyDrain
  <2>1. attempt \in AttemptMap
    BY DEF IInv, TypeInv, TypeOK, AttemptMap
  <2> QED
    BY <1>15, <2>1, DropInactiveSafe DEF RequestLearnerReadyDrain
<1>16. CASE StartCommit
  BY <1>16, LeaseFrame DEF StartCommit, leaseState, IInv
<1>17. CASE FinishCommit
  <2>1. /\ \A n \in Lease : ~Live(n)
        /\ \A w \in Worker : active[w] = Idle
    BY <1>17, ReadyIsIdle DEF FinishCommit, IInv, CommitsWhatItHanded
  <2>2. UNCHANGED <<tries, attempt, accepted, discarded, active>>
    BY <1>17 DEF FinishCommit
  <2>3. \A n \in Lease : ~Live(n)'
    BY <2>1, <2>2 DEF Live, Current
  <2>4. OneLive' /\ UnissuedIsBlank'
    BY <2>2 DEF IInv, LeaseInv, OneLive, UnissuedIsBlank
  <2> QED
    BY <2>1, <2>2, <2>3, <2>4, IdleSafe
<1>18. CASE FailCommit
  BY <1>18, LeaseFrame DEF FailCommit, leaseState, IInv
<1>19. CASE AbortWindow
  <2>1. attempt \in AttemptMap /\ Lease \in SUBSET Lease
    BY DEF IInv, TypeInv, TypeOK, AttemptMap
  <2>2. /\ attempt' = ClearShards(attempt, Lease) /\ tries' = tries
        /\ UNCHANGED <<accepted, discarded>>
        /\ \A v \in Worker : active'[v] = Idle
    BY <1>19 DEF AbortWindow
  <2>3. \A n \in Lease, k \in Try : attempt[n][k].state \in LiveStates => k = tries[n]
    BY DEF IInv, LeaseInv, OneLive
  <2>4. OneLive' /\ \A n \in Lease : ~Live(n)'
    BY <2>1, <2>2, <2>3, ClearEffect DEF IInv
  <2>5. UnissuedIsBlank'
    BY <2>2 DEF IInv, LeaseInv, UnissuedIsBlank
  <2> QED
    BY <2>2, <2>4, <2>5, IdleSafe
<1>20. CASE ReleaseParts
  <2>1. \A n \in Lease, k \in Try :
          /\ attempt'[n][k] = [attempt[n][k] EXCEPT !.parts = 0, !.term = 0]
          /\ attempt[n][k] \in Attempt
    BY <1>20 DEF ReleaseParts, IInv, TypeInv, TypeOK
  <2>2. \A n \in Lease, k \in Try :
          /\ attempt'[n][k].state = attempt[n][k].state
          /\ attempt'[n][k].owner = attempt[n][k].owner
    <3>1. \A a \in Attempt : /\ [a EXCEPT !.parts = 0, !.term = 0].state = a.state
                             /\ [a EXCEPT !.parts = 0, !.term = 0].owner = a.owner
      BY DEF Attempt
    <3> QED
      BY <2>1, <3>1
  <2> QED
    BY <1>20, <2>2, RelabelSafe DEF ReleaseParts
<1>21. CASE UNCHANGED vars
  BY <1>21, LeaseFrame DEF vars, leaseState, IInv
<1> QED
  BY <1>1, <1>2, <1>3, <1>4, <1>5, <1>6, <1>7, <1>8, <1>9, <1>10, <1>11, <1>12, <1>13,
     <1>14, <1>15, <1>16, <1>17, <1>18, <1>19, <1>20, <1>21
  DEF Next, WorkerStep, AttemptStep, CompletionStep, SweepStep, BoundaryStep, LearnerStep

\* What moves the learner's variables, the phase and the results.
LEMMA WindowFrame ==
    [Next]_vars =>
        \/ StartCommit
        \/ FinishCommit
        \/ FailCommit
        \/ /\ UNCHANGED <<callback, snapshot>>
           /\ \/ phase' = phase
              \/ ~Collecting /\ phase' = "collecting"
              \/ ~callback /\ phase' = "aborted"
           /\ Collecting \/ phase' = "collecting" \/ UNCHANGED <<accepted, decided>>
<1> SUFFICES ASSUME [Next]_vars
             PROVE  \/ StartCommit \/ FinishCommit \/ FailCommit
                    \/ /\ UNCHANGED <<callback, snapshot>>
                       /\ \/ phase' = phase
                          \/ ~Collecting /\ phase' = "collecting"
                          \/ ~callback /\ phase' = "aborted"
                       /\ Collecting \/ phase' = "collecting"
                          \/ UNCHANGED <<accepted, decided>>
  OBVIOUS
<1> USE DEF windowState, results, registry, learner
<1>1. CASE WorkerStep
  <2>1. PICK w \in Worker : \/ RegisterWhileCollecting(w) \/ RegisterAtBoundary(w)
                            \/ MarkReady(w) \/ RetryShard(w) \/ IssueShard(w)
                            \/ AcknowledgeDiscards(w)
    BY <1>1 DEF WorkerStep
  <2>2. UNCHANGED <<callback, snapshot, phase, accepted, decided>>
    BY <2>1 DEF RegisterWhileCollecting, RegisterAtBoundary, MarkReady, RetryShard,
                IssueShard, AcknowledgeDiscards
  <2> QED
    BY <2>2
<1>2. CASE AttemptStep
  BY <1>2 DEF AttemptStep, AcceptPart, FailAttempt, ReserveCompletion
<1>3. CASE CompletionStep
  <2>1. ASSUME NEW r \in reservations, NEW shown, FinalizeCompletion(r, shown)
        PROVE  Collecting /\ UNCHANGED <<callback, snapshot, phase>>
    BY <2>1 DEF FinalizeCompletion
  <2>2. ASSUME NEW r \in reservations, RejectCompletion(r)
        PROVE  UNCHANGED <<callback, snapshot, phase, accepted, decided>>
    BY <2>2 DEF RejectCompletion
  <2> QED
    BY <1>3, <2>1, <2>2 DEF CompletionStep
<1>4. CASE SweepStep
  BY <1>4 DEF SweepStep, ExpireWorkers
<1>5. CASE BoundaryStep
  <2>1. ASSUME NEW stale, NEW mode, BeginWindow(stale, mode)
        PROVE  ~Collecting /\ phase' = "collecting" /\ UNCHANGED <<callback, snapshot>>
    BY <2>1 DEF BeginWindow
  <2>2. ASSUME NEW stale, RefuseWindow(stale)
        PROVE  UNCHANGED <<callback, snapshot, phase, accepted, decided>>
    BY <2>2 DEF RefuseWindow
  <2> QED
    BY <1>5, <2>1, <2>2 DEF BoundaryStep
<1>6. CASE LearnerStep
  BY <1>6 DEF LearnerStep, RequestLearnerReadyDrain, AbortWindow, ReleaseParts
<1>7. CASE UNCHANGED vars
  BY <1>7 DEF vars
<1> QED
  BY <1>1, <1>2, <1>3, <1>4, <1>5, <1>6, <1>7 DEF Next

\* From the moment a window is ready to commit, no step but its settlement
\* changes what commit would hand out.
LEMMA ReadyStays ==
    ASSUME IInv, [Next]_vars, ReadyToCommit, phase' = "collecting"
    PROVE  ReadyToCommit' /\ Outcomes' = Outcomes /\ total' = total
<1> DEFINE Kept == ReadyToCommit' /\ Outcomes' = Outcomes /\ total' = total
<1>0. /\ Collecting
      /\ Inactive = {}
      /\ \A n \in Lease : ~Live(n)
      /\ \A w \in Worker : active[w] = Idle
      /\ TypeInv
  BY ReadyIsIdle DEF IInv
<1>1. ASSUME NEW F, Fail(F), \A n \in F : Live(n), F \subseteq Lease,
             UNCHANGED <<windowState, tries, results>>
      PROVE  Kept
  <2>1. F = {}
    BY <1>0, <1>1
  <2>2. discarded' = discarded
    BY <1>0, <1>1, <2>1, FailNone
  <2> QED
    BY <1>1, <2>2, ReadyDepends
<1>2. ASSUME NEW w \in Worker, RegisterWhileCollecting(w) PROVE Kept
  BY <1>1, <1>2 DEF RegisterWhileCollecting
<1>3. ASSUME NEW w \in Worker, MarkReady(w) PROVE Kept
  BY <1>3, ReadyDepends DEF MarkReady
<1>4. ASSUME NEW L \in SUBSET Lease, NEW W \in SUBSET Worker, ExpireWorkers(L, W)
      PROVE  Kept
  <2> DEFINE F == L \cup {n \in Lease : /\ Live(n)
                                         /\ Current(n).state # "completing"
                                         /\ \E w \in W : active[w] = <<n, tries[n]>>}
  <2>1. /\ F \subseteq Lease /\ (\A n \in F : Live(n)) /\ Fail(F)
        /\ UNCHANGED <<windowState, tries, results>>
    BY <1>4 DEF ExpireWorkers
  <2> HIDE DEF F
  <2> QED
    BY <1>1, <2>1
<1>5. ASSUME NEW w \in Worker, RetryShard(w) PROVE FALSE
  BY <1>0, <1>5 DEF RetryShard, First, Retryable
<1>6. ASSUME NEW w \in Worker, IssueShard(w) PROVE FALSE
  BY <1>6, ReadyIssuesNothing DEF IssueShard
<1>7. ASSUME NEW w \in Worker, AcknowledgeDiscards(w) PROVE Kept
  BY <1>7, ReadyDepends DEF AcknowledgeDiscards
<1>8. ASSUME NEW n \in Lease PROVE ~FailAttempt(n) /\ ~ReserveCompletion(n)
  BY <1>0 DEF FailAttempt, ReserveCompletion
<1>9. ASSUME NEW n \in Lease, NEW k \in 0 .. MaxPart PROVE ~AcceptPart(n, k)
  BY <1>0 DEF AcceptPart
<1>10. ASSUME NEW r \in reservations PROVE r.lease \in Lease /\ ~Names(r)
  BY <1>0 DEF Names, TypeInv, TypeOK, Reservation
<1>11. ASSUME NEW r \in reservations, NEW shown PROVE ~FinalizeCompletion(r, shown)
  BY <1>10 DEF FinalizeCompletion
<1>12. ASSUME NEW r \in reservations, RejectCompletion(r) PROVE Kept
  <2>1. Fail({}) /\ UNCHANGED <<windowState, tries, results>>
    BY <1>10, <1>12 DEF RejectCompletion
  <2> QED
    BY <1>1, <2>1
<1>13. CASE RequestLearnerReadyDrain
  <2>1. ~Draining /\ (primaryOnly \/ total < Target)
    BY <1>13 DEF RequestLearnerReadyDrain
  <2>2. ~primaryOnly /\ total >= Target
    BY <2>1 DEF ReadyToCommit, Satisfied
  <2>3. total \in Nat /\ Target \in Nat
    BY <1>0, BudgetAssumption DEF TypeInv, TypeOK
  <2> QED
    BY <2>1, <2>2, <2>3
<1>14. CASE StartCommit
  BY <1>14, ReadyDepends DEF StartCommit
<1>15. CASE FailCommit
  BY <1>15, ReadyDepends DEF FailCommit
<1>16. CASE FinishCommit \/ AbortWindow
  BY <1>16 DEF FinishCommit, AbortWindow
<1>17. CASE UNCHANGED vars
  BY <1>17, ReadyDepends DEF vars
<1>18. CASE WorkerStep
  BY <1>0, <1>2, <1>3, <1>5, <1>6, <1>7, <1>18 DEF WorkerStep, RegisterAtBoundary
<1>19. CASE CompletionStep
  BY <1>11, <1>12, <1>19 DEF CompletionStep
<1>20. CASE BoundaryStep
  BY <1>0, <1>20 DEF BoundaryStep, BeginWindow, RefuseWindow
<1>21. CASE LearnerStep
  BY <1>0, <1>13, <1>14, <1>15, <1>16, <1>21
  DEF LearnerStep, ReleaseParts, Settled, Collecting
<1>22. CASE SweepStep
  BY <1>4, <1>22 DEF SweepStep
<1>23. CASE AttemptStep
  BY <1>8, <1>9, <1>23 DEF AttemptStep
<1> QED
  BY <1>17, <1>18, <1>19, <1>20, <1>21, <1>22, <1>23 DEF Next

LEMMA NextCommits == IInv /\ [Next]_vars => CommitsWhatItHanded'
<1> SUFFICES ASSUME IInv, [Next]_vars PROVE CommitsWhatItHanded'
  OBVIOUS
<1>0. CommitsWhatItHanded
  BY DEF IInv
<1>1. CASE StartCommit
  <2>1. ReadyToCommit' /\ Outcomes' = Outcomes
    BY <1>1, ReadyDepends DEF StartCommit
  <2> QED
    BY <1>1, <2>1 DEF StartCommit, CommitsWhatItHanded
<1>2. CASE FinishCommit
  <2>1. snapshot = Outcomes /\ Outcomes' = Outcomes
    BY <1>0, <1>2 DEF FinishCommit, CommitsWhatItHanded, Outcomes, results
  <2> QED
    BY <1>2, <2>1 DEF FinishCommit, CommitsWhatItHanded
<1>3. CASE FailCommit
  <2>1. ReadyToCommit
    BY <1>0, <1>3 DEF FailCommit, CommitsWhatItHanded
  <2>2. phase' = "collecting"
    BY <1>3, <2>1 DEF FailCommit, windowState, ReadyToCommit, Collecting
  <2> QED
    BY <1>3, <2>2 DEF FailCommit, CommitsWhatItHanded
<1>4. ASSUME UNCHANGED <<callback, snapshot>>,
             \/ phase' = phase
             \/ ~Collecting /\ phase' = "collecting"
             \/ ~callback /\ phase' = "aborted",
             Collecting \/ phase' = "collecting" \/ UNCHANGED <<accepted, decided>>
      PROVE  CommitsWhatItHanded'
  <2>1. CASE callback
    <3>1. ReadyToCommit /\ snapshot = Outcomes
      BY <1>0, <2>1 DEF CommitsWhatItHanded
    <3>2. phase' = "collecting"
      BY <1>4, <2>1, <3>1 DEF ReadyToCommit, Collecting
    <3>3. ReadyToCommit' /\ Outcomes' = Outcomes
      BY <3>1, <3>2, ReadyStays
    <3> QED
      BY <1>4, <2>1, <3>1, <3>3 DEF CommitsWhatItHanded
  <2>2. CASE ~callback /\ phase' = "committed"
    <3>1. phase = "committed"
      BY <1>4, <2>2
    <3>2. snapshot = Outcomes
      BY <1>0, <3>1 DEF CommitsWhatItHanded
    <3>3. UNCHANGED <<accepted, decided>>
      BY <1>4, <2>2, <3>1 DEF Collecting
    <3>4. Outcomes' = Outcomes
      BY <3>3 DEF Outcomes
    <3> QED
      BY <1>4, <2>2, <3>2, <3>4 DEF CommitsWhatItHanded
  <2>3. CASE ~callback /\ phase' # "committed"
    BY <1>4, <2>3 DEF CommitsWhatItHanded
  <2> QED
    BY <2>1, <2>2, <2>3
<1> QED
  BY <1>1, <1>2, <1>3, <1>4, WindowFrame

LEMMA SpecIInv == Spec => []IInv
<1>1. IInv /\ [Next]_vars => IInv'
  BY NextTypeInv, NextLeaseInv, NextCommits DEF IInv
<1> QED
  BY InitIInv, <1>1, PTL DEF Spec

(***************************************************************************)
(* Theorems                                                                *)
(***************************************************************************)

\* Every worker's active attempt is a live attempt of its session and every
\* live attempt has its worker: a sweep or a replacement never fails an
\* attempt that is not live.
THEOREM ActiveAttemptsAreLive == Spec => []ActiveIsLive
<1>1. IInv => ActiveIsLive
  BY DEF IInv, LeaseInv
<1> QED
  BY <1>1, SpecIInv, PTL

\* No attempt runs when no window is open.
THEOREM BoundaryIsQuiet == Spec => []NothingRunsAtBoundary
<1>1. IInv => NothingRunsAtBoundary
  BY DEF IInv, LeaseInv, LiveIsOpen, NothingRunsAtBoundary
<1> QED
  BY <1>1, SpecIInv, PTL

\* The learner commits exactly what its callback was handed.
THEOREM CommitIsExact == Spec => []CommitsWhatItHanded
<1>1. IInv => CommitsWhatItHanded
  BY DEF IInv
<1> QED
  BY <1>1, SpecIInv, PTL

\* A complete window is immutable until it settles, though the callback that
\* applies it runs without the coordinator's lock.
THEOREM CompleteWindowStays == Spec => CompleteWindowIsImmutable
<1> DEFINE Step == ReadyToCommit /\ phase' = "collecting" =>
                     ReadyToCommit' /\ Outcomes' = Outcomes /\ total' = total
<1>1. IInv /\ [Next]_vars => [Step]_vars
  BY ReadyStays
<1>2. Spec => [][Step]_vars
  BY <1>1, SpecIInv, PTL DEF Spec
<1> QED
  BY <1>2 DEF CompleteWindowIsImmutable

(***************************************************************************)
(* Results: every lease counts once                                        *)
(***************************************************************************)

\* only the last attempt of a lease holds rows, and only to run or as its result
RowsAreHeld ==
    \A n \in Lease, k \in Try : attempt[n][k].parts > 0 =>
        k = tries[n] /\ (Live(n) \/ accepted[n] = k)

\* a result is the last attempt's, of a lease that is not discarded
AcceptedIsLast ==
    \A n \in Lease : accepted[n] # 0 => accepted[n] = tries[n] /\ ~discarded[n]

OnlyResultsCount == \A n \in Lease : accepted[n] = 0 => decided[n] = 0

ResultsKeepRows ==
    Collecting => \A n \in Lease : accepted[n] # 0 =>
                    attempt[n][accepted[n]].parts = decided[n]

RowInv == RowsAreHeld /\ AcceptedIsLast /\ OnlyResultsCount /\ ResultsKeepRows

\* the sum is written over a function so that lemmas can speak of it
TotalIsSum == total = SumOver(decided, Lease)

ResultInv == RowInv /\ TotalIsSum

\* A lease's results and rows decide RowInv.
rowState == <<tries, attempt, accepted, decided, discarded, phase>>

LEMMA RowFrame == RowInv /\ UNCHANGED rowState => RowInv'
BY DEF RowInv, rowState, RowsAreHeld, AcceptedIsLast, OnlyResultsCount, ResultsKeepRows,
       Live, Current, Collecting

\* Failing live attempts drops their rows and no result.
LEMMA FailKeepsRows ==
    ASSUME IInv, RowInv, NEW F \in SUBSET Lease, \A n \in F : Live(n), Fail(F),
           UNCHANGED <<tries, accepted, decided, phase>>
    PROVE  RowInv'
<1>1. /\ \A n \in Lease : Live(n)' <=> Live(n) /\ n \notin F
      /\ attempt \in AttemptMap
  BY FailEffect DEF IInv, LeaseInv, TypeInv, TypeOK, AttemptMap
<1>2. \A n \in Lease \ F : attempt'[n] = attempt[n] /\ discarded'[n] = discarded[n]
  BY DEF Fail, IInv, TypeInv, TypeOK
<1>3. \A n \in F : accepted[n] = 0
  BY DEF IInv, LeaseInv, LiveIsOpen
<1>4. ASSUME NEW n \in F, NEW k \in Try PROVE ~(attempt'[n][k].parts > 0)
  <2>1. n \in Lease /\ Live(n) /\ tries[n] \in Try
    BY <1>4, BudgetAssumption DEF Live, Try, IInv, TypeInv, TypeOK
  <2>2. attempt'[n] = [attempt[n] EXCEPT ![tries[n]] = Cleared(@)]
    BY <1>4, <2>1 DEF Fail
  <2>3. attempt[n] \in [Try -> Attempt] /\ attempt[n][tries[n]] \in Attempt
    BY <1>1, <2>1 DEF AttemptMap
  <2>4. Cleared(attempt[n][tries[n]]).parts = 0
    BY <2>1, <2>3 DEF Live, Current, Cleared, Attempt
  <2>5. k # tries[n] => attempt'[n][k] = attempt[n][k] /\ ~(attempt[n][k].parts > 0)
    BY <2>1, <2>2, <2>3 DEF RowInv, RowsAreHeld
  <2> QED
    BY <2>1, <2>2, <2>3, <2>4, <2>5
<1>5. RowsAreHeld'
  BY <1>1, <1>2, <1>4 DEF RowInv, RowsAreHeld
<1>6. AcceptedIsLast' /\ OnlyResultsCount'
  BY <1>2, <1>3 DEF RowInv, AcceptedIsLast, OnlyResultsCount
<1>7. ResultsKeepRows'
  BY <1>2, <1>3 DEF RowInv, ResultsKeepRows, Collecting
<1> QED
  BY <1>5, <1>6, <1>7 DEF RowInv

\* Dropping leases without a result drops their rows and no result; the
\* attempt of a live lease may gain rows on the way.
LEMMA DropKeepsRows ==
    ASSUME IInv, RowInv, NEW m \in AttemptMap, NEW D \in SUBSET Inactive,
           attempt' = ClearShards(m, D),
           discarded' = [n \in Lease |-> discarded[n] \/ n \in D],
           \A n \in Lease, k \in Try :
               /\ m[n][k].state = attempt[n][k].state
               /\ m[n][k] = attempt[n][k] \/ (Live(n) /\ k = tries[n]),
           UNCHANGED <<tries, accepted, decided, phase>>
    PROVE  RowInv'
<1>1. D \subseteq Lease /\ \A n \in D : ~Live(n) /\ accepted[n] = 0
  BY DEF Inactive, Unsettled, Issued
<1>2. \A n \in Lease \ D : attempt'[n] = m[n] /\ discarded'[n] = discarded[n]
  BY DEF ClearShards, IInv, TypeInv, TypeOK
<1>3. \A n \in Lease : tries[n] > 0 => tries[n] \in Try
  BY BudgetAssumption DEF IInv, TypeInv, TypeOK, Try
<1>4. ASSUME NEW n \in D, NEW k \in Try PROVE ~(attempt'[n][k].parts > 0)
  <2>1. attempt'[n][k] = Cleared(m[n][k])
    BY <1>1, <1>4 DEF ClearShards
  <2>2. m[n][k] = attempt[n][k] /\ m[n][k] \in Attempt
    BY <1>1, <1>4 DEF AttemptMap
  <2>3. ~(attempt[n][k].parts > 0)
    BY <1>1, <1>4 DEF RowInv, RowsAreHeld, Try
  <2>4. Cleared(m[n][k]).parts \in {0, m[n][k].parts}
    BY <2>2 DEF Cleared, Attempt
  <2> QED
    BY <2>1, <2>2, <2>3, <2>4
<1>5. \A n \in Lease \ D : Live(n)' <=> Live(n)
  BY <1>2, <1>3 DEF Live, Current
<1>6. RowsAreHeld'
  BY <1>2, <1>4, <1>5 DEF RowInv, RowsAreHeld
<1>7. AcceptedIsLast' /\ OnlyResultsCount'
  BY <1>1, <1>2 DEF RowInv, AcceptedIsLast, OnlyResultsCount
<1>8. ASSUME NEW n \in Lease, accepted[n] # 0 PROVE attempt'[n] = attempt[n]
  <2>1. n \notin D /\ ~Live(n)
    BY <1>1, <1>8 DEF IInv, LeaseInv, LiveIsOpen
  <2>2. attempt[n] \in [Try -> Attempt] /\ m[n] \in [Try -> Attempt]
    BY DEF IInv, TypeInv, TypeOK, AttemptMap
  <2> QED
    BY <1>2, <2>1, <2>2
<1>9. ResultsKeepRows'
  BY <1>8 DEF RowInv, ResultsKeepRows, Collecting
<1> QED
  BY <1>6, <1>7, <1>9 DEF RowInv

\* A new attempt starts empty, after attempts that hold nothing.
LEMMA StartKeepsRows ==
    ASSUME IInv, RowInv, NEW w \in Worker, NEW n \in Lease, ~Live(n),
           tries[n] < MaximumAttempts, accepted[n] = 0,
           StartAttempt(n, w), UNCHANGED <<accepted, decided, discarded, phase>>
    PROVE  RowInv'
<1> DEFINE new == [owner |-> <<w, session[w]>>, state |-> "running", parts |-> 0,
                   term |-> 0]
<1>1. tries[n] + 1 \in Try /\ \A m \in Lease : tries[m] \in 0 .. MaximumAttempts
  BY BudgetAssumption DEF IInv, TypeInv, TypeOK, Try
<1>2. /\ \A m \in Lease \ {n} : tries'[m] = tries[m] /\ attempt'[m] = attempt[m]
      /\ attempt'[n][tries[n] + 1] = new
      /\ \A k \in Try \ {tries[n] + 1} : attempt'[n][k] = attempt[n][k]
  BY <1>1 DEF StartAttempt, IInv, TypeInv, TypeOK
<1>3. \A m \in Lease \ {n} : Live(m)' <=> Live(m)
  BY <1>2 DEF Live, Current
<1>4. \A k \in Try : ~(attempt'[n][k].parts > 0)
  BY <1>2 DEF RowInv, RowsAreHeld, Try
<1>5. RowsAreHeld'
  BY <1>2, <1>3, <1>4 DEF RowInv, RowsAreHeld
<1>6. AcceptedIsLast' /\ OnlyResultsCount' /\ ResultsKeepRows'
  BY <1>2 DEF RowInv, AcceptedIsLast, OnlyResultsCount, ResultsKeepRows, Collecting
<1> QED
  BY <1>5, <1>6 DEF RowInv

\* An accepted completion gives its lease a first result, whose rows stay,
\* and adds its decisions to the total.
LEMMA FinalizeKeepsResults ==
    ASSUME IInv, ResultInv, NEW r \in reservations, NEW shown,
           FinalizeCompletion(r, shown)
    PROVE  ResultInv'
<1> DEFINE n == r.lease
           kept == [attempt EXCEPT ![r.lease][r.try] =
                      [@ EXCEPT !.state = "finished", !.parts = r.decisions]]
<1>1. /\ n \in Lease /\ r.try \in Try /\ r.try = tries[n] /\ Live(n)
      /\ r.decisions \in 0 .. MaxPart /\ r.try # 0
      /\ accepted[n] = 0 /\ ~discarded[n] /\ Collecting
  BY DEF FinalizeCompletion, Names, IInv, TypeInv, TypeOK, Reservation, LeaseInv,
         LiveIsOpen, Try
<1>2. PICK D \in SUBSET Lease :
        /\ D \subseteq Unsettled \ {n}
        /\ attempt' = ClearShards(kept, D)
        /\ discarded' = [m \in Lease |-> discarded[m] \/ m \in D]
  <2> DEFINE D == IF /\ ~primaryOnly
                     /\ ~Draining
                     /\ Satisfied(total + r.decisions, FALSE,
                                  Missing([exposes EXCEPT ![n] = shown]))
                  THEN Unsettled \ {n}
                  ELSE IF ReachesHighWater(total + r.decisions + TerminalProvisional
                                             - Current(n).term)
                       THEN Inactive ELSE {}
  <2>1. D \in SUBSET Lease /\ D \subseteq Unsettled \ {n}
    BY <1>1 DEF Inactive, Unsettled, Issued
  <2>2. /\ attempt' = ClearShards(kept, D)
        /\ discarded' = [m \in Lease |-> discarded[m] \/ m \in D]
    BY DEF FinalizeCompletion
  <2> QED
    BY <2>1, <2>2
<1>3. UNCHANGED <<tries, phase>> /\ accepted' = [accepted EXCEPT ![n] = r.try]
      /\ decided' = [decided EXCEPT ![n] = r.decisions] /\ total' = total + r.decisions
  BY DEF FinalizeCompletion
<1>4. /\ kept \in AttemptMap
      /\ kept[n][tries[n]].parts = r.decisions
      /\ \A k \in Try \ {tries[n]} : kept[n][k] = attempt[n][k]
      /\ \A m \in Lease \ {n} : kept[m] = attempt[m]
  <2>1. attempt \in [Lease -> [Try -> Attempt]] /\ attempt[n][tries[n]] \in Attempt
    BY <1>1 DEF IInv, TypeInv, TypeOK
  <2>2. /\ [attempt[n][tries[n]] EXCEPT !.state = "finished", !.parts = r.decisions] \in Attempt
        /\ [attempt[n][tries[n]] EXCEPT !.state = "finished", !.parts = r.decisions].parts
             = r.decisions
    BY <1>1, <2>1 DEF Attempt
  <2> QED
    BY <1>1, <2>1, <2>2 DEF AttemptMap
<1> HIDE DEF kept
<1>5. \A m \in D : m # n /\ accepted[m] = 0
  BY <1>2 DEF Unsettled
<1>6. \A m \in Lease \ D : attempt'[m] = kept[m] /\ discarded'[m] = discarded[m]
  BY <1>2 DEF ClearShards, IInv, TypeInv, TypeOK
<1>7. ASSUME NEW m \in D, NEW k \in Try PROVE ~(attempt'[m][k].parts > 0)
  <2>1. attempt'[m][k] = Cleared(kept[m][k])
    BY <1>2, <1>7 DEF ClearShards
  <2>2. kept[m][k] = attempt[m][k] /\ kept[m][k] \in Attempt
    BY <1>4, <1>5, <1>7 DEF AttemptMap
  <2>3. attempt[m][k].parts > 0 => attempt[m][k].state # "unstarted"
    BY <1>5, <1>7 DEF RowInv, ResultInv, RowsAreHeld, Live, Current, Try
  <2>4. attempt[m][k].parts \in 0 .. MaxPart
    BY <2>2 DEF Attempt
  <2> QED
    BY <2>1, <2>2, <2>3, <2>4, BoundAssumption DEF Cleared, Attempt
<1>8. \A m \in Lease \ (D \cup {n}) : Live(m)' <=> Live(m)
  BY <1>3, <1>4, <1>6 DEF Live, Current
<1>9. accepted'[n] = r.try /\ \A m \in Lease \ {n} : accepted'[m] = accepted[m]
  BY <1>1, <1>3 DEF IInv, TypeInv, TypeOK
<1>10. decided'[n] = r.decisions /\ \A m \in Lease \ {n} : decided'[m] = decided[m]
  BY <1>1, <1>3 DEF IInv, TypeInv, TypeOK
<1>11. RowsAreHeld'
  <2> SUFFICES ASSUME NEW m \in Lease, NEW k \in Try, attempt'[m][k].parts > 0
               PROVE  k = tries'[m] /\ (Live(m)' \/ accepted'[m] = k)
    BY DEF RowsAreHeld
  <2>1. m \notin D
    BY <1>7
  <2>2. CASE m = n
    BY <1>1, <1>3, <1>4, <1>6, <1>9, <2>1, <2>2 DEF ResultInv, RowInv, RowsAreHeld
  <2>3. CASE m # n
    BY <1>3, <1>4, <1>6, <1>8, <1>9, <2>1, <2>3 DEF ResultInv, RowInv, RowsAreHeld
  <2> QED
    BY <2>2, <2>3
<1>12. AcceptedIsLast' /\ OnlyResultsCount'
  BY <1>1, <1>3, <1>5, <1>6, <1>9, <1>10
  DEF ResultInv, RowInv, AcceptedIsLast, OnlyResultsCount
<1>13. ResultsKeepRows'
  BY <1>1, <1>3, <1>4, <1>5, <1>6, <1>9, <1>10
  DEF ResultInv, RowInv, ResultsKeepRows, Collecting
<1>14. TotalIsSum'
  <2>1. IsFiniteSet(Lease)
    BY FS_Interval, BoundAssumption DEF Lease
  <2>2. decided \in [Lease -> Nat] /\ decided[n] = 0 /\ r.decisions \in Nat
    BY <1>1, BoundAssumption DEF IInv, TypeInv, TypeOK, ResultInv, RowInv, OnlyResultsCount
  <2>3. SumOver(decided', Lease) = SumOver(decided, Lease) + r.decisions
    BY <1>1, <1>3, <2>1, <2>2, SumGains
  <2> QED
    BY <1>3, <2>3 DEF ResultInv, TotalIsSum
<1> QED
  BY <1>11, <1>12, <1>13, <1>14 DEF ResultInv, RowInv

LEMMA InitResultInv == Init => ResultInv
<1> SUFFICES ASSUME Init PROVE ResultInv
  OBVIOUS
<1>1. RowInv
  BY DEF Init, RowInv, RowsAreHeld, AcceptedIsLast, OnlyResultsCount, ResultsKeepRows,
         Unstarted, Collecting
<1>2. IsFiniteSet(Lease)
  BY FS_Interval, BoundAssumption DEF Lease
<1>3. TotalIsSum
  BY <1>2, SumOfZeros DEF Init, TotalIsSum
<1> QED
  BY <1>1, <1>3 DEF ResultInv

\* It begins without results.
LEMMA BeginResults ==
    ASSUME NEW stale, NEW mode, BeginWindow(stale, mode)
    PROVE  ResultInv'
<1>1. /\ attempt' = [n \in Lease |-> [k \in Try |-> Unstarted]]
      /\ accepted' = [n \in Lease |-> 0] /\ decided' = [n \in Lease |-> 0]
      /\ total' = 0
  BY DEF BeginWindow
<1>2. RowInv'
  BY <1>1 DEF RowInv, RowsAreHeld, AcceptedIsLast, OnlyResultsCount, ResultsKeepRows,
              Unstarted
<1>3. IsFiniteSet(Lease)
  BY FS_Interval, BoundAssumption DEF Lease
<1>4. TotalIsSum'
  BY <1>1, <1>3, SumOfZeros DEF TotalIsSum
<1> QED
  BY <1>2, <1>4 DEF ResultInv

LEMMA NextResultInv == IInv /\ ResultInv /\ [Next]_vars => ResultInv'
<1> SUFFICES ASSUME IInv, ResultInv, [Next]_vars PROVE ResultInv'
  OBVIOUS
<1> USE DEF windowState, results, registry
<1>0. RowInv /\ TotalIsSum /\ attempt \in AttemptMap
  BY DEF ResultInv, IInv, TypeInv, TypeOK, AttemptMap
<1>1. ASSUME RowInv', UNCHANGED <<total, decided>> PROVE ResultInv'
  BY <1>0, <1>1 DEF ResultInv, TotalIsSum
<1>2. ASSUME UNCHANGED rowState, UNCHANGED total PROVE ResultInv'
  BY <1>0, <1>1, <1>2, RowFrame DEF rowState
<1>3. ASSUME NEW F \in SUBSET Lease, \A n \in F : Live(n), Fail(F),
             UNCHANGED <<tries, accepted, decided, phase, total>>
      PROVE  ResultInv'
  BY <1>0, <1>1, <1>3, FailKeepsRows
<1>4. ASSUME NEW w \in Worker, RegisterWhileCollecting(w) PROVE ResultInv'
  <2> DEFINE F == {n \in Lease : active[w] = <<n, tries[n]>> /\ Live(n)}
  <2>1. /\ F \in SUBSET Lease /\ (\A n \in F : Live(n)) /\ Fail(F)
        /\ UNCHANGED <<tries, accepted, decided, phase, total>>
    BY <1>4 DEF RegisterWhileCollecting
  <2> HIDE DEF F
  <2> QED
    BY <1>3, <2>1
<1>5. ASSUME NEW w \in Worker,
             RegisterAtBoundary(w) \/ MarkReady(w) \/ AcknowledgeDiscards(w)
      PROVE  ResultInv'
  BY <1>2, <1>5 DEF RegisterAtBoundary, MarkReady, AcknowledgeDiscards, rowState
<1>6. ASSUME NEW L \in SUBSET Lease, NEW W \in SUBSET Worker, ExpireWorkers(L, W)
      PROVE  ResultInv'
  <2> DEFINE F == L \cup {n \in Lease : /\ Live(n)
                                         /\ Current(n).state # "completing"
                                         /\ \E w \in W : active[w] = <<n, tries[n]>>}
  <2>1. /\ F \in SUBSET Lease /\ (\A n \in F : Live(n)) /\ Fail(F)
        /\ UNCHANGED <<tries, accepted, decided, phase, total>>
    BY <1>6 DEF ExpireWorkers
  <2> HIDE DEF F
  <2> QED
    BY <1>3, <2>1
<1>7. ASSUME NEW w \in Worker, RetryShard(w) PROVE ResultInv'
  <2>1. PICK n \in First(Retryable(w)) : StartAttempt(n, w)
    BY <1>7 DEF RetryShard
  <2>2. n \in Lease /\ ~Live(n) /\ tries[n] < MaximumAttempts /\ accepted[n] = 0
    BY <2>1 DEF First, Retryable, Inactive, Unsettled, Issued
  <2> QED
    BY <1>0, <1>1, <1>7, <2>1, <2>2, StartKeepsRows DEF RetryShard
<1>8. ASSUME NEW w \in Worker, IssueShard(w) PROVE ResultInv'
  <2>1. PICK n \in First(Fresh) : StartAttempt(n, w)
    BY <1>8 DEF IssueShard
  <2>2. n \in Lease /\ ~Live(n) /\ tries[n] < MaximumAttempts /\ accepted[n] = 0
    BY <2>1, BudgetAssumption DEF First, Fresh, Live, IInv, LeaseInv, UnissuedIsBlank
  <2> QED
    BY <1>0, <1>1, <1>8, <2>1, <2>2, StartKeepsRows DEF IssueShard
<1>9. ASSUME NEW n \in Lease, NEW k \in 0 .. MaxPart, AcceptPart(n, k) PROVE ResultInv'
  <2> DEFINE a == Current(n)
             D == IF ReachesHighWater(total + TerminalProvisional + k)
                  THEN Inactive ELSE {}
             m == [attempt EXCEPT ![n][tries[n]] =
                     [a EXCEPT !.parts = @ + 1, !.term = @ + k]]
  <2>1. /\ tries[n] \in Try /\ a \in Attempt /\ a = attempt[n][tries[n]]
        /\ Live(n)
    BY <1>0, <1>9, BudgetAssumption
    DEF AcceptPart, Live, Current, IInv, TypeInv, TypeOK, Try, AttemptMap
  <2>2. a.parts + 1 \in 0 .. MaxPart /\ a.term + k \in 0 .. MaxPart
    BY <1>9, <2>1, BoundAssumption DEF AcceptPart, Attempt
  <2>3. /\ [a EXCEPT !.parts = @ + 1, !.term = @ + k] \in Attempt
        /\ [a EXCEPT !.parts = @ + 1, !.term = @ + k].state = a.state
    BY <2>1, <2>2 DEF Attempt
  <2>4. D \in SUBSET Inactive
    OBVIOUS
  <2>5. /\ attempt' = ClearShards(m, D)
        /\ discarded' = [j \in Lease |-> discarded[j] \/ j \in D]
        /\ UNCHANGED <<tries, accepted, decided, phase, total>>
    BY <1>9 DEF AcceptPart
  <2> HIDE DEF a, D
  <2>6. m \in AttemptMap
    BY <1>0, <2>1, <2>3 DEF AttemptMap
  <2>7. \A j \in Lease, i \in Try :
          /\ m[j][i].state = attempt[j][i].state
          /\ m[j][i] = attempt[j][i] \/ (Live(j) /\ i = tries[j])
    BY <1>0, <2>1, <2>3 DEF AttemptMap
  <2> HIDE DEF m
  <2>8. RowInv'
    BY <1>0, <2>4, <2>5, <2>6, <2>7, DropKeepsRows
  <2> QED
    BY <1>1, <2>5, <2>8
<1>10. ASSUME NEW n \in Lease, FailAttempt(n) PROVE ResultInv'
  BY <1>3, <1>10 DEF FailAttempt
<1>11. ASSUME NEW n \in Lease, ReserveCompletion(n) PROVE ResultInv'
  <2>1. /\ tries[n] \in Try /\ attempt[n][tries[n]] \in Attempt /\ Live(n)
        /\ attempt' = [attempt EXCEPT ![n][tries[n]].state = "completing"]
        /\ UNCHANGED <<tries, accepted, decided, discarded, phase, total>>
    BY <1>0, <1>11, BudgetAssumption
    DEF ReserveCompletion, Live, Current, IInv, TypeInv, TypeOK, Try, AttemptMap
  <2>2. \A j \in Lease, i \in Try :
          /\ attempt'[j][i].parts = attempt[j][i].parts
          /\ attempt'[j][i].state = IF j = n /\ i = tries[n] THEN "completing"
                                    ELSE attempt[j][i].state
    BY <1>0, <2>1 DEF AttemptMap, Attempt
  <2>3. \A j \in Lease : tries[j] > 0 => tries[j] \in Try
    BY BudgetAssumption DEF IInv, TypeInv, TypeOK, Try
  <2>4. \A j \in Lease : Live(j) => Live(j)'
    BY <2>1, <2>2, <2>3 DEF Live, Current
  <2>5. \A j \in Lease : accepted[j] # 0 => accepted[j] \in Try
    BY <1>0, <2>3 DEF RowInv, AcceptedIsLast, IInv, TypeInv, TypeOK, Try
  <2>6. RowsAreHeld' /\ AcceptedIsLast' /\ OnlyResultsCount' /\ ResultsKeepRows'
    BY <1>0, <2>1, <2>2, <2>4, <2>5
    DEF RowInv, RowsAreHeld, AcceptedIsLast, OnlyResultsCount, ResultsKeepRows, Collecting
  <2> QED
    BY <1>1, <2>1, <2>6 DEF RowInv
<1>12. ASSUME NEW r \in reservations, NEW shown \in SUBSET Artifact,
              FinalizeCompletion(r, shown)
       PROVE  ResultInv'
  BY <1>12, FinalizeKeepsResults
<1>13. ASSUME NEW r \in reservations, RejectCompletion(r) PROVE ResultInv'
  <2> DEFINE F == IF ~Tombstoned(r) /\ Names(r) THEN {r.lease} ELSE {}
  <2>1. /\ F \in SUBSET Lease /\ (\A n \in F : Live(n)) /\ Fail(F)
        /\ UNCHANGED <<tries, accepted, decided, phase, total>>
    BY <1>13 DEF RejectCompletion, Names, IInv, TypeInv, TypeOK, Reservation
  <2> HIDE DEF F
  <2> QED
    BY <1>3, <2>1
<1>14. ASSUME NEW stale, NEW mode, BeginWindow(stale, mode) PROVE ResultInv'
  BY <1>14, BeginResults
<1>15. ASSUME NEW stale, RefuseWindow(stale) PROVE ResultInv'
  BY <1>2, <1>15 DEF RefuseWindow, rowState
<1>16. CASE RequestLearnerReadyDrain
  <2>1. /\ attempt' = ClearShards(attempt, Inactive)
        /\ discarded' = [n \in Lease |-> discarded[n] \/ n \in Inactive]
        /\ UNCHANGED <<tries, accepted, decided, phase, total>>
    BY <1>16 DEF RequestLearnerReadyDrain
  <2>2. RowInv'
    BY <1>0, <2>1, DropKeepsRows
  <2> QED
    BY <1>1, <2>1, <2>2
<1>17. CASE StartCommit \/ FailCommit
  BY <1>2, <1>17 DEF StartCommit, FailCommit, rowState
<1>18. CASE FinishCommit
  <2>1. UNCHANGED <<tries, attempt, accepted, decided, discarded, total>> /\ ~Collecting'
    BY <1>18 DEF FinishCommit, Collecting
  <2>2. RowsAreHeld' /\ AcceptedIsLast' /\ OnlyResultsCount' /\ ResultsKeepRows'
    BY <1>0, <2>1
    DEF RowInv, RowsAreHeld, AcceptedIsLast, OnlyResultsCount, ResultsKeepRows, Live, Current
  <2> QED
    BY <1>1, <2>1, <2>2 DEF RowInv
<1>19. CASE AbortWindow
  <2>1. /\ attempt' = ClearShards(attempt, Lease) /\ ~Collecting'
        /\ UNCHANGED <<tries, accepted, decided, discarded, total>>
    BY <1>19 DEF AbortWindow, Collecting
  <2>2. ASSUME NEW n \in Lease, NEW k \in Try, attempt'[n][k].parts > 0
        PROVE  attempt[n][k].parts > 0 /\ attempt[n][k].state = "unstarted"
    <3>1. attempt'[n][k] = Cleared(attempt[n][k]) /\ attempt[n][k] \in Attempt
      BY <1>0, <2>1 DEF ClearShards, AttemptMap
    <3> QED
      BY <2>2, <3>1 DEF Cleared, Attempt
  <2>3. RowsAreHeld'
    BY <1>0, <2>1, <2>2 DEF RowInv, RowsAreHeld, Live, Current
  <2>4. AcceptedIsLast' /\ OnlyResultsCount' /\ ResultsKeepRows'
    BY <1>0, <2>1 DEF RowInv, AcceptedIsLast, OnlyResultsCount, ResultsKeepRows
  <2> QED
    BY <1>1, <2>1, <2>3, <2>4 DEF RowInv
<1>20. CASE ReleaseParts
  <2>1. /\ ~Collecting'
        /\ UNCHANGED <<tries, accepted, decided, discarded, total>>
    BY <1>20 DEF ReleaseParts, Collecting, Settled
  <2>2. \A n \in Lease, k \in Try : attempt'[n][k].parts = 0
    <3> SUFFICES ASSUME NEW n \in Lease, NEW k \in Try PROVE attempt'[n][k].parts = 0
      OBVIOUS
    <3>1. attempt'[n][k] = [attempt[n][k] EXCEPT !.parts = 0, !.term = 0]
      BY <1>20 DEF ReleaseParts
    <3>2. attempt[n][k] \in Attempt
      BY <1>0 DEF AttemptMap
    <3>3. [attempt[n][k] EXCEPT !.parts = 0, !.term = 0].parts = 0
      BY <3>2 DEF Attempt
    <3> QED
      BY <3>1, <3>3
  <2>3. RowsAreHeld' /\ AcceptedIsLast' /\ OnlyResultsCount' /\ ResultsKeepRows'
    BY <1>0, <2>1, <2>2
    DEF RowInv, RowsAreHeld, AcceptedIsLast, OnlyResultsCount, ResultsKeepRows
  <2> QED
    BY <1>1, <2>1, <2>3 DEF RowInv
<1>21. CASE UNCHANGED vars
  BY <1>2, <1>21 DEF vars, rowState
<1> QED
  BY <1>4, <1>5, <1>6, <1>7, <1>8, <1>9, <1>10, <1>11, <1>12, <1>13, <1>14, <1>15,
     <1>16, <1>17, <1>18, <1>19, <1>20, <1>21
  DEF Next, WorkerStep, AttemptStep, CompletionStep, SweepStep, BoundaryStep, LearnerStep

LEMMA SpecResultInv == Spec => []ResultInv
<1>1. IInv /\ ResultInv /\ [Next]_vars => ResultInv'
  BY NextResultInv
<1> QED
  BY InitResultInv, <1>1, SpecIInv, PTL DEF Spec

LEMMA ResultsFollow == IInv /\ ResultInv => ResultsAddUp
<1>1. IInv /\ ResultInv => OneResultPerLease
  <2> SUFFICES ASSUME IInv, ResultInv, NEW n \in Lease
               PROVE  /\ \A k \in Try : attempt[n][k].state \in {"running", "completing"} =>
                           k = tries[n] /\ accepted[n] = 0 /\ ~discarded[n]
                      /\ \A k \in Try : attempt[n][k].parts > 0 =>
                           k = tries[n] /\ (Live(n) \/ accepted[n] = k)
                      /\ accepted[n] # 0 => accepted[n] = tries[n] /\ ~discarded[n]
    BY DEF OneResultPerLease
  <2>1. ASSUME NEW k \in Try, attempt[n][k].state \in {"running", "completing"}
        PROVE  k = tries[n] /\ accepted[n] = 0 /\ ~discarded[n]
    <3>1. k = tries[n]
      BY <2>1 DEF IInv, LeaseInv, OneLive, LiveStates
    <3>2. Live(n)
      BY <2>1, <3>1 DEF Live, Current, Try
    <3> QED
      BY <3>1, <3>2 DEF IInv, LeaseInv, LiveIsOpen
  <2> QED
    BY <2>1 DEF ResultInv, RowInv, RowsAreHeld, AcceptedIsLast
<1>2. ResultInv => AcceptedDecisionsAddUp
  <2>1. ResultInv => total = SumOver(decided, Lease)
    BY DEF ResultInv, TotalIsSum
  <2> QED
    BY <2>1 DEF ResultInv, RowInv, ResultsKeepRows, AcceptedDecisionsAddUp
<1> QED
  BY <1>1, <1>2 DEF ResultsAddUp

\* Every lease counts once: whatever retries, sweeps and drains do, the
\* receipt's total is the sum of one result per lease, and an open window holds
\* the rows of each.
THEOREM LeasesCountOnce == Spec => []ResultsAddUp
  BY ResultsFollow, SpecIInv, SpecResultInv, PTL

(***************************************************************************)
(* The target closes the window                                            *)
(***************************************************************************)

\* the window has what it was opened for, without a drain
TargetReached == Collecting /\ ~Draining /\ Satisfied(total, FALSE, Missing(exposes))

LEMMA TargetMakesReady == TargetReached /\ TargetClosesWindow => ReadyToCommit
BY DEF TargetReached, TargetClosesWindow, ReadyToCommit, Satisfied

\* Only an accepted completion can reach the target.
LEMMA TargetIsReachedByResult ==
    ASSUME IInv, [Next]_vars, ~TargetReached, TargetReached'
    PROVE  \E r \in reservations, shown \in SUBSET Artifact : FinalizeCompletion(r, shown)
<1> DEFINE Result == \E r \in reservations, shown \in SUBSET Artifact :
                         FinalizeCompletion(r, shown)
<1> SUFFICES Result
  OBVIOUS
<1> USE DEF windowState, results, registry
<1>1. ~UNCHANGED <<phase, primaryOnly, learnerDrain, highWater, total, exposes>>
  BY DEF TargetReached, Collecting, Draining, Satisfied, Missing
<1>2. CASE WorkerStep
  BY <1>1, <1>2 DEF WorkerStep, RegisterWhileCollecting, RegisterAtBoundary, MarkReady,
                    AcknowledgeDiscards, RetryShard, IssueShard, Draining
<1>3. CASE AttemptStep
  <2>1. ASSUME NEW n \in Lease, NEW k \in 0 .. MaxPart, AcceptPart(n, k) PROVE FALSE
    <3>1. /\ UNCHANGED <<phase, primaryOnly, learnerDrain, total, exposes>>
          /\ highWater => highWater'
      BY <2>1 DEF AcceptPart
    <3> QED
      BY <3>1 DEF TargetReached, Draining, Collecting, Satisfied, Missing
  <2> QED
    BY <1>1, <1>3, <2>1 DEF AttemptStep, FailAttempt, ReserveCompletion, Draining
<1>4. CASE CompletionStep
  <2>1. ASSUME NEW r \in reservations, RejectCompletion(r) PROVE FALSE
    BY <1>1, <2>1 DEF RejectCompletion, Draining
  <2> QED
    BY <1>4, <2>1 DEF CompletionStep
<1> HIDE DEF Result
<1>5. CASE SweepStep
  BY <1>1, <1>5 DEF SweepStep, ExpireWorkers, Draining
<1>6. CASE BoundaryStep
  <2>1. ASSUME NEW stale, NEW mode, BeginWindow(stale, mode) PROVE FALSE
    <3>1. total' = 0
      BY <2>1 DEF BeginWindow
    <3> QED
      BY <3>1, BudgetAssumption DEF TargetReached, Satisfied
  <2>2. ASSUME NEW stale, RefuseWindow(stale) PROVE FALSE
    BY <1>1, <2>2 DEF RefuseWindow, Draining
  <2> QED
    BY <1>6, <2>1, <2>2 DEF BoundaryStep
<1>7. CASE LearnerStep
  <2>1. CASE RequestLearnerReadyDrain
    BY <2>1 DEF RequestLearnerReadyDrain, TargetReached, Draining
  <2>2. CASE FinishCommit \/ AbortWindow
    BY <2>2 DEF FinishCommit, AbortWindow, TargetReached, Collecting
  <2>3. CASE StartCommit \/ FailCommit \/ ReleaseParts
    BY <1>1, <2>3 DEF StartCommit, FailCommit, ReleaseParts, Draining
  <2> QED
    BY <1>7, <2>1, <2>2, <2>3 DEF LearnerStep
<1>8. CASE UNCHANGED vars
  BY <1>1, <1>8 DEF vars, Draining
<1> QED
  BY <1>2, <1>3, <1>4, <1>5, <1>6, <1>7, <1>8 DEF Next

\* The completion that reaches the target drops every other open lease.
LEMMA ResultDropsTail ==
    ASSUME IInv, NEW r \in reservations, NEW shown, FinalizeCompletion(r, shown),
           TargetReached'
    PROVE  Unsettled' = {}
<1> DEFINE n == r.lease
           shows == [exposes EXCEPT ![n] = shown]
<1>1. n \in Lease /\ r.try # 0 /\ accepted \in [Lease -> 0 .. MaximumAttempts]
  BY DEF IInv, TypeInv, TypeOK, Reservation, Try
<1>2. ~Draining /\ ~primaryOnly /\ Satisfied(total + r.decisions, FALSE, Missing(shows))
  BY DEF FinalizeCompletion, TargetReached, Satisfied, Draining
<1>3. discarded' = [m \in Lease |-> discarded[m] \/ m \in Unsettled \ {n}]
  BY <1>2 DEF FinalizeCompletion
<1>4. accepted' = [accepted EXCEPT ![n] = r.try] /\ tries' = tries
  BY DEF FinalizeCompletion
<1>5. ASSUME NEW m \in Lease, m \in Unsettled' PROVE FALSE
  <2>1. tries[m] > 0 /\ accepted'[m] = 0 /\ ~discarded'[m]
    BY <1>4, <1>5 DEF Unsettled, Issued
  <2>2. m # n
    BY <1>1, <1>4, <2>1
  <2>3. m \in Unsettled
    BY <1>1, <1>3, <1>4, <2>1, <2>2 DEF Unsettled, Issued
  <2> QED
    BY <1>3, <2>1, <2>2, <2>3
<1> QED
  BY <1>5 DEF Unsettled, Issued

LEMMA NextTargetCloses ==
    ASSUME IInv, TargetClosesWindow, [Next]_vars
    PROVE  TargetClosesWindow'
<1> SUFFICES ASSUME TargetReached' PROVE Unsettled' = {}
  BY DEF TargetClosesWindow, TargetReached
<1>1. CASE TargetReached
  <2>1. ReadyToCommit /\ phase' = "collecting"
    BY <1>1, TargetMakesReady DEF TargetReached, Collecting
  <2>2. ReadyToCommit'
    BY <2>1, ReadyStays
  <2> QED
    BY <2>2 DEF ReadyToCommit
<1>2. CASE ~TargetReached
  BY <1>2, TargetIsReachedByResult, ResultDropsTail
<1> QED
  BY <1>1, <1>2

LEMMA InitTargetCloses == Init => TargetClosesWindow
  BY DEF Init, TargetClosesWindow, Collecting

\* Reaching the target closes the window in the same step: no lease stays open
\* and none is issued after it.
THEOREM TargetCloses == Spec => []TargetClosesWindow
  BY InitTargetCloses, NextTargetCloses, SpecIInv, PTL DEF Spec

(***************************************************************************)
(* The coordinator implements the learner's contract                       *)
(***************************************************************************)

\* A window that is ready to commit has an outcome to hand out.
LEMMA ReadyHasOutcome ==
    ASSUME IInv, ResultInv, ReadyToCommit
    PROVE  Outcomes # {}
<1> SUFFICES ASSUME Outcomes = {} PROVE FALSE
  OBVIOUS
<1>1. \A n \in Lease : accepted[n] = 0
  BY DEF Outcomes
<1>2. \A n \in Lease : decided[n] = 0
  BY <1>1 DEF ResultInv, RowInv, OnlyResultsCount
<1>3. IsFiniteSet(Lease)
  BY FS_Interval, BoundAssumption DEF Lease
<1>4. total = 0
  BY <1>2, <1>3, SumOfZeros DEF ResultInv, TotalIsSum
<1> QED
  BY <1>4, BudgetAssumption DEF ReadyToCommit, Satisfied

\* An accepted completion grants one outcome, of a lease that had none, and
\* never while the learner applies an offer.
LEMMA FinalizeGrants ==
    ASSUME IInv, ResultInv, NEW r \in reservations, NEW shown, FinalizeCompletion(r, shown)
    PROVE  Contract!Grant
<1> DEFINE o == <<r.lease, r.decisions>>
<1>1. /\ r.lease \in Lease /\ r.try # 0 /\ Live(r.lease) /\ r.decisions \in 0 .. MaxPart
      /\ accepted[r.lease] = 0 /\ Collecting
      /\ accepted \in [Lease -> 0 .. MaximumAttempts] /\ decided \in [Lease -> 0 .. MaxPart]
  BY DEF FinalizeCompletion, Names, IInv, TypeInv, TypeOK, Reservation, LeaseInv,
         LiveIsOpen, Try
<1>2. ~callback
  BY <1>1, ReadyIsIdle DEF IInv, CommitsWhatItHanded
<1>3. /\ accepted' = [accepted EXCEPT ![r.lease] = r.try]
      /\ decided' = [decided EXCEPT ![r.lease] = r.decisions]
      /\ UNCHANGED <<phase, window, callback, snapshot>>
  BY DEF FinalizeCompletion, learner
<1>4. Outcomes' = Outcomes \cup {o}
  BY <1>1, <1>3 DEF Outcomes
<1>5. o \in Lease \X (0 .. MaxPart) /\ \A p \in Outcomes : p[1] # o[1]
  BY <1>1 DEF Outcomes
<1> QED
  BY <1>1, <1>2, <1>3, <1>4, <1>5 DEF Contract!Grant, Contract!Open, Collecting

LEMMA BeginBegins ==
    ASSUME ~callback, NEW stale, NEW mode, BeginWindow(stale, mode)
    PROVE  Contract!Begin
<1>1. Outcomes' = {} /\ phase' = "collecting" /\ window' = window + 1 /\ ~Collecting
      /\ UNCHANGED <<callback, snapshot>>
  BY DEF BeginWindow, Outcomes, learner
<1> QED
  BY <1>1 DEF Contract!Begin, Contract!Open, Collecting

\* Every step of the coordinator is a step of the contract or changes nothing
\* the contract speaks of.
LEMMA StepKeepsContract ==
    ASSUME IInv, ResultInv, [Next]_vars
    PROVE  [Contract!Next]_(Contract!contract)
<1> USE DEF windowState, results, registry, learner
<1> DEFINE Hidden == UNCHANGED <<phase, window, accepted, decided, callback, snapshot>>
<1>0. Hidden => UNCHANGED Contract!contract
  BY DEF Contract!contract, Outcomes
<1>1. CASE WorkerStep
  <2>1. Hidden
    BY <1>1 DEF WorkerStep, RegisterWhileCollecting, RegisterAtBoundary, MarkReady,
                AcknowledgeDiscards, RetryShard, IssueShard
  <2> QED
    BY <1>0, <2>1
<1>2. CASE AttemptStep
  <2>1. Hidden
    BY <1>2 DEF AttemptStep, AcceptPart, FailAttempt, ReserveCompletion
  <2> QED
    BY <1>0, <2>1
<1>3. CASE CompletionStep
  <2>1. ASSUME NEW r \in reservations, RejectCompletion(r) PROVE Hidden
    BY <2>1 DEF RejectCompletion
  <2>2. ASSUME NEW r \in reservations, NEW shown, FinalizeCompletion(r, shown)
        PROVE  Contract!Next
    BY <2>2, FinalizeGrants DEF Contract!Next
  <2> QED
    BY <1>0, <1>3, <2>1, <2>2 DEF CompletionStep
<1>4. CASE SweepStep
  <2>1. Hidden
    BY <1>4 DEF SweepStep, ExpireWorkers
  <2> QED
    BY <1>0, <2>1
<1>5. CASE BoundaryStep
  <2>1. ASSUME NEW stale, RefuseWindow(stale) PROVE Hidden
    BY <2>1 DEF RefuseWindow
  <2>2. ASSUME NEW stale, NEW mode, BeginWindow(stale, mode) PROVE Contract!Next
    <3>1. ~callback
      BY <2>2, ReadyIsIdle DEF BeginWindow, IInv, CommitsWhatItHanded
    <3> QED
      BY <2>2, <3>1, BeginBegins DEF Contract!Next
  <2> QED
    BY <1>0, <1>5, <2>1, <2>2 DEF BoundaryStep
<1>6. CASE RequestLearnerReadyDrain \/ ReleaseParts
  <2>1. Hidden
    BY <1>6 DEF RequestLearnerReadyDrain, ReleaseParts
  <2> QED
    BY <1>0, <2>1
<1>7. CASE StartCommit
  <2>1. Outcomes # {} /\ Collecting
    BY <1>7, ReadyHasOutcome DEF StartCommit, ReadyToCommit
  <2>2. Outcomes' = Outcomes
    BY <1>7 DEF StartCommit, Outcomes
  <2>3. Contract!Hand
    BY <1>7, <2>1, <2>2 DEF StartCommit, Contract!Hand, Contract!Open, Collecting
  <2> QED
    BY <2>3 DEF Contract!Next
<1>8. CASE FinishCommit
  <2>1. snapshot = Outcomes /\ Outcomes' = Outcomes
    BY <1>8 DEF FinishCommit, Outcomes, IInv, CommitsWhatItHanded
  <2>2. Contract!Commit
    BY <1>8, <2>1 DEF FinishCommit, Contract!Commit, Contract!Open, Collecting
  <2> QED
    BY <2>2 DEF Contract!Next
<1>9. CASE FailCommit
  <2>1. Outcomes' = Outcomes
    BY <1>9 DEF FailCommit, Outcomes
  <2>2. Contract!TakeBack
    BY <1>9, <2>1 DEF FailCommit, Contract!TakeBack
  <2> QED
    BY <2>2 DEF Contract!Next
<1>10. CASE AbortWindow
  <2>1. Outcomes' = Outcomes
    BY <1>10 DEF AbortWindow, Outcomes
  <2>2. Contract!Abort
    BY <1>10, <2>1 DEF AbortWindow, Contract!Abort, Contract!Open, Collecting
  <2> QED
    BY <2>2 DEF Contract!Next
<1>11. CASE UNCHANGED vars
  <2>1. Hidden
    BY <1>11 DEF vars
  <2> QED
    BY <1>0, <2>1
<1> QED
  BY <1>1, <1>2, <1>3, <1>4, <1>5, <1>6, <1>7, <1>8, <1>9, <1>10, <1>11
  DEF Next, LearnerStep

LEMMA InitKeepsContract == Init => Contract!Init
<1> SUFFICES ASSUME Init PROVE Contract!Init
  OBVIOUS
<1>1. Outcomes = {}
  BY DEF Init, Outcomes
<1> QED
  BY <1>1 DEF Init, Contract!Init

\* The coordinator implements WindowContract: registrations, retries, sweeps,
\* drains and late completions are invisible to the learner.
THEOREM ContractIsKept == Spec => KeepsContract
<1>1. Init => Contract!Init
  BY InitKeepsContract
<1>2. IInv /\ ResultInv /\ [Next]_vars => [Contract!Next]_(Contract!contract)
  BY StepKeepsContract
<1> QED
  BY <1>1, <1>2, SpecIInv, SpecResultInv, PTL DEF Spec, KeepsContract, Contract!Spec

=============================================================================
