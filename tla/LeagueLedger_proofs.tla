------------------------- MODULE LeagueLedger_proofs -------------------------
(***************************************************************************)
(* Proofs about the league's tables, for any assets, bounds and callers.   *)
(***************************************************************************)
EXTENDS LeagueLedgerProperties, SequenceTheorems, FiniteSetTheorems,
        WellFoundedInduction, NaturalsInduction, TLAPS

-----------------------------------------------------------------------------
(* Sequences of rows *)

\* A function on 1 .. n is a sequence of length n.
LEMMA RowsAreSeq ==
    ASSUME NEW S, NEW n \in Nat, NEW f \in [1 .. n -> S]
    PROVE  f \in Seq(S) /\ Len(f) = n
<1>1. f \in Seq(S)
  BY SeqDef
<1> QED
  BY <1>1, LenProperties, SMT

\* The update of every row of a table is a table with the same row numbers.
LEMMA UpdateRows ==
    ASSUME NEW S, NEW s \in Seq(S), NEW t,
           DOMAIN t = DOMAIN s, t = [i \in DOMAIN t |-> t[i]],
           \A i \in DOMAIN s : t[i] \in S
    PROVE  t \in Seq(S) /\ Len(t) = Len(s)
<1>1. Len(s) \in Nat /\ DOMAIN s = 1 .. Len(s)
  BY LenProperties
<1>2. t \in [1 .. Len(s) -> S]
  BY <1>1
<1> QED
  BY <1>1, <1>2, RowsAreSeq

\* A row added to a table gets the next number and leaves the others alone.
LEMMA AddRow ==
    ASSUME NEW S, NEW s \in Seq(S), NEW x \in S
    PROVE  /\ Append(s, x) \in Seq(S)
           /\ Len(Append(s, x)) = Len(s) + 1
           /\ DOMAIN Append(s, x) = DOMAIN s \cup {Len(s) + 1}
           /\ Len(s) + 1 \notin DOMAIN s
           /\ DOMAIN s = 1 .. Len(s)
           /\ Len(s) \in Nat
           /\ Append(s, x)[Len(s) + 1] = x
           /\ \A i \in DOMAIN s : Append(s, x)[i] = s[i]
<1>1. /\ Append(s, x) \in Seq(S)
      /\ Len(Append(s, x)) = Len(s) + 1
      /\ \A i \in 1 .. Len(s) : Append(s, x)[i] = s[i]
      /\ Append(s, x)[Len(s) + 1] = x
  BY AppendProperties
<1>2. Len(s) \in Nat /\ DOMAIN s = 1 .. Len(s)
  BY LenProperties
<1>3. DOMAIN Append(s, x) = 1 .. Len(s) + 1
  BY <1>1, LenProperties
<1> QED
  BY <1>1, <1>2, <1>3

-----------------------------------------------------------------------------
(* What a step may do to the matches: revise rows, add one, or record a    *)
(* result                                                                  *)

\* a row as RowsOK wants it
Sound(row) ==
    /\ row \in Match
    /\ row.live => row.state = "leased"
    /\ row.state = "leased" => row.attempts > 0

\* an old row and the same row after a step that records no result
Moved(old, new) ==
    /\ Sound(new)
    /\ new.a = old.a
    /\ new.b = old.b
    /\ new.reason = old.reason
    /\ new.attempts >= old.attempts
    /\ new.state = "completed" <=> old.state = "completed"
    /\ old.state = "cancelled" => new.state = "cancelled"
    /\ new.state = "queued" /\ new.attempts = 0 =>
          old.state = "queued" /\ old.attempts = 0

Revises ==
    /\ UNCHANGED <<results, events>>
    /\ DOMAIN matches' = DOMAIN matches
    /\ matches' = [m \in DOMAIN matches' |-> matches'[m]]
    /\ \A m \in DOMAIN matches : Moved(matches[m], matches'[m])

\* the row of a new match
Untried(row) ==
    /\ row \in Match
    /\ row.state = "queued"
    /\ row.attempts = 0
    /\ ~row.live
    /\ Playable(row.a, row.b)

Adds ==
    /\ UNCHANGED <<controllers, decks, bundles, results, events>>
    /\ \E row :
          /\ Untried(row)
          /\ matches' = Append(matches, row)
          /\ \/ row.reason = "forced"
             \/ scheduler.phase = "chosen" /\ scheduler'.phase = "measuring"

Records ==
    \E m \in DOMAIN matches : \E n \in 1 .. matches[m].attempts, o \in Outcome :
        RecordResult([match |-> m, attempt |-> n, outcome |-> o])

\* a row after its grant
Granted(row) ==
    [row EXCEPT !.state = "leased", !.live = TRUE, !.attempts = row.attempts + 1]

\* What the ledger does to one row, and to one row twice.
LEMMA RowMoves ==
    ASSUME NEW row, Sound(row)
    PROVE  /\ Moved(row, row)
           /\ row.state = "queued" => Moved(row, [row EXCEPT !.state = "cancelled"])
           /\ Moved(row, [row EXCEPT !.live = FALSE])
           /\ row.state = "leased" /\ ~row.live =>
                 Moved(row, [row EXCEPT !.state = "queued"])
           /\ row.state = "queued" =>
                 Moved(row, Granted(row))
<1>1. Moved(row, row)
  BY DEF Moved, Sound, Match
<1>2. ASSUME row.state = "queued"
      PROVE  Moved(row, [row EXCEPT !.state = "cancelled"])
  BY <1>2 DEF Moved, Sound, Match
<1>3. Moved(row, [row EXCEPT !.live = FALSE])
  <2> DEFINE new == [row EXCEPT !.live = FALSE]
  <2>1. new.attempts = row.attempts /\ row.attempts \in Nat
    BY DEF Sound, Match
  <2>2. new.attempts >= row.attempts
    BY <2>1
  <2> QED
    BY <2>2 DEF Moved, Sound, Match
<1>4. ASSUME row.state = "leased", ~row.live
      PROVE  Moved(row, [row EXCEPT !.state = "queued"])
  BY <1>4 DEF Moved, Sound, Match
<1>5. ASSUME row.state = "queued"
      PROVE  Moved(row, Granted(row))
  <2> DEFINE new == Granted(row)
  <2>1. row.attempts \in Nat /\ row.a \in Compatible /\ row.b \in Compatible
        /\ row.reason \in {"forced", "candidate", "background"} /\ row.priority \in Nat
    BY DEF Sound, Match
  <2>3. row.attempts + 1 \in Nat /\ row.attempts + 1 > 0
    BY <2>1
  <2>2. new \in Match
    BY <2>3 DEF Sound, Match, Granted
  <2>4. /\ new.a = row.a
        /\ new.b = row.b
        /\ new.reason = row.reason
        /\ new.state = "leased"
        /\ new.attempts = row.attempts + 1
    BY DEF Sound, Match, Granted
  <2>5. new.attempts >= row.attempts
    BY <2>1, <2>4
  <2> QED
    BY <1>5, <2>2, <2>3, <2>4, <2>5 DEF Moved, Sound
<1> QED
  BY <1>1, <1>2, <1>3, <1>4, <1>5

LEMMA MovedTwice ==
    ASSUME NEW x, NEW y, NEW z, Sound(x), Moved(x, y), Moved(y, z)
    PROVE  Moved(x, z)
<1>1. x.attempts \in Nat /\ y.attempts \in Nat /\ z.attempts \in Nat
  BY DEF Moved, Sound, Match
<1>2. z.attempts >= x.attempts
  BY <1>1 DEF Moved
<1> QED
  BY <1>2 DEF Moved

\* The rows of the table are sound.
LEMMA RowsAreSound ==
    ASSUME RowsOK
    PROVE  /\ matches \in Seq(Match)
           /\ DOMAIN matches = 1 .. Len(matches)
           /\ matches = [m \in DOMAIN matches |-> matches[m]]
           /\ \A m \in DOMAIN matches : Sound(matches[m])
<1>1. matches \in Seq(Match)
  BY DEF RowsOK
<1>2. DOMAIN matches = 1 .. Len(matches) /\ matches \in [1 .. Len(matches) -> Match]
  BY <1>1, LenProperties
<1> QED
  BY <1>1, <1>2 DEF RowsOK, Sound

\* A step that leaves the table alone revises nothing.
LEMMA SameMatches ==
    ASSUME RowsOK, UNCHANGED <<matches, results, events>>
    PROVE  Revises
BY RowsAreSound, RowMoves DEF Revises

\* Withdrawing queued matches only cancels.
LEMMA WithdrawnRevises ==
    ASSUME RowsOK, NEW C, matches' = Withdrawn(C), UNCHANGED <<results, events>>
    PROVE  Revises
BY RowsAreSound, RowMoves DEF Revises, Withdrawn

\* So does making room for candidates.
LEMMA MakeRoomRevises ==
    ASSUME RowsOK, MakeRoom
    PROVE  Revises
BY RowsAreSound, RowMoves DEF Revises, MakeRoom

\* A lease that runs out stays with its match.
LEMMA ExpiryRevises ==
    ASSUME RowsOK, NEW k \in DOMAIN matches, LeaseExpires(k)
    PROVE  Revises
BY RowsAreSound, RowMoves DEF Revises, LeaseExpires

\* A lease request queues again what ran out.
LEMMA RequeuedMoves ==
    ASSUME RowsOK
    PROVE  /\ DOMAIN Requeued = DOMAIN matches
           /\ Requeued = [m \in DOMAIN Requeued |-> Requeued[m]]
           /\ \A m \in DOMAIN matches : Moved(matches[m], Requeued[m])
BY RowsAreSound, RowMoves DEF Requeued

LEMMA GrantNothingRevises ==
    ASSUME RowsOK, NEW cuda, GrantNothing(cuda)
    PROVE  Revises
BY RequeuedMoves DEF Revises, GrantNothing

\* A grant moves one row of these.
LEMMA GrantRevises ==
    ASSUME RowsOK, NEW k, NEW cuda, Grant(k, cuda)
    PROVE  Revises
<1>1. /\ k \in DOMAIN matches
      /\ Requeued[k].state = "queued"
      /\ matches' = [Requeued EXCEPT
            ![k].state = "leased", ![k].live = TRUE, ![k].attempts = @ + 1]
      /\ UNCHANGED <<results, events>>
  BY DEF Grant, FirstOf, Grantable
<1>2. DOMAIN matches' = DOMAIN matches
  BY <1>1, RequeuedMoves
<1>3. ASSUME NEW m \in DOMAIN matches
      PROVE  Moved(matches[m], matches'[m])
  <2>1. Moved(matches[m], Requeued[m]) /\ Sound(Requeued[m])
    BY RequeuedMoves DEF Moved
  <2>2. Moved(Requeued[m], matches'[m])
    <3>1. CASE m # k
      BY <1>1, <2>1, <3>1, RequeuedMoves, RowMoves
    <3>2. CASE m = k
      <4>1. matches'[m] = Granted(Requeued[m])
        BY <1>1, <3>2, RequeuedMoves DEF Granted
      <4> QED
        BY <1>1, <2>1, <3>2, <4>1, RowMoves
    <3> QED
      BY <3>1, <3>2
  <2> QED
    BY <2>1, <2>2, MovedTwice, RowsAreSound
<1> QED
  BY <1>1, <1>2, <1>3, RequeuedMoves DEF Revises

\* Queueing adds one untried row.
LEMMA EnqueueAdds ==
    ASSUME NEW a \in Compatible, NEW b \in Compatible,
           NEW reason \in {"forced", "candidate", "background"}, NEW priority \in Nat,
           Enqueue(a, b, reason, priority),
           UNCHANGED <<controllers, decks, bundles, results, events>>,
           \/ reason = "forced"
           \/ scheduler.phase = "chosen" /\ scheduler'.phase = "measuring"
    PROVE  Adds
<1> DEFINE row == [a |-> a, b |-> b, state |-> "queued", reason |-> reason,
                   priority |-> priority, attempts |-> 0, live |-> FALSE]
<1>1. matches' = Append(matches, row) /\ Playable(a, b)
  BY DEF Enqueue
<1>2. Untried(row)
  BY <1>1 DEF Untried, Match
<1> QED
  BY <1>1, <1>2 DEF Adds

-----------------------------------------------------------------------------
(* Every step is of one of these kinds *)

\* Whatever runs, a step revises rows, adds an untried one, or records a
\* result of a lease that was granted.
LEMMA StepKinds ==
    ASSUME RowsOK, SchedulerOK, [LedgerNext]_ledger
    PROVE  Revises \/ Adds \/ Records
<1>1. CASE UNCHANGED ledger
  BY <1>1, SameMatches DEF ledger, tables
<1>2. CASE SchedulerStep
  <2>1. CASE EvaluateCandidates
    <3>1. \E rejected : matches' = Withdrawn(rejected) /\ UNCHANGED <<results, events>>
      BY <2>1 DEF EvaluateCandidates
    <3> QED
      BY <3>1, WithdrawnRevises
  <2>2. CASE MakeRoom
    BY <2>2, MakeRoomRevises
  <2>3. CASE MeasureQueue \/ ChooseCandidate \/ ChooseBackground \/ ChooseNothing
             \/ EnqueueRefused
    BY <2>3, SameMatches DEF MeasureQueue, ChooseCandidate, ChooseBackground,
       ChooseNothing, EnqueueRefused, tables
  <2>4. CASE EnqueueChosen
    <3> DEFINE k == scheduler.pick
    <3>1. k \in Pick
      BY <2>4 DEF EnqueueChosen, SchedulerOK
    <3>2. /\ k.sides[1] \in Compatible
          /\ k.sides[2] \in Compatible
          /\ k.reason \in {"forced", "candidate", "background"}
          /\ k.priority \in Nat
      BY <3>1 DEF Pick
    <3>3. /\ Enqueue(k.sides[1], k.sides[2], k.reason, k.priority)
          /\ UNCHANGED <<controllers, decks, bundles, results, events>>
          /\ scheduler.phase = "chosen" /\ scheduler'.phase = "measuring"
      BY <2>4 DEF EnqueueChosen
    <3> QED
      BY <3>2, <3>3, EnqueueAdds
  <2> QED
    BY <1>2, <2>1, <2>2, <2>3, <2>4 DEF SchedulerStep
<1>3. CASE OperatorStep
  <2>1. CASE \/ \E d \in Deck : RegisterDeck(d)
             \/ \E c \in Controller : RegisterController(c)
             \/ RebuildRatings
    BY <2>1, SameMatches DEF RegisterDeck, RegisterController, RebuildRatings
  <2>2. ASSUME NEW c \in Controller, NEW active \in BOOLEAN,
               SetControllerActive(c, active)
        PROVE  Revises
    BY <2>2, SameMatches, WithdrawnRevises DEF SetControllerActive
  <2>3. ASSUME NEW a \in Compatible, NEW b \in Compatible, ForceChallenge(a, b)
        PROVE  Adds
    BY <2>3, EnqueueAdds DEF ForceChallenge
  <2> QED
    BY <1>3, <2>1, <2>2, <2>3 DEF OperatorStep
<1>4. CASE RequestStep
  <2>1. ASSUME NEW m \in DOMAIN matches, NEW n \in 1 .. matches[m].attempts,
               NEW o \in Outcome,
               SubmitResult([match |-> m, attempt |-> n, outcome |-> o])
        PROVE  Revises \/ Records
    <3>1. CASE UNCHANGED ledger
      BY <3>1, SameMatches DEF ledger, tables
    <3>2. CASE RecordResult([match |-> m, attempt |-> n, outcome |-> o])
      BY <3>2 DEF Records
    <3> QED
      BY <2>1, <3>1, <3>2 DEF SubmitResult
  <2> QED
    BY <1>4, <2>1, GrantRevises, GrantNothingRevises DEF RequestStep
<1>5. CASE (\E m \in DOMAIN matches : LeaseExpires(m)) \/ Restart
  BY <1>5, ExpiryRevises, SameMatches DEF Restart, tables
<1> QED
  BY <1>1, <1>2, <1>3, <1>4, <1>5 DEF LedgerNext

\* Which steps touch controllers, decks and bundles.
LEMMA AssetSteps ==
    ASSUME [LedgerNext]_ledger
    PROVE  \/ UNCHANGED <<controllers, decks, bundles>>
           \/ EvaluateCandidates
           \/ \E d \in Deck : RegisterDeck(d)
           \/ \E c \in Controller : RegisterController(c)
           \/ \E c \in Controller, active \in BOOLEAN : SetControllerActive(c, active)
           \/ Records
<1>1. CASE UNCHANGED ledger
  BY <1>1 DEF ledger, tables
<1>2. CASE SchedulerStep
  BY <1>2 DEF SchedulerStep, MakeRoom, MeasureQueue, ChooseCandidate, ChooseBackground,
     ChooseNothing, EnqueueChosen, EnqueueRefused, tables
<1>3. CASE OperatorStep
  BY <1>3 DEF OperatorStep, ForceChallenge, RebuildRatings
<1>4. CASE RequestStep
  <2>1. ASSUME NEW m \in DOMAIN matches, NEW n \in 1 .. matches[m].attempts,
               NEW o \in Outcome,
               SubmitResult([match |-> m, attempt |-> n, outcome |-> o])
        PROVE  UNCHANGED <<controllers, decks, bundles>> \/ Records
    BY <2>1 DEF SubmitResult, Records, ledger, tables
  <2> QED
    BY <1>4, <2>1 DEF RequestStep, Grant, GrantNothing
<1>5. CASE (\E m \in DOMAIN matches : LeaseExpires(m)) \/ Restart
  BY <1>5 DEF LeaseExpires, Restart, tables
<1> QED
  BY <1>1, <1>2, <1>3, <1>4, <1>5 DEF LedgerNext

\* What a judgement does to the tables: nobody is both accepted and rejected.
LEMMA Judgement ==
    ASSUME EvaluateCandidates
    PROVE  \E accepted, rejected \in SUBSET Candidates :
              /\ accepted \cap rejected = {}
              /\ controllers' = [c \in Controller |->
                    CASE c \in accepted -> [controllers[c] EXCEPT !.state = "incumbent"]
                      [] c \in rejected ->
                            [controllers[c] EXCEPT !.state = "rejected", !.active = FALSE]
                      [] OTHER -> controllers[c]]
              /\ bundles' = [b \in Compatible |->
                    IF b[1] \in rejected THEN Flagged(rejected, FALSE)[b]
                                         ELSE Flagged(accepted, TRUE)[b]]
              /\ matches' = Withdrawn(rejected)
              /\ UNCHANGED <<decks, results, events>>
<1>1. PICK p \in [Candidates -> {"high", "low", "upper", "lower"}] :
         LET accepted == {c \in Candidates : Verdict(c, p[c]) = "incumbent"}
             rejected == {c \in Candidates : Verdict(c, p[c]) = "rejected"}
         IN  /\ controllers' = [c \in Controller |->
                    CASE c \in accepted -> [controllers[c] EXCEPT !.state = "incumbent"]
                      [] c \in rejected ->
                            [controllers[c] EXCEPT !.state = "rejected", !.active = FALSE]
                      [] OTHER -> controllers[c]]
             /\ bundles' = [b \in Compatible |->
                    IF b[1] \in rejected THEN Flagged(rejected, FALSE)[b]
                                         ELSE Flagged(accepted, TRUE)[b]]
             /\ matches' = Withdrawn(rejected)
  BY DEF EvaluateCandidates
<1> DEFINE accepted == {c \in Candidates : Verdict(c, p[c]) = "incumbent"}
           rejected == {c \in Candidates : Verdict(c, p[c]) = "rejected"}
<1>2. /\ accepted \in SUBSET Candidates
      /\ rejected \in SUBSET Candidates
      /\ accepted \cap rejected = {}
  OBVIOUS
<1>3. UNCHANGED <<decks, results, events>>
  BY DEF EvaluateCandidates
<1> QED
  BY <1>1, <1>2, <1>3

\* the asset tables as RowsOK wants them
AssetsOK ==
    /\ controllers \in [Controller -> ControllerRow]
    /\ decks \subseteq Deck
    /\ bundles \in [Compatible -> {"absent", "inactive", "active"}]

\* what no step takes back
AssetsLast ==
    /\ \A b \in Compatible : bundles[b] # "absent" => bundles'[b] # "absent"
    /\ \A c \in Controller :
          controllers[c].state \in {"incumbent", "rejected", "anchor"} =>
              controllers'[c].state = controllers[c].state

\* A result credits games, and leaves the rest of a controller alone.
LEMMA RecordKeepsControllers ==
    ASSUME AssetsOK, Records
    PROVE  /\ controllers' \in [Controller -> ControllerRow]
           /\ UNCHANGED <<decks, bundles>>
           /\ \A c \in Controller : /\ controllers'[c].state = controllers[c].state
                                    /\ controllers'[c].active = controllers[c].active
<1>1. PICK m : (controllers' = Counted(m) \/ UNCHANGED controllers)
               /\ UNCHANGED <<decks, bundles>>
  BY DEF Records, RecordResult, RateResult
<1>2. Counted(m) \in [Controller -> ControllerRow]
  <2>1. ASSUME NEW c \in Controller
        PROVE  [controllers[c] EXCEPT !.decided = @ + 1] \in ControllerRow
    BY DEF AssetsOK, ControllerRow
  <2> QED
    BY <2>1 DEF Counted, AssetsOK
<1>3. \A c \in Controller : /\ Counted(m)[c].state = controllers[c].state
                            /\ Counted(m)[c].active = controllers[c].active
  BY DEF Counted, AssetsOK, ControllerRow
<1> QED
  BY <1>1, <1>2, <1>3 DEF AssetsOK

LEMMA AssetsStep ==
    ASSUME AssetsOK, [LedgerNext]_ledger
    PROVE  AssetsOK' /\ AssetsLast
<1>1. CASE UNCHANGED <<controllers, decks, bundles>>
  BY <1>1 DEF AssetsOK, AssetsLast
<1>2. CASE EvaluateCandidates
  <2>1. PICK accepted \in SUBSET Candidates, rejected \in SUBSET Candidates :
              /\ accepted \cap rejected = {}
              /\ controllers' = [c \in Controller |->
                    CASE c \in accepted -> [controllers[c] EXCEPT !.state = "incumbent"]
                      [] c \in rejected ->
                            [controllers[c] EXCEPT !.state = "rejected", !.active = FALSE]
                      [] OTHER -> controllers[c]]
              /\ bundles' = [b \in Compatible |->
                    IF b[1] \in rejected THEN Flagged(rejected, FALSE)[b]
                                         ELSE Flagged(accepted, TRUE)[b]]
              /\ decks' = decks
    BY <1>2, Judgement
  <2>2. \A c \in Controller : /\ controllers'[c] \in ControllerRow
                              /\ c \notin Candidates => controllers'[c] = controllers[c]
    BY <2>1 DEF AssetsOK, ControllerRow
  <2>3. \A b \in Compatible : /\ bundles'[b] \in {"absent", "inactive", "active"}
                              /\ bundles[b] # "absent" => bundles'[b] # "absent"
    BY <2>1 DEF AssetsOK, Flagged
  <2>4. controllers' \in [Controller -> ControllerRow]
    BY <2>1, <2>2
  <2>5. bundles' \in [Compatible -> {"absent", "inactive", "active"}]
    BY <2>1, <2>3
  <2> QED
    BY <2>1, <2>2, <2>3, <2>4, <2>5 DEF AssetsOK, AssetsLast, Candidates
<1>3. ASSUME NEW d \in Deck, RegisterDeck(d)
      PROVE  AssetsOK' /\ AssetsLast
  BY <1>3 DEF RegisterDeck, AssetsOK, AssetsLast, BundleFlag
<1>4. ASSUME NEW c \in Controller, RegisterController(c)
      PROVE  AssetsOK' /\ AssetsLast
  BY <1>4, AssetAssumption
     DEF RegisterController, AssetsOK, AssetsLast, ControllerRow, InitialState, Known
<1>5. ASSUME NEW c \in Controller, NEW active \in BOOLEAN, SetControllerActive(c, active)
      PROVE  AssetsOK' /\ AssetsLast
  BY <1>5 DEF SetControllerActive, Flagged, AssetsOK, AssetsLast, ControllerRow
<1>6. CASE Records
  BY <1>6, RecordKeepsControllers DEF AssetsOK, AssetsLast
<1> QED
  BY <1>1, <1>2, <1>3, <1>4, <1>5, <1>6, AssetSteps

-----------------------------------------------------------------------------
(* The rows are sound *)

\* the match, result and event tables as RowsOK wants them
LogsOK ==
    /\ matches \in Seq(Match)
    /\ results \in Seq(Result)
    /\ events \in Seq(Nat)
    /\ \A i \in DOMAIN results :
          results[i].match \in DOMAIN matches /\ results[i].event <= Len(events)
    /\ \A e \in DOMAIN events : events[e] \in DOMAIN matches
    /\ \A m \in DOMAIN matches :
          /\ matches[m].live => matches[m].state = "leased"
          /\ matches[m].state = "leased" => matches[m].attempts > 0

LEMMA RowsAreAssetsAndLogs == RowsOK <=> AssetsOK /\ LogsOK
BY DEF RowsOK, AssetsOK, LogsOK

\* the row a result leaves, and what becomes of the logs
RecordedRow(m, n, o) ==
    [match |-> m, attempt |-> n, outcome |-> o,
     event |-> (IF o = "unresolved" THEN 0 ELSE Len(events) + 1)]

\* A recorded result adds one row to the results, completes its match, and
\* adds one event when it is decided.
LEMMA RecordEffects ==
    ASSUME RowsOK, NEW m \in DOMAIN matches, NEW n \in 1 .. matches[m].attempts,
           NEW o \in Outcome,
           RecordResult([match |-> m, attempt |-> n, outcome |-> o])
    PROVE  /\ ~Recorded(m)
           /\ matches[m].state # "cancelled"
           /\ RecordedRow(m, n, o) \in Result
           /\ results' = Append(results, RecordedRow(m, n, o))
           /\ IF o = "unresolved" THEN UNCHANGED events ELSE events' = Append(events, m)
           /\ DOMAIN matches' = DOMAIN matches
           /\ matches' = [k \in DOMAIN matches' |-> matches'[k]]
           /\ \A k \in DOMAIN matches \ {m} : matches'[k] = matches[k]
           /\ Sound(matches'[m])
           /\ matches'[m].state = "completed"
           /\ matches'[m].a = matches[m].a
           /\ matches'[m].b = matches[m].b
<1> DEFINE r == [match |-> m, attempt |-> n, outcome |-> o]
<1>1. /\ Fresh(r)
      /\ results' = Append(results,
            [match |-> r.match, attempt |-> r.attempt, outcome |-> r.outcome,
             event |-> IF r.outcome = "unresolved" THEN 0 ELSE Len(events) + 1])
      /\ matches' = Completed(m)
      /\ IF o = "unresolved" THEN UNCHANGED events ELSE events' = Append(events, m)
  BY DEF RecordResult, RateResult
<1>2. ~Recorded(m) /\ matches[m].state # "cancelled"
  BY <1>1 DEF Fresh
<1>3. m \in Nat /\ matches[m].attempts \in Nat /\ Len(events) \in Nat
  <2>1. DOMAIN matches = 1 .. Len(matches) /\ Len(matches) \in Nat
    BY RowsAreSound, LenProperties
  <2>2. matches[m] \in Match
    BY RowsAreSound DEF Sound
  <2>3. Len(events) \in Nat
    BY LenProperties DEF RowsOK
  <2> QED
    BY <2>1, <2>2, <2>3 DEF Match
<1>4. n \in Nat
  BY <1>3
<1>5. RecordedRow(m, n, o) \in Result /\ results' = Append(results, RecordedRow(m, n, o))
  BY <1>1, <1>3, <1>4 DEF RecordedRow, Result
<1>6. /\ DOMAIN matches' = DOMAIN matches
      /\ matches' = [k \in DOMAIN matches' |-> matches'[k]]
      /\ \A k \in DOMAIN matches \ {m} : matches'[k] = matches[k]
      /\ matches'[m] = [matches[m] EXCEPT !.state = "completed", !.live = FALSE]
  BY <1>1, RowsAreSound DEF Completed
<1>7. matches[m] \in Match
  BY RowsAreSound DEF Sound
<1>8. /\ Sound(matches'[m])
      /\ matches'[m].state = "completed"
      /\ matches'[m].a = matches[m].a
      /\ matches'[m].b = matches[m].b
  BY <1>6, <1>7 DEF Sound, Match
<1> QED
  BY <1>1, <1>2, <1>5, <1>6, <1>8

LEMMA LogsStep ==
    ASSUME RowsOK, SchedulerOK, [LedgerNext]_ledger
    PROVE  LogsOK'
<1>1. CASE Revises
  <2>1. matches' \in Seq(Match)
    BY <1>1, RowsAreSound, UpdateRows DEF Revises, Moved, Sound
  <2> QED
    BY <1>1, <2>1 DEF Revises, Moved, Sound, LogsOK, RowsOK
<1>2. CASE Adds
  <2>1. PICK row : Untried(row) /\ matches' = Append(matches, row)
    BY <1>2 DEF Adds
  <2>2. UNCHANGED <<results, events>>
    BY <1>2 DEF Adds
  <2>3. row \in Match /\ ~row.live /\ row.state = "queued"
    BY <2>1 DEF Untried
  <2>4. /\ matches' \in Seq(Match)
        /\ DOMAIN matches' = DOMAIN matches \cup {Len(matches) + 1}
        /\ matches'[Len(matches) + 1] = row
        /\ \A i \in DOMAIN matches : matches'[i] = matches[i]
    BY <2>1, <2>3, RowsAreSound, AddRow
  <2> QED
    BY <2>2, <2>3, <2>4 DEF LogsOK, RowsOK
<1>3. CASE Records
  <2>1. PICK m, n, o :
            /\ m \in DOMAIN matches
            /\ n \in 1 .. matches[m].attempts
            /\ o \in Outcome
            /\ RecordResult([match |-> m, attempt |-> n, outcome |-> o])
    BY <1>3 DEF Records
  <2> DEFINE row == RecordedRow(m, n, o)
  <2>2. /\ row \in Result
        /\ results' = Append(results, row)
        /\ IF o = "unresolved" THEN UNCHANGED events ELSE events' = Append(events, m)
        /\ DOMAIN matches' = DOMAIN matches
        /\ matches' = [k \in DOMAIN matches' |-> matches'[k]]
        /\ \A k \in DOMAIN matches \ {m} : matches'[k] = matches[k]
        /\ Sound(matches'[m])
    BY <2>1, RecordEffects
  <2>3. \A k \in DOMAIN matches : Sound(matches'[k])
    BY <2>2, RowsAreSound
  <2>4. matches' \in Seq(Match)
    BY <2>2, <2>3, RowsAreSound, UpdateRows DEF Sound
  <2>5. /\ results \in Seq(Result)
        /\ events \in Seq(Nat)
        /\ m \in Nat
        /\ Len(events) \in Nat
        /\ Len(results) \in Nat
        /\ DOMAIN results = 1 .. Len(results)
        /\ DOMAIN events = 1 .. Len(events)
    <3>1. results \in Seq(Result) /\ events \in Seq(Nat)
      BY DEF RowsOK
    <3>2. DOMAIN matches = 1 .. Len(matches)
      BY RowsAreSound
    <3> QED
      BY <2>1, <3>1, <3>2, LenProperties
  <2>6. /\ results' \in Seq(Result)
        /\ DOMAIN results' = DOMAIN results \cup {Len(results) + 1}
        /\ results'[Len(results) + 1] = row
        /\ \A i \in DOMAIN results : results'[i] = results[i]
    BY <2>2, <2>5, AddRow
  <2>7. /\ row.match = m
        /\ row.event = (IF o = "unresolved" THEN 0 ELSE Len(events) + 1)
    BY DEF RecordedRow
  <2>8. /\ events' \in Seq(Nat)
        /\ Len(events') = (IF o = "unresolved" THEN Len(events) ELSE Len(events) + 1)
        /\ \A e \in DOMAIN events' : events'[e] \in DOMAIN matches
    <3>1. CASE o = "unresolved"
      BY <2>2, <2>5, <3>1 DEF RowsOK
    <3>2. CASE o # "unresolved"
      <4>1. /\ events' \in Seq(Nat)
            /\ Len(events') = Len(events) + 1
            /\ DOMAIN events' = DOMAIN events \cup {Len(events) + 1}
            /\ events'[Len(events) + 1] = m
            /\ \A e \in DOMAIN events : events'[e] = events[e]
        <5>1. events' = Append(events, m)
          BY <2>2, <3>2
        <5> QED
          BY <2>5, <5>1, AddRow
      <4> QED
        BY <2>1, <3>2, <4>1 DEF RowsOK
    <3> QED
      BY <3>1, <3>2
  <2>9. \A i \in DOMAIN results' :
            results'[i].match \in DOMAIN matches' /\ results'[i].event <= Len(events')
    <3>1. \A i \in DOMAIN results :
              /\ results[i].match \in DOMAIN matches
              /\ results[i].event <= Len(events)
              /\ results[i].event \in Nat
      <4>1. \A i \in DOMAIN results : results[i] \in Result
        BY <2>5, ElementOfSeq
      <4> QED
        BY <4>1 DEF RowsOK, Result
    <3>2. Len(events) <= Len(events') /\ row.event <= Len(events') /\ Len(events') \in Nat
      BY <2>5, <2>7, <2>8
    <3>3. ASSUME NEW i \in DOMAIN results
          PROVE  /\ results'[i].match \in DOMAIN matches'
                 /\ results'[i].event <= Len(events')
      BY <2>2, <2>5, <2>6, <3>1, <3>2
    <3>4. row.match \in DOMAIN matches'
      BY <2>1, <2>2, <2>7
    <3> QED
      BY <2>6, <3>2, <3>3, <3>4
  <2> QED
    BY <2>2, <2>3, <2>4, <2>6, <2>8, <2>9 DEF LogsOK, Sound
<1> QED
  BY <1>1, <1>2, <1>3, StepKinds

\* Neither an operator's call nor a worker's request moves the scheduler.
LEMMA OperatorKeepsScheduler ==
    ASSUME OperatorStep
    PROVE  UNCHANGED scheduler
<1>1. ASSUME NEW c, NEW active, SetControllerActive(c, active)
      PROVE  UNCHANGED scheduler
  BY <1>1 DEF SetControllerActive
<1>2. ASSUME NEW a, NEW b, ForceChallenge(a, b)
      PROVE  UNCHANGED scheduler
  BY <1>2 DEF ForceChallenge
<1>3. ASSUME NEW x, RegisterDeck(x) \/ RegisterController(x) \/ RebuildRatings
      PROVE  UNCHANGED scheduler
  BY <1>3 DEF RegisterDeck, RegisterController, RebuildRatings
<1> QED
  BY <1>1, <1>2, <1>3 DEF OperatorStep

LEMMA RequestKeepsScheduler ==
    ASSUME RequestStep
    PROVE  UNCHANGED scheduler
<1>1. ASSUME NEW r, SubmitResult(r)
      PROVE  UNCHANGED scheduler
  BY <1>1 DEF SubmitResult, RecordResult, ledger
<1> QED
  BY <1>1 DEF RequestStep, Grant, GrantNothing

\* The scheduler chooses pairs of declared bundles.
LEMMA SchedulerOKStep ==
    ASSUME RowsOK, SchedulerOK, [LedgerNext]_ledger
    PROVE  SchedulerOK'
<1> DEFINE Phases == {"idle", "evaluated", "measuring", "choosing", "chosen"}
<1>1. CASE UNCHANGED scheduler
  BY <1>1 DEF SchedulerOK
<1>2. CASE EvaluateCandidates \/ MakeRoom
  <2>1. \E phase \in {"evaluated", "measuring"} :
            scheduler' = [scheduler EXCEPT !.phase = phase]
    BY <1>2 DEF EvaluateCandidates, MakeRoom
  <2> QED
    BY <2>1 DEF SchedulerOK
<1>3. CASE MeasureQueue \/ ChooseNothing
  <2>1. \E phase \in {"choosing", "idle"} :
            scheduler' = [scheduler EXCEPT !.phase = phase]
    BY <1>3 DEF MeasureQueue, ChooseNothing
  <2> QED
    BY <2>1 DEF SchedulerOK
<1>4. CASE ChooseCandidate
  <2>1. PICK p \in CandidatePairs :
            scheduler' = [phase |-> "chosen",
                          pick |-> [sides |-> p, reason |-> "candidate",
                                    priority |-> CandidatePriority(p[1][1])]]
    BY <1>4 DEF ChooseCandidate
  <2>2. p \in Compatible \X Compatible
    BY DEF CandidatePairs, ActiveBundles
  <2>3. controllers[p[1][1]].decided \in Nat
    <3>1. p[1][1] \in Controller
      BY <2>2, AssetAssumption
    <3> QED
      BY <3>1 DEF RowsOK, ControllerRow
  <2>4. CandidatePriority(p[1][1]) \in Nat
    BY <2>3 DEF CandidatePriority
  <2> QED
    BY <2>1, <2>2, <2>4 DEF SchedulerOK, Pick
<1>5. CASE ChooseBackground
  <2>1. PICK p \in BackgroundPairs :
            scheduler' = [phase |-> "chosen",
                          pick |-> [sides |-> p, reason |-> "background", priority |-> 10]]
    BY <1>5 DEF ChooseBackground
  <2>2. p \in Compatible \X Compatible
    <3>1. PICK s : p = Seated(s) /\ \E a, b \in ActiveBundles : s = {a, b}
      BY <2>1 DEF BackgroundPairs
    <3>2. PICK a \in ActiveBundles, b \in ActiveBundles : s = {a, b}
      BY <3>1
    <3>3. \E q \in ActiveBundles \X ActiveBundles : {q[1], q[2]} = {a, b}
      <4>1. <<a, b>> \in ActiveBundles \X ActiveBundles
        OBVIOUS
      <4>2. {<<a, b>>[1], <<a, b>>[2]} = {a, b}
        OBVIOUS
      <4> QED
        BY <4>1, <4>2
    <3>4. p \in ActiveBundles \X ActiveBundles
      BY <3>1, <3>2, <3>3 DEF Seated
    <3> QED
      BY <3>4 DEF ActiveBundles
  <2> QED
    BY <2>1, <2>2 DEF SchedulerOK, Pick
<1>6. CASE EnqueueChosen \/ EnqueueRefused \/ Restart
  <2>1. \E phase \in {"idle", "measuring"} : scheduler' = [phase |-> phase, pick |-> <<>>]
    BY <1>6 DEF EnqueueChosen, EnqueueRefused, Restart
  <2> QED
    BY <2>1 DEF SchedulerOK
<1>7. CASE OperatorStep
  BY <1>1, <1>7, OperatorKeepsScheduler
<1>8. CASE RequestStep
  BY <1>1, <1>8, RequestKeepsScheduler
<1>9. CASE \E m \in DOMAIN matches : LeaseExpires(m)
  BY <1>1, <1>9 DEF LeaseExpires
<1>10. CASE SchedulerStep
  BY <1>2, <1>3, <1>4, <1>5, <1>6, <1>10 DEF SchedulerStep
<1>11. CASE UNCHANGED ledger
  BY <1>1, <1>11 DEF ledger
<1> QED
  BY <1>6, <1>7, <1>8, <1>9, <1>10, <1>11 DEF LedgerNext

\* The empty tables are sound, and stay sound.
LEMMA LedgerInitSound ==
    ASSUME LedgerInit
    PROVE  RowsOK /\ SchedulerOK
<1>1. /\ matches = <<>> /\ results = <<>> /\ events = <<>>
      /\ \A S : <<>> \in Seq(S)
      /\ DOMAIN matches = {} /\ DOMAIN results = {} /\ DOMAIN events = {}
  BY DEF LedgerInit
<1>2. AssetsOK
  BY DEF LedgerInit, AssetsOK, ControllerRow
<1>3. LogsOK
  BY <1>1 DEF LogsOK
<1>4. SchedulerOK
  BY DEF LedgerInit, SchedulerOK
<1> QED
  BY <1>2, <1>3, <1>4, RowsAreAssetsAndLogs

LEMMA RowsStep ==
    ASSUME RowsOK, SchedulerOK, [LedgerNext]_ledger
    PROVE  RowsOK' /\ SchedulerOK'
<1>1. AssetsOK' /\ LogsOK'
  BY AssetsStep, LogsStep, RowsAreAssetsAndLogs
<1>2. RowsOK'
  BY <1>1 DEF RowsOK, AssetsOK, LogsOK
<1> QED
  BY <1>2, SchedulerOKStep

\* Whatever is called in whatever order, the tables hold rows of their schema,
\* a result and an event refer to a match, a running lease to a leased match,
\* and the scheduler's pick to declared bundles (LedgerTypeOK without the
\* ratings).
THEOREM RowsAreOfTheirSchema == LedgerSpec => [](RowsOK /\ SchedulerOK)
<1>1. LedgerInit => RowsOK /\ SchedulerOK
  BY LedgerInitSound
<1>2. RowsOK /\ SchedulerOK /\ [LedgerNext]_ledger => (RowsOK /\ SchedulerOK)'
  BY RowsStep
<1> QED
  BY <1>1, <1>2, PTL DEF LedgerSpec

-----------------------------------------------------------------------------
(* Bundles and queue *)

\* Bundles keep following their controllers.
LEMMA BundlesFollowStep ==
    ASSUME AssetsOK, BundlesFollowController, [LedgerNext]_ledger
    PROVE  BundlesFollowController'
<1> USE AssetAssumption DEF BundlesFollowController, BundleFlag, Known, AssetsOK
<1>1. CASE UNCHANGED <<controllers, decks, bundles>>
  BY <1>1
<1>2. CASE EvaluateCandidates
  <2>1. PICK accepted \in SUBSET Candidates, rejected \in SUBSET Candidates :
              /\ accepted \cap rejected = {}
              /\ controllers' = [c \in Controller |->
                    CASE c \in accepted -> [controllers[c] EXCEPT !.state = "incumbent"]
                      [] c \in rejected ->
                            [controllers[c] EXCEPT !.state = "rejected", !.active = FALSE]
                      [] OTHER -> controllers[c]]
              /\ bundles' = [b \in Compatible |->
                    IF b[1] \in rejected THEN Flagged(rejected, FALSE)[b]
                                         ELSE Flagged(accepted, TRUE)[b]]
              /\ decks' = decks
    BY <1>2, Judgement
  <2> SUFFICES ASSUME NEW b \in Compatible
               PROVE  bundles'[b] = IF controllers'[b[1]].state # "absent" /\ b[2] \in decks'
                                    THEN (IF controllers'[b[1]].active
                                          THEN "active" ELSE "inactive")
                                    ELSE "absent"
    OBVIOUS
  <2>2. /\ b[1] \in Controller
        /\ controllers[b[1]] \in ControllerRow
        /\ b[1] \in Candidates =>
              controllers[b[1]].state = "candidate" /\ controllers[b[1]].active
    BY DEF Candidates
  <2>3. CASE b[1] \in rejected
    <3>1. /\ bundles'[b] = Flagged(rejected, FALSE)[b]
          /\ controllers'[b[1]] =
                [controllers[b[1]] EXCEPT !.state = "rejected", !.active = FALSE]
      BY <2>1, <2>2, <2>3
    <3> QED
      BY <2>1, <2>2, <2>3, <3>1 DEF Flagged, ControllerRow
  <2>4. CASE b[1] \in accepted
    <3>1. /\ bundles'[b] = Flagged(accepted, TRUE)[b]
          /\ controllers'[b[1]] = [controllers[b[1]] EXCEPT !.state = "incumbent"]
      BY <2>1, <2>2, <2>4
    <3> QED
      BY <2>1, <2>2, <2>4, <3>1 DEF Flagged, ControllerRow
  <2>5. CASE b[1] \notin rejected \cup accepted
    <3>1. /\ bundles'[b] = Flagged(accepted, TRUE)[b]
          /\ controllers'[b[1]] = controllers[b[1]]
      BY <2>1, <2>2, <2>5
    <3> QED
      BY <2>1, <2>5, <3>1 DEF Flagged
  <2> QED
    BY <2>3, <2>4, <2>5
<1>3. ASSUME NEW d \in Deck, RegisterDeck(d)
      PROVE  BundlesFollowController'
  BY <1>3 DEF RegisterDeck
<1>4. ASSUME NEW c \in Controller, RegisterController(c)
      PROVE  BundlesFollowController'
  BY <1>4 DEF RegisterController, InitialState
<1>5. ASSUME NEW c \in Controller, NEW active \in BOOLEAN, SetControllerActive(c, active)
      PROVE  BundlesFollowController'
  BY <1>5 DEF SetControllerActive, Flagged, ControllerRow
<1>6. CASE Records
  BY <1>6, RecordKeepsControllers
<1> QED
  BY <1>1, <1>2, <1>3, <1>4, <1>5, <1>6, AssetSteps

\* Whatever the order of registrations, disabling, restoring and judgements,
\* every declared pair is a bundle with the flag of its controller.
THEOREM BundlesFollow == LedgerSpec => []BundlesFollowController
<1>1. LedgerInit => BundlesFollowController
  BY AssetAssumption DEF LedgerInit, BundlesFollowController, Known
<1>2. RowsOK /\ SchedulerOK /\ BundlesFollowController /\ [LedgerNext]_ledger
          => BundlesFollowController'
  BY BundlesFollowStep, RowsAreAssetsAndLogs
<1> QED
  BY <1>1, <1>2, RowsAreOfTheirSchema, PTL DEF LedgerSpec

\* No step deactivates a bundle and leaves an untried match of it queued.
LEMMA UntriedStep ==
    ASSUME RowsOK, SchedulerOK, UntriedMatchesAreActive, [LedgerNext]_ledger
    PROVE  UntriedMatchesAreActive'
<1>1. CASE UNCHANGED bundles
  <2>1. CASE Revises
    BY <1>1, <2>1 DEF Revises, Moved, UntriedMatchesAreActive, Sides
  <2>2. CASE Adds
    <3>1. PICK row : Untried(row) /\ matches' = Append(matches, row)
      BY <2>2 DEF Adds
    <3>2. /\ DOMAIN matches' = DOMAIN matches \cup {Len(matches) + 1}
          /\ matches'[Len(matches) + 1] = row
          /\ \A i \in DOMAIN matches : matches'[i] = matches[i]
      BY <3>1, RowsAreSound, AddRow DEF Untried
    <3> QED
      BY <1>1, <3>1, <3>2 DEF Untried, Playable, UntriedMatchesAreActive, Sides
  <2>3. CASE Records
    <3>1. PICK m, n, o :
              /\ m \in DOMAIN matches
              /\ n \in 1 .. matches[m].attempts
              /\ o \in Outcome
              /\ RecordResult([match |-> m, attempt |-> n, outcome |-> o])
      BY <2>3 DEF Records
    <3>2. /\ DOMAIN matches' = DOMAIN matches
          /\ \A k \in DOMAIN matches \ {m} : matches'[k] = matches[k]
          /\ matches'[m].state = "completed"
      BY <3>1, RecordEffects
    <3> QED
      BY <1>1, <3>1, <3>2 DEF UntriedMatchesAreActive, Sides
  <2> QED
    BY <2>1, <2>2, <2>3, StepKinds
<1>2. ASSUME NEW C, matches' = Withdrawn(C),
             \A b \in Compatible :
                 bundles[b] = "active" /\ b[1] \notin C => bundles'[b] = "active"
      PROVE  UntriedMatchesAreActive'
  <2>1. DOMAIN matches' = DOMAIN matches
    BY <1>2 DEF Withdrawn
  <2> SUFFICES ASSUME NEW m \in DOMAIN matches,
                      matches'[m].state = "queued", matches'[m].attempts = 0,
                      NEW s \in Sides(m)'
               PROVE  bundles'[s] = "active"
    BY <2>1 DEF UntriedMatchesAreActive
  <2>2. matches[m] \in Match
    BY RowsAreSound DEF Sound
  <2>3. matches'[m] = matches[m] /\ ~\E c \in C : Plays(m, c)
    BY <1>2, <2>2 DEF Withdrawn, Match
  <2>4. s \in Sides(m) /\ s \in Compatible
    BY <2>2, <2>3 DEF Sides, Match
  <2> QED
    BY <1>2, <2>3, <2>4 DEF UntriedMatchesAreActive, Plays
<1>3. ASSUME \A b \in Compatible : bundles[b] = "active" => bundles'[b] = "active",
             UNCHANGED matches
      PROVE  UntriedMatchesAreActive'
  <2>1. \A m \in DOMAIN matches : Sides(m) \subseteq Compatible
    BY RowsAreSound DEF Sound, Match, Sides
  <2> QED
    BY <1>3, <2>1 DEF UntriedMatchesAreActive, Sides
<1>4. CASE EvaluateCandidates
  <2>1. PICK accepted \in SUBSET Candidates, rejected \in SUBSET Candidates :
              /\ bundles' = [b \in Compatible |->
                    IF b[1] \in rejected THEN Flagged(rejected, FALSE)[b]
                                         ELSE Flagged(accepted, TRUE)[b]]
              /\ matches' = Withdrawn(rejected)
    BY <1>4, Judgement
  <2>2. \A b \in Compatible :
            bundles[b] = "active" /\ b[1] \notin rejected => bundles'[b] = "active"
    BY <2>1 DEF Flagged
  <2> QED
    BY <1>2, <2>1, <2>2
<1>5. ASSUME NEW d \in Deck, RegisterDeck(d)
      PROVE  UntriedMatchesAreActive'
  BY <1>3, <1>5 DEF RegisterDeck
<1>6. ASSUME NEW c \in Controller, RegisterController(c)
      PROVE  UntriedMatchesAreActive'
  BY <1>3, <1>6 DEF RegisterController
<1>7. ASSUME NEW c \in Controller, NEW active \in BOOLEAN, SetControllerActive(c, active)
      PROVE  UntriedMatchesAreActive'
  <2>1. CASE active
    BY <1>3, <1>7, <2>1 DEF SetControllerActive, Flagged
  <2>2. CASE ~active
    <3>1. matches' = Withdrawn({c})
      BY <1>7, <2>2 DEF SetControllerActive
    <3>2. \A b \in Compatible :
              bundles[b] = "active" /\ b[1] \notin {c} => bundles'[b] = "active"
      BY <1>7 DEF SetControllerActive, Flagged
    <3> QED
      BY <1>2, <3>1, <3>2
  <2> QED
    BY <2>1, <2>2
<1>8. CASE Records
  BY <1>1, <1>8, RecordKeepsControllers, RowsAreAssetsAndLogs
<1> QED
  BY <1>1, <1>4, <1>5, <1>6, <1>7, <1>8, AssetSteps

\* A match nobody has tried is between active bundles, although the scheduler
\* reads, chooses and enqueues in transactions of their own.
THEOREM UntriedAreActive == LedgerSpec => []UntriedMatchesAreActive
<1>1. LedgerInit => UntriedMatchesAreActive
  BY DEF LedgerInit, UntriedMatchesAreActive
<1>2. RowsOK /\ SchedulerOK /\ UntriedMatchesAreActive /\ [LedgerNext]_ledger
          => UntriedMatchesAreActive'
  BY UntriedStep
<1> QED
  BY <1>1, <1>2, RowsAreOfTheirSchema, PTL DEF LedgerSpec

-----------------------------------------------------------------------------
(* Results *)

\* No step records a second result of a match, or an event without a result.
LEMMA CountsOnceStep ==
    ASSUME RowsOK, SchedulerOK, ResultCountsOnce, [LedgerNext]_ledger
    PROVE  ResultCountsOnce'
<1>1. CASE Revises
  <2>1. \A m : Recorded(m)' <=> Recorded(m)
    BY <1>1 DEF Revises, Recorded
  <2>2. \A m \in DOMAIN matches' : matches'[m].state = "completed" <=> Recorded(m)'
    BY <1>1, <2>1 DEF Revises, Moved, ResultCountsOnce
  <2> QED
    BY <1>1, <2>2 DEF Revises, ResultCountsOnce
<1>2. CASE Adds
  <2>1. PICK row : Untried(row) /\ matches' = Append(matches, row)
    BY <1>2 DEF Adds
  <2>2. /\ DOMAIN matches' = DOMAIN matches \cup {Len(matches) + 1}
        /\ matches'[Len(matches) + 1] = row
        /\ Len(matches) + 1 \notin DOMAIN matches
        /\ \A i \in DOMAIN matches : matches'[i] = matches[i]
    BY <2>1, RowsAreSound, AddRow DEF Untried
  <2>3. UNCHANGED <<results, events>>
    BY <1>2 DEF Adds
  <2>4. ~Recorded(Len(matches) + 1)
    BY <2>2 DEF Recorded, RowsOK
  <2>5. \A m : Recorded(m)' <=> Recorded(m)
    BY <2>3 DEF Recorded
  <2>6. \A m \in DOMAIN matches' : matches'[m].state = "completed" <=> Recorded(m)'
    BY <2>1, <2>2, <2>4, <2>5 DEF ResultCountsOnce, Untried
  <2> QED
    BY <2>3, <2>6 DEF ResultCountsOnce
<1>3. CASE Records
  <2>1. PICK m, n, o :
            /\ m \in DOMAIN matches
            /\ n \in 1 .. matches[m].attempts
            /\ o \in Outcome
            /\ RecordResult([match |-> m, attempt |-> n, outcome |-> o])
    BY <1>3 DEF Records
  <2> DEFINE row == RecordedRow(m, n, o)
             i0  == Len(results) + 1
  <2>2. /\ ~Recorded(m)
        /\ row \in Result
        /\ results' = Append(results, row)
        /\ IF o = "unresolved" THEN UNCHANGED events ELSE events' = Append(events, m)
        /\ DOMAIN matches' = DOMAIN matches
        /\ \A k \in DOMAIN matches \ {m} : matches'[k] = matches[k]
        /\ matches'[m].state = "completed"
    BY <2>1, RecordEffects
  <2>3. /\ results \in Seq(Result)
        /\ events \in Seq(Nat)
        /\ m \in Nat
    <3>1. results \in Seq(Result) /\ events \in Seq(Nat)
      BY DEF RowsOK
    <3>2. DOMAIN matches = 1 .. Len(matches)
      BY RowsAreSound
    <3> QED
      BY <2>1, <3>1, <3>2
  <2>4. /\ DOMAIN results' = DOMAIN results \cup {i0}
        /\ i0 \notin DOMAIN results
        /\ results'[i0] = row
        /\ \A i \in DOMAIN results : results'[i] = results[i]
    BY <2>2, <2>3, AddRow
  <2>5. /\ row.match = m
        /\ row.outcome = o
        /\ row.event = (IF o = "unresolved" THEN 0 ELSE Len(events) + 1)
    BY DEF RecordedRow
  <2>6. \A k : Recorded(k)' <=> Recorded(k) \/ k = m
    BY <2>4, <2>5 DEF Recorded
  <2>7. \A k \in DOMAIN matches' : matches'[k].state = "completed" <=> Recorded(k)'
    BY <2>1, <2>2, <2>6 DEF ResultCountsOnce
  <2>8. \A i, j \in DOMAIN results' : results'[i].match = results'[j].match => i = j
    <3>1. \A i \in DOMAIN results : results[i].match # m
      BY <2>2 DEF Recorded
    <3> QED
      BY <2>4, <2>5, <3>1 DEF ResultCountsOnce
  <2>9. /\ \A e \in DOMAIN events : e \in DOMAIN events' /\ events'[e] = events[e]
        /\ o # "unresolved" => /\ DOMAIN events' = DOMAIN events \cup {Len(events) + 1}
                               /\ events'[Len(events) + 1] = m
        /\ o = "unresolved" => DOMAIN events' = DOMAIN events
    <3>1. CASE o = "unresolved"
      BY <2>2, <3>1
    <3>2. CASE o # "unresolved"
      <4>1. events' = Append(events, m)
        BY <2>2, <3>2
      <4> QED
        BY <2>3, <3>2, <4>1, AddRow
    <3> QED
      BY <3>1, <3>2
  <2>10. \A i \in DOMAIN results' :
            IF results'[i].outcome = "unresolved" THEN results'[i].event = 0
            ELSE /\ results'[i].event \in DOMAIN events'
                 /\ events'[results'[i].event] = results'[i].match
    <3>1. ASSUME NEW i \in DOMAIN results
          PROVE  IF results'[i].outcome = "unresolved" THEN results'[i].event = 0
                 ELSE /\ results'[i].event \in DOMAIN events'
                      /\ events'[results'[i].event] = results'[i].match
      BY <2>4, <2>9 DEF ResultCountsOnce
    <3> QED
      BY <2>4, <2>5, <2>9, <3>1
  <2>11. \A e \in DOMAIN events' : \E i \in DOMAIN results' : results'[i].event = e
    <3>1. \A e \in DOMAIN events : \E i \in DOMAIN results' : results'[i].event = e
      BY <2>4 DEF ResultCountsOnce
    <3> QED
      BY <2>4, <2>5, <2>9, <3>1
  <2> QED
    BY <2>7, <2>8, <2>10, <2>11 DEF ResultCountsOnce
<1> QED
  BY <1>1, <1>2, <1>3, StepKinds

\* However often a match is leased, given up, leased again and reported, it
\* counts once.
THEOREM CountsOnce == LedgerSpec => []ResultCountsOnce
<1>1. LedgerInit => ResultCountsOnce
  BY DEF LedgerInit, ResultCountsOnce
<1>2. RowsOK /\ SchedulerOK /\ ResultCountsOnce /\ [LedgerNext]_ledger
          => ResultCountsOnce'
  BY CountsOnceStep
<1> QED
  BY <1>1, <1>2, RowsAreOfTheirSchema, PTL DEF LedgerSpec

\* What is finished stays finished.
THEOREM FinalStaysFinal == LedgerSpec => HistoryIsFinal
<1> DEFINE Final ==
        /\ \A m \in DOMAIN matches :
              matches[m].state \in {"completed", "cancelled"} =>
                  matches'[m].state = matches[m].state
        /\ \A i \in DOMAIN results : results'[i] = results[i]
        /\ \A e \in DOMAIN events : events'[e] = events[e]
        /\ \A c \in Controller :
              controllers[c].state \in {"incumbent", "rejected", "anchor"} =>
                  controllers'[c].state = controllers[c].state
<1>1. RowsOK /\ SchedulerOK /\ [LedgerNext]_ledger => [Final]_ledger
  <2> SUFFICES ASSUME RowsOK, SchedulerOK, [LedgerNext]_ledger
               PROVE  Final
    OBVIOUS
  <2>1. \A c \in Controller :
            controllers[c].state \in {"incumbent", "rejected", "anchor"} =>
                controllers'[c].state = controllers[c].state
    BY AssetsStep, RowsAreAssetsAndLogs DEF AssetsLast
  <2>2. CASE Revises
    BY <2>1, <2>2 DEF Revises, Moved
  <2>3. CASE Adds
    <3>1. PICK row : Untried(row) /\ matches' = Append(matches, row)
      BY <2>3 DEF Adds
    <3>2. \A i \in DOMAIN matches : matches'[i] = matches[i]
      BY <3>1, RowsAreSound, AddRow DEF Untried
    <3>3. UNCHANGED <<results, events>>
      BY <2>3 DEF Adds
    <3> QED
      BY <2>1, <3>2, <3>3
  <2>4. CASE Records
    <3>1. PICK m, n, o :
              /\ m \in DOMAIN matches
              /\ n \in 1 .. matches[m].attempts
              /\ o \in Outcome
              /\ RecordResult([match |-> m, attempt |-> n, outcome |-> o])
      BY <2>4 DEF Records
    <3>2. /\ matches[m].state # "cancelled"
          /\ RecordedRow(m, n, o) \in Result
          /\ results' = Append(results, RecordedRow(m, n, o))
          /\ IF o = "unresolved" THEN UNCHANGED events ELSE events' = Append(events, m)
          /\ \A k \in DOMAIN matches \ {m} : matches'[k] = matches[k]
          /\ matches'[m].state = "completed"
      BY <3>1, RecordEffects
    <3>3. results \in Seq(Result) /\ events \in Seq(Nat) /\ m \in Nat
      <4>1. results \in Seq(Result) /\ events \in Seq(Nat)
        BY DEF RowsOK
      <4>2. DOMAIN matches = 1 .. Len(matches)
        BY RowsAreSound
      <4> QED
        BY <3>1, <4>1, <4>2
    <3>4. \A i \in DOMAIN results : results'[i] = results[i]
      BY <3>2, <3>3, AddRow
    <3>5. \A e \in DOMAIN events : events'[e] = events[e]
      <4>1. CASE o = "unresolved"
        BY <3>2, <4>1
      <4>2. CASE o # "unresolved"
        <5>1. events' = Append(events, m)
          BY <3>2, <4>2
        <5> QED
          BY <3>3, <5>1, AddRow
      <4> QED
        BY <4>1, <4>2
    <3> QED
      BY <2>1, <3>2, <3>4, <3>5
  <2> QED
    BY <2>2, <2>3, <2>4, StepKinds
<1> QED
  BY <1>1, RowsAreOfTheirSchema, PTL DEF LedgerSpec, HistoryIsFinal

-----------------------------------------------------------------------------
(* The queue's target *)

\* the scheduler's own part of the queue
Own == {m \in Pending : matches[m].reason # "forced"}

\* while the scheduler chooses, there is room for one more
RoomToChoose ==
    scheduler.phase \in {"choosing", "chosen"} => Cardinality(Own) < QueueTarget

LEMMA PendingIsFinite ==
    ASSUME RowsOK
    PROVE  /\ IsFiniteSet(Pending)
           /\ IsFiniteSet(Own)
           /\ Cardinality(Own) \in Nat
           /\ Cardinality(Own) <= Cardinality(Pending)
           /\ Cardinality(Pending) \in Nat
<1>1. DOMAIN matches = 1 .. Len(matches) /\ Len(matches) \in Nat
  BY RowsAreSound, LenProperties
<1>2. IsFiniteSet(DOMAIN matches)
  BY <1>1, FS_Interval
<1>3. Pending \in SUBSET DOMAIN matches /\ Own \in SUBSET Pending
  BY DEF Pending, Own
<1>4. IsFiniteSet(Pending)
  BY <1>2, <1>3, FS_Subset
<1> QED
  BY <1>3, <1>4, FS_Subset, FS_CardinalityType

\* Only the scheduler's enqueue adds to its part of the queue: what expires,
\* is leased again or is reported was in the queue already.
LEMMA OwnStep ==
    ASSUME RowsOK, SchedulerOK, [LedgerNext]_ledger
    PROVE  \/ Own' \subseteq Own
           \/ /\ Own' \subseteq Own \cup {Len(matches) + 1}
              /\ scheduler.phase = "chosen"
              /\ scheduler'.phase = "measuring"
<1>1. CASE Revises
  <2>1. ASSUME NEW m \in DOMAIN matches, matches'[m].state \in {"queued", "leased"}
        PROVE  matches[m].state \in {"queued", "leased"}
    <3>1. Moved(matches[m], matches'[m]) /\ matches[m] \in Match
      BY <1>1, RowsAreSound DEF Revises, Sound
    <3> QED
      BY <2>1, <3>1 DEF Moved, Match
  <2>2. \A m \in DOMAIN matches : matches'[m].reason = matches[m].reason
    BY <1>1 DEF Revises, Moved
  <2>3. DOMAIN matches' = DOMAIN matches
    BY <1>1 DEF Revises
  <2> QED
    BY <2>1, <2>2, <2>3 DEF Own, Pending
<1>2. CASE Adds
  <2>1. PICK row :
            /\ Untried(row)
            /\ matches' = Append(matches, row)
            /\ \/ row.reason = "forced"
               \/ scheduler.phase = "chosen" /\ scheduler'.phase = "measuring"
    BY <1>2 DEF Adds
  <2>2. /\ DOMAIN matches' = DOMAIN matches \cup {Len(matches) + 1}
        /\ matches'[Len(matches) + 1] = row
        /\ \A i \in DOMAIN matches : matches'[i] = matches[i]
    BY <2>1, RowsAreSound, AddRow DEF Untried
  <2>3. CASE row.reason = "forced"
    BY <2>2, <2>3 DEF Own, Pending
  <2>4. CASE row.reason # "forced"
    BY <2>1, <2>2, <2>4 DEF Own, Pending
  <2> QED
    BY <2>3, <2>4
<1>3. CASE Records
  <2>1. PICK m, n, o :
            /\ m \in DOMAIN matches
            /\ n \in 1 .. matches[m].attempts
            /\ o \in Outcome
            /\ RecordResult([match |-> m, attempt |-> n, outcome |-> o])
    BY <1>3 DEF Records
  <2>2. /\ DOMAIN matches' = DOMAIN matches
        /\ \A k \in DOMAIN matches \ {m} : matches'[k] = matches[k]
        /\ matches'[m].state = "completed"
    BY <2>1, RecordEffects
  <2> QED
    BY <2>2 DEF Own, Pending
<1> QED
  BY <1>1, <1>2, <1>3, StepKinds

\* The scheduler goes on to choose only where it measured room.
LEMMA PhaseStep ==
    ASSUME SchedulerOK, [LedgerNext]_ledger, scheduler'.phase \in {"choosing", "chosen"}
    PROVE  \/ scheduler.phase \in {"choosing", "chosen"}
           \/ Depth < QueueTarget /\ UNCHANGED matches
<1>1. CASE UNCHANGED scheduler
  BY <1>1
<1>2. CASE EvaluateCandidates \/ MakeRoom
  <2>1. scheduler'.phase \in {"evaluated", "measuring"}
    BY <1>2 DEF EvaluateCandidates, MakeRoom, SchedulerOK
  <2> QED
    BY <2>1
<1>3. CASE MeasureQueue
  BY <1>3 DEF MeasureQueue, SchedulerOK, tables
<1>4. CASE ChooseCandidate \/ ChooseBackground \/ ChooseNothing
  BY <1>4 DEF ChooseCandidate, ChooseBackground, ChooseNothing
<1>5. CASE EnqueueChosen \/ EnqueueRefused \/ Restart
  BY <1>5 DEF EnqueueChosen, EnqueueRefused, Restart
<1>6. CASE OperatorStep
  BY <1>1, <1>6, OperatorKeepsScheduler
<1>7. CASE RequestStep
  BY <1>1, <1>7, RequestKeepsScheduler
<1>8. CASE \E m \in DOMAIN matches : LeaseExpires(m)
  BY <1>1, <1>8 DEF LeaseExpires
<1>9. CASE SchedulerStep
  BY <1>2, <1>3, <1>4, <1>5, <1>9 DEF SchedulerStep
<1>10. CASE UNCHANGED ledger
  BY <1>1, <1>10 DEF ledger
<1> QED
  BY <1>5, <1>6, <1>7, <1>8, <1>9, <1>10 DEF LedgerNext

\* The scheduler's part of the queue stays within the target: it measures,
\* chooses and enqueues in three transactions, and nothing that happens in
\* between can fill the room it measured.
THEOREM QueueStaysWithinTarget == LedgerSpec => []QueueWithinTarget
<1>1. LedgerInit => QueueWithinTarget /\ RoomToChoose
  <2> SUFFICES ASSUME LedgerInit PROVE QueueWithinTarget /\ RoomToChoose
    OBVIOUS
  <2>1. Own = {}
    BY DEF LedgerInit, Own, Pending
  <2>2. Cardinality(Own) = 0
    BY <2>1, FS_EmptySet
  <2> QED
    BY <2>2, GateAssumption DEF QueueWithinTarget, RoomToChoose, Own
<1>2. /\ RowsOK /\ SchedulerOK /\ RowsOK'
      /\ QueueWithinTarget /\ RoomToChoose
      /\ [LedgerNext]_ledger
      => QueueWithinTarget' /\ RoomToChoose'
  <2> SUFFICES ASSUME RowsOK, SchedulerOK, RowsOK', QueueWithinTarget, RoomToChoose,
                      [LedgerNext]_ledger
               PROVE  QueueWithinTarget' /\ RoomToChoose'
    OBVIOUS
  <2> DEFINE k == Len(matches) + 1
  <2>1. /\ IsFiniteSet(Own)
        /\ Cardinality(Own) \in Nat
        /\ Cardinality(Own) <= Cardinality(Pending)
        /\ Cardinality(Pending) \in Nat
    BY PendingIsFinite
  <2>2. Cardinality(Own) <= QueueTarget
    BY DEF QueueWithinTarget, Own
  <2>3. CASE Own' \subseteq Own
    <3>1. Cardinality(Own') <= Cardinality(Own) /\ Cardinality(Own') \in Nat
      BY <2>1, <2>3, FS_Subset, FS_CardinalityType
    <3>2. QueueWithinTarget'
      BY <2>1, <2>2, <3>1, GateAssumption DEF QueueWithinTarget, Own
    <3>3. ASSUME scheduler'.phase \in {"choosing", "chosen"}
          PROVE  Cardinality(Own') < QueueTarget
      <4>1. CASE scheduler.phase \in {"choosing", "chosen"}
        BY <2>1, <3>1, <4>1, GateAssumption DEF RoomToChoose
      <4>2. CASE Depth < QueueTarget
        BY <2>1, <3>1, <4>2, GateAssumption DEF Depth
      <4> QED
        BY <3>3, <4>1, <4>2, PhaseStep
    <3> QED
      BY <3>2, <3>3 DEF RoomToChoose
  <2>4. CASE /\ Own' \subseteq Own \cup {k}
             /\ scheduler.phase = "chosen"
             /\ scheduler'.phase = "measuring"
    <3>1. /\ IsFiniteSet(Own \cup {k})
          /\ Cardinality(Own \cup {k}) <= Cardinality(Own) + 1
          /\ Cardinality(Own \cup {k}) \in Nat
      <4>1. /\ IsFiniteSet(Own \cup {k})
            /\ \/ Cardinality(Own \cup {k}) = Cardinality(Own)
               \/ Cardinality(Own \cup {k}) = Cardinality(Own) + 1
        BY <2>1, FS_AddElement, Zenon
      <4> HIDE DEF Own, k
      <4> QED
        BY <2>1, <4>1
    <3>2. Cardinality(Own') <= Cardinality(Own \cup {k}) /\ Cardinality(Own') \in Nat
      BY <2>4, <3>1, FS_Subset, FS_CardinalityType
    <3>3. Cardinality(Own) < QueueTarget
      BY <2>4 DEF RoomToChoose
    <3>4. Cardinality(Own') <= QueueTarget
      BY <2>1, <3>1, <3>2, <3>3, GateAssumption
    <3> QED
      BY <2>4, <3>4 DEF QueueWithinTarget, RoomToChoose, Own
  <2> QED
    BY <2>3, <2>4, OwnStep
<1> QED
  BY <1>1, <1>2, RowsAreOfTheirSchema, PTL DEF LedgerSpec

\* What the scheduler adds from a stale reading keeps the queue sound.
THEOREM QueueStaysSound == LedgerSpec => []QueueIsSound
<1>1. UntriedMatchesAreActive /\ QueueWithinTarget => QueueIsSound
  BY DEF QueueIsSound
<1> QED
  BY <1>1, UntriedAreActive, QueueStaysWithinTarget, PTL

-----------------------------------------------------------------------------
(* The games of a candidate *)

\* every match is between bundles that exist
SidesAreBundles == \A m \in DOMAIN matches : \A s \in Sides(m) : bundles[s] # "absent"

\* the rated games a controller plays in
Games(c) == {e \in DOMAIN events : Plays(events[e], c)}

\* No step changes who plays a match.
LEMMA SidesStay ==
    ASSUME RowsOK, SchedulerOK, [LedgerNext]_ledger, NEW m \in DOMAIN matches
    PROVE  /\ m \in DOMAIN matches'
           /\ matches'[m].a = matches[m].a
           /\ matches'[m].b = matches[m].b
           /\ Sides(m)' = Sides(m)
<1>1. CASE Revises
  BY <1>1 DEF Revises, Moved, Sides
<1>2. CASE Adds
  <2>1. PICK row : Untried(row) /\ matches' = Append(matches, row)
    BY <1>2 DEF Adds
  <2>2. m \in DOMAIN matches' /\ matches'[m] = matches[m]
    BY <2>1, RowsAreSound, AddRow DEF Untried
  <2> QED
    BY <2>2 DEF Sides
<1>3. CASE Records
  <2>1. PICK k, n, o :
            /\ k \in DOMAIN matches
            /\ n \in 1 .. matches[k].attempts
            /\ o \in Outcome
            /\ RecordResult([match |-> k, attempt |-> n, outcome |-> o])
    BY <1>3 DEF Records
  <2>2. /\ DOMAIN matches' = DOMAIN matches
        /\ matches'[m].a = matches[m].a
        /\ matches'[m].b = matches[m].b
    BY <2>1, RecordEffects
  <2> QED
    BY <2>2 DEF Sides
<1> QED
  BY <1>1, <1>2, <1>3, StepKinds

\* Matches are queued between bundles, and bundles stay.
LEMMA SidesAreBundlesStep ==
    ASSUME RowsOK, SchedulerOK, SidesAreBundles, [LedgerNext]_ledger
    PROVE  SidesAreBundles'
<1>1. \A b \in Compatible : bundles[b] # "absent" => bundles'[b] # "absent"
  BY AssetsStep, RowsAreAssetsAndLogs DEF AssetsLast
<1>2. ASSUME NEW m \in DOMAIN matches
      PROVE  \A s \in Sides(m)' : bundles'[s] # "absent"
  <2>1. Sides(m)' = Sides(m) /\ Sides(m) \subseteq Compatible
    BY SidesStay, RowsAreSound DEF Sound, Match, Sides
  <2> QED
    BY <1>1, <2>1 DEF SidesAreBundles
<1>3. CASE DOMAIN matches' = DOMAIN matches
  BY <1>2, <1>3 DEF SidesAreBundles
<1>4. CASE Adds
  <2>1. PICK row : Untried(row) /\ matches' = Append(matches, row)
    BY <1>4 DEF Adds
  <2>2. PICK k : /\ DOMAIN matches' = DOMAIN matches \cup {k}
                 /\ matches'[k] = row
    BY <2>1, RowsAreSound, AddRow DEF Untried
  <2>3. /\ row.a \in Compatible /\ bundles[row.a] = "active"
        /\ row.b \in Compatible /\ bundles[row.b] = "active"
    BY <2>1 DEF Untried, Playable, Match
  <2>4. \A s \in Sides(k)' : bundles'[s] # "absent"
    BY <1>1, <2>2, <2>3 DEF Sides
  <2> QED
    BY <1>2, <2>2, <2>4 DEF SidesAreBundles
<1>5. CASE Records
  <2>1. PICK k, n, o :
            /\ k \in DOMAIN matches
            /\ n \in 1 .. matches[k].attempts
            /\ o \in Outcome
            /\ RecordResult([match |-> k, attempt |-> n, outcome |-> o])
    BY <1>5 DEF Records
  <2> QED
    BY <1>3, <2>1, RecordEffects
<1> QED
  BY <1>3, <1>4, <1>5, StepKinds DEF Revises

\* What happens to the games and the count of a controller that is a candidate
\* after the step.
LEMMA CandidateStep ==
    ASSUME RowsOK, SchedulerOK, SidesAreBundles, BundlesFollowController,
           [LedgerNext]_ledger, NEW c \in Controller, controllers'[c].state = "candidate"
    PROVE  \/ /\ ~Known(c)
              /\ controllers'[c].decided = 0
              /\ Games(c)' = {}
           \/ /\ controllers[c].state = "candidate"
              /\ controllers'[c].decided = controllers[c].decided
              /\ Games(c)' = Games(c)
           \/ /\ controllers[c].state = "candidate"
              /\ controllers'[c].decided = controllers[c].decided + 1
              /\ Games(c)' = Games(c) \cup {Len(events) + 1}
              /\ Len(events) + 1 \notin Games(c)
<1>1. \A e \in DOMAIN events : events[e] \in DOMAIN matches
  BY DEF RowsOK
<1>2. \A m \in DOMAIN matches : Plays(m, c)' <=> Plays(m, c)
  BY SidesStay DEF Plays
<1>3. controllers \in [Controller -> ControllerRow]
  BY DEF RowsOK
<1>4. CASE Records
  <2>1. PICK m, n, o :
            /\ m \in DOMAIN matches
            /\ n \in 1 .. matches[m].attempts
            /\ o \in Outcome
            /\ RecordResult([match |-> m, attempt |-> n, outcome |-> o])
    BY <1>4 DEF Records
  <2>2. CASE o = "unresolved"
    <3>1. UNCHANGED <<controllers, events>>
      BY <2>1, <2>2 DEF RecordResult
    <3>2. Games(c)' = Games(c)
      BY <1>1, <1>2, <3>1 DEF Games
    <3> QED
      BY <3>1, <3>2
  <2>3. CASE o # "unresolved"
    <3>1. controllers' = Counted(m) /\ events' = Append(events, m)
      BY <2>1, <2>3 DEF RecordResult, RateResult
    <3>2. events \in Seq(Nat) /\ m \in Nat
      <4>1. DOMAIN matches = 1 .. Len(matches)
        BY RowsAreSound
      <4> QED
        BY <2>1, <4>1 DEF RowsOK
    <3>3. /\ DOMAIN events' = DOMAIN events \cup {Len(events) + 1}
          /\ Len(events) + 1 \notin DOMAIN events
          /\ events'[Len(events) + 1] = m
          /\ \A e \in DOMAIN events : events'[e] = events[e]
      BY <3>1, <3>2, AddRow
    <3>4. controllers[c].state = "candidate"
      BY <1>3, <3>1 DEF Counted, ControllerRow
    <3>5. CASE Plays(m, c)
      <4>1. Games(c)' = Games(c) \cup {Len(events) + 1} /\ Len(events) + 1 \notin Games(c)
        BY <1>1, <1>2, <2>1, <3>3, <3>5 DEF Games
      <4>2. controllers'[c].decided = controllers[c].decided + 1
        BY <1>3, <3>1, <3>4, <3>5 DEF Counted, ControllerRow
      <4> QED
        BY <3>4, <4>1, <4>2
    <3>6. CASE ~Plays(m, c)
      <4>1. Games(c)' = Games(c)
        BY <1>1, <1>2, <2>1, <3>3, <3>6 DEF Games
      <4>2. controllers'[c].decided = controllers[c].decided
        BY <3>1, <3>6 DEF Counted
      <4> QED
        BY <3>4, <4>1, <4>2
    <3> QED
      BY <3>5, <3>6
  <2> QED
    BY <2>2, <2>3
<1>5. CASE Revises \/ Adds
  <2>1. UNCHANGED events
    BY <1>5 DEF Revises, Adds
  <2>2. Games(c)' = Games(c)
    BY <1>1, <1>2, <2>1 DEF Games
  <2>3. CASE UNCHANGED <<controllers, decks, bundles>>
    BY <2>2, <2>3
  <2>4. CASE EvaluateCandidates
    <3>1. PICK accepted \in SUBSET Candidates, rejected \in SUBSET Candidates :
              controllers' = [d \in Controller |->
                    CASE d \in accepted -> [controllers[d] EXCEPT !.state = "incumbent"]
                      [] d \in rejected ->
                            [controllers[d] EXCEPT !.state = "rejected", !.active = FALSE]
                      [] OTHER -> controllers[d]]
      BY <2>4, Judgement
    <3>2. c \notin accepted \cup rejected
      BY <1>3, <3>1 DEF ControllerRow
    <3>3. controllers'[c] = controllers[c]
      BY <3>1, <3>2
    <3> QED
      BY <2>2, <3>3
  <2>5. ASSUME NEW d \in Deck, RegisterDeck(d)
        PROVE  controllers' = controllers
    BY <2>5 DEF RegisterDeck
  <2>6. ASSUME NEW d \in Controller, RegisterController(d)
        PROVE  \/ controllers'[c] = controllers[c]
               \/ ~Known(c) /\ controllers'[c].decided = 0 /\ Games(c)' = {}
    <3>1. CASE c # d
      BY <2>6, <3>1, <1>3 DEF RegisterController
    <3>2. CASE c = d
      <4>1. ~Known(c) /\ controllers'[c].decided = 0
        BY <2>6, <3>2, <1>3 DEF RegisterController
      <4>2. \A b \in Compatible : b[1] = c => bundles[b] = "absent"
        BY <4>1 DEF BundlesFollowController
      <4>3. \A m \in DOMAIN matches : Sides(m) \subseteq Compatible
        BY RowsAreSound DEF Sound, Match, Sides
      <4>4. \A m \in DOMAIN matches : ~Plays(m, c)
        BY <4>2, <4>3 DEF SidesAreBundles, Plays
      <4> QED
        BY <1>1, <2>2, <4>1, <4>4 DEF Games
    <3> QED
      BY <3>1, <3>2
  <2>7. ASSUME NEW d \in Controller, NEW active \in BOOLEAN, SetControllerActive(d, active)
        PROVE  /\ controllers'[c].state = controllers[c].state
               /\ controllers'[c].decided = controllers[c].decided
    BY <1>3, <2>7 DEF SetControllerActive, ControllerRow
  <2> QED
    BY <1>4, <2>2, <2>3, <2>4, <2>5, <2>6, <2>7, AssetSteps
<1> QED
  BY <1>4, <1>5, StepKinds

\* A candidate's decided_games is the number of rated games it plays in, each
\* counted once, from its registration to its judgement.
THEOREM CandidateGames == LedgerSpec => []CandidateGamesAddUp
<1>1. LedgerInit => SidesAreBundles /\ CandidateGamesAddUp
  BY DEF LedgerInit, SidesAreBundles, CandidateGamesAddUp
<1>2. /\ RowsOK /\ SchedulerOK /\ BundlesFollowController
      /\ SidesAreBundles /\ CandidateGamesAddUp
      /\ [LedgerNext]_ledger
      => SidesAreBundles' /\ CandidateGamesAddUp'
  <2> SUFFICES ASSUME RowsOK, SchedulerOK, BundlesFollowController, SidesAreBundles,
                      CandidateGamesAddUp, [LedgerNext]_ledger
               PROVE  SidesAreBundles' /\ CandidateGamesAddUp'
    OBVIOUS
  <2>1. ASSUME NEW c \in Controller, controllers'[c].state = "candidate"
        PROVE  controllers'[c].decided = Cardinality(Games(c)')
    <3>1. IsFiniteSet(Games(c))
      <4>1. events \in Seq(Nat)
        BY DEF RowsOK
      <4>2. DOMAIN events = 1 .. Len(events) /\ Len(events) \in Nat
        BY <4>1, LenProperties
      <4> QED
        <5>1. IsFiniteSet(DOMAIN events)
          BY <4>2, FS_Interval
        <5>2. Games(c) \in SUBSET DOMAIN events
          BY DEF Games
        <5> QED
          BY <5>1, <5>2, FS_Subset
    <3>2. controllers[c].state = "candidate" =>
              controllers[c].decided = Cardinality(Games(c))
      BY DEF CandidateGamesAddUp, Games
    <3>3. /\ Cardinality({}) = 0
          /\ Len(events) + 1 \notin Games(c) =>
                Cardinality(Games(c) \cup {Len(events) + 1}) = Cardinality(Games(c)) + 1
      BY <3>1, FS_EmptySet, FS_AddElement, Zenon
    <3> QED
      BY <2>1, <3>2, <3>3, CandidateStep
  <2>2. CandidateGamesAddUp'
    BY <2>1 DEF CandidateGamesAddUp, Games
  <2> QED
    BY <2>2, SidesAreBundlesStep
<1> QED
  BY <1>1, <1>2, RowsAreOfTheirSchema, BundlesFollow, PTL DEF LedgerSpec

-----------------------------------------------------------------------------
(* Ratings.  A property of every natural number is proved from the least   *)
(* counterexample it would have.                                           *)

\* A nonempty set of naturals has a least element.
LEMMA LeastNatural ==
    ASSUME NEW T \in SUBSET Nat, T # {}
    PROVE  \E m \in T : \A k \in T : m <= k
<1>1. PICK m \in T : \A k \in T : <<k, m>> \notin OpToRel(<, Nat)
  BY NatLessThanWellFounded, WFMin
<1>2. \A k \in T : ~(k < m)
  BY <1>1 DEF OpToRel
<1> QED
  BY <1>2

Prior == [x \in Controller \cup Deck |-> Unrated]

\* the ratings after one more event, about a match between g.a and g.b
Played(old, g, e) ==
    LET shared == {g.a[1], g.a[2]} \cap {g.b[1], g.b[2]}
    IN  [x \in Controller \cup Deck |->
            IF x \notin {g.a[1], g.a[2], g.b[1], g.b[2]} THEN old[x]
            ELSE [games |-> old[x].games + 1,
                  by |-> IF x \in shared THEN old[x].by
                                         ELSE Append(old[x].by, e)]]

\* f[n] is what the first n of N games leave, in a row of matches M with
\* events E
IsReplay(f, M, E, N) ==
    f = [n \in 0 .. N |-> IF n = 0 THEN Prior ELSE Played(f[n - 1], M[E[n]], n)]

LEMMA RatedIsPlayed ==
    \A old, m, e : Rated(old, m, e) = Played(old, matches[m], e)
BY DEF Rated, Played

\* Some function satisfies the recursion of a replay, for any number of events.
LEMMA ReplayExists ==
    ASSUME NEW M, NEW E, NEW N \in Nat
    PROVE  \E f : IsReplay(f, M, E, N)
<1> DEFINE Failing == {n \in Nat : \A f : ~IsReplay(f, M, E, n)}
<1>1. 0 \notin Failing
  <2>1. IsReplay([n \in 0 .. 0 |-> Prior], M, E, 0)
    BY DEF IsReplay
  <2> QED
    BY <2>1
<1>2. ASSUME NEW n \in Nat, n \notin Failing PROVE n + 1 \notin Failing
  <2>1. PICK f : IsReplay(f, M, E, n)
    BY <1>2
  <2> DEFINE g == [i \in 0 .. n + 1 |->
                      IF i = 0 THEN Prior ELSE Played(f[i - 1], M[E[i]], i)]
  <2>2. \A i \in 0 .. n : g[i] = f[i]
    BY <2>1 DEF IsReplay
  <2>3. ASSUME NEW i \in 0 .. n + 1, i # 0 PROVE g[i - 1] = f[i - 1]
    <3>1. i - 1 \in 0 .. n
      BY <2>3
    <3> HIDE DEF g
    <3> QED
      BY <2>2, <3>1
  <2>4. \A i \in 0 .. n + 1 :
            g[i] = IF i = 0 THEN Prior ELSE Played(g[i - 1], M[E[i]], i)
    BY <2>3
  <2>5. g = [i \in 0 .. n + 1 |->
                IF i = 0 THEN Prior ELSE Played(g[i - 1], M[E[i]], i)]
    <3> DEFINE h == [i \in 0 .. n + 1 |->
                IF i = 0 THEN Prior ELSE Played(g[i - 1], M[E[i]], i)]
    <3>1. DOMAIN g = DOMAIN h /\ \A i \in DOMAIN g : g[i] = h[i]
      BY <2>4
    <3> QED
      BY <3>1
  <2>6. IsReplay(g, M, E, n + 1)
    BY <2>5 DEF IsReplay
  <2> QED
    BY <2>6
<1>3. Failing = {}
  <2> SUFFICES ASSUME Failing # {} PROVE FALSE
    OBVIOUS
  <2>1. PICK m \in Failing : \A k \in Failing : m <= k
    BY LeastNatural
  <2>2. m \in Nat /\ m # 0
    BY <1>1
  <2>3. m - 1 \in Nat /\ m - 1 \notin Failing
    BY <2>1, <2>2
  <2>4. (m - 1) + 1 \notin Failing
    BY <1>2, <2>3
  <2> QED
    BY <2>1, <2>2, <2>4
<1> QED
  BY <1>3

\* the first N events are about the same sides
SameGames(M, E, M2, E2, N) ==
    \A n \in 1 .. N : M[E[n]].a = M2[E2[n]].a /\ M[E[n]].b = M2[E2[n]].b

\* Replays of games that agree on the first N events agree on them.
LEMMA ReplaysAgree ==
    ASSUME NEW M, NEW E, NEW N \in Nat, NEW f, IsReplay(f, M, E, N),
           NEW M2, NEW E2, NEW N2 \in Nat, NEW g, IsReplay(g, M2, E2, N2),
           N <= N2,
           SameGames(M, E, M2, E2, N)
    PROVE  f[N] = g[N]
<1> DEFINE Failing == {n \in 0 .. N : f[n] # g[n]}
<1> SUFFICES ASSUME Failing # {} PROVE FALSE
  OBVIOUS
<1>0. Failing \in SUBSET Nat /\ Failing # {}
  OBVIOUS
<1>1. PICK m \in Failing : \A k \in Failing : m <= k
  <2> HIDE DEF Failing
  <2> QED
    BY <1>0, LeastNatural
<1>2. m # 0
  BY DEF IsReplay
<1>3. m - 1 \in 0 .. N /\ m - 1 \notin Failing
  BY <1>1, <1>2
<1>4. f[m - 1] = g[m - 1]
  BY <1>3
<1>5. Played(f[m - 1], M[E[m]], m) = Played(g[m - 1], M2[E2[m]], m)
  BY <1>2, <1>4 DEF Played, SameGames
<1>6. /\ f[m] = Played(f[m - 1], M[E[m]], m)
      /\ g[m] = Played(g[m - 1], M2[E2[m]], m)
  BY <1>2 DEF IsReplay
<1> QED
  BY <1>5, <1>6

\* what a replay of all events leaves
LastOfReplay(M, E) == (CHOOSE f : IsReplay(f, M, E, Len(E)))[Len(E)]

\* Replay is the last value of such a function, before a step and after it.
LEMMA ReplayIsLast ==
    /\ Replay = LastOfReplay(matches, events)
    /\ Replay' = LastOfReplay(matches', events')
<1>1. Replay = LastOfReplay(matches, events)
  BY DEF Replay, LastOfReplay, IsReplay, Prior, Rated, Played
<1>2. Replay' = LastOfReplay(matches', events')
  BY DEF Replay, LastOfReplay, IsReplay, Prior, Rated, Played
<1> QED
  BY <1>1, <1>2

LEMMA LastIsReplayed ==
    ASSUME NEW M, NEW E, Len(E) \in Nat
    PROVE  \E f : IsReplay(f, M, E, Len(E)) /\ LastOfReplay(M, E) = f[Len(E)]
<1>1. \E f : IsReplay(f, M, E, Len(E))
  BY ReplayExists
<1>2. IsReplay(CHOOSE f : IsReplay(f, M, E, Len(E)), M, E, Len(E))
  BY <1>1, Zenon
<1> QED
  BY <1>2 DEF LastOfReplay

\* Only a decided result and a rebuild touch the events or the ratings.
LEMMA RatingSteps ==
    ASSUME [LedgerNext]_ledger
    PROVE  \/ UNCHANGED <<events, ratings>>
           \/ RebuildRatings
           \/ Records
<1>1. CASE UNCHANGED ledger
  BY <1>1 DEF ledger, tables
<1>2. CASE SchedulerStep
  BY <1>2 DEF SchedulerStep, EvaluateCandidates, MakeRoom, MeasureQueue, ChooseCandidate,
     ChooseBackground, ChooseNothing, EnqueueChosen, EnqueueRefused, tables
<1>3. CASE OperatorStep
  <2>1. ASSUME NEW d \in Deck, RegisterDeck(d)
        PROVE  UNCHANGED <<events, ratings>>
    BY <2>1 DEF RegisterDeck
  <2>2. ASSUME NEW c \in Controller, RegisterController(c)
        PROVE  UNCHANGED <<events, ratings>>
    BY <2>2 DEF RegisterController
  <2>3. ASSUME NEW c \in Controller, NEW active \in BOOLEAN, SetControllerActive(c, active)
        PROVE  UNCHANGED <<events, ratings>>
    BY <2>3 DEF SetControllerActive
  <2>4. ASSUME NEW a \in Compatible, NEW b \in Compatible, ForceChallenge(a, b)
        PROVE  UNCHANGED <<events, ratings>>
    BY <2>4 DEF ForceChallenge
  <2> QED
    BY <1>3, <2>1, <2>2, <2>3, <2>4 DEF OperatorStep
<1>4. CASE RequestStep
  <2>1. ASSUME NEW m \in DOMAIN matches, NEW n \in 1 .. matches[m].attempts,
               NEW o \in Outcome,
               SubmitResult([match |-> m, attempt |-> n, outcome |-> o])
        PROVE  UNCHANGED <<events, ratings>> \/ Records
    BY <2>1 DEF SubmitResult, Records, ledger, tables
  <2> QED
    BY <1>4, <2>1 DEF RequestStep, Grant, GrantNothing
<1>5. CASE (\E m \in DOMAIN matches : LeaseExpires(m)) \/ Restart
  BY <1>5 DEF LeaseExpires, Restart, tables
<1> QED
  BY <1>1, <1>2, <1>3, <1>4, <1>5 DEF LedgerNext

\* While no event is added, a replay gives what it gave: nobody's side in a
\* match changes.
LEMMA ReplayStays ==
    ASSUME RowsOK, SchedulerOK, [LedgerNext]_ledger, UNCHANGED events
    PROVE  Replay' = Replay
<1>1. events \in Seq(Nat) /\ events' \in Seq(Nat)
  BY DEF RowsOK
<1>2. Len(events) \in Nat /\ DOMAIN events = 1 .. Len(events)
  BY <1>1, LenProperties
<1>3. PICK f : IsReplay(f, matches, events, Len(events)) /\ Replay = f[Len(events)]
  BY <1>2, ReplayIsLast, LastIsReplayed
<1>4. PICK g : IsReplay(g, matches', events, Len(events)) /\ Replay' = g[Len(events)]
  BY <1>2, ReplayIsLast, LastIsReplayed
<1>5. SameGames(matches, events, matches', events, Len(events))
  BY <1>2, SidesStay DEF RowsOK, SameGames
<1>6. f[Len(events)] = g[Len(events)]
  <2>1. Len(events) <= Len(events)
    BY <1>2
  <2> QED
    BY <1>2, <1>3, <1>4, <1>5, <2>1, ReplaysAgree
<1> QED
  BY <1>2, <1>3, <1>4, <1>6

\* A replay of one event more rates that event last.
LEMMA ReplayGrows ==
    ASSUME RowsOK, SchedulerOK, [LedgerNext]_ledger, RowsOK',
           NEW m \in DOMAIN matches, events' = Append(events, m)
    PROVE  Replay' = Rated(Replay, m, Len(events) + 1)
<1> DEFINE N == Len(events)
<1>1. events \in Seq(Nat) /\ events' \in Seq(Nat) /\ m \in Nat
  <2>1. DOMAIN matches = 1 .. Len(matches)
    BY RowsAreSound
  <2> QED
    BY <2>1 DEF RowsOK
<1>2. /\ N \in Nat
      /\ DOMAIN events = 1 .. N
      /\ Len(events') = N + 1
      /\ events'[N + 1] = m
      /\ \A e \in DOMAIN events : events'[e] = events[e]
  BY <1>1, AddRow
<1>3. PICK f : IsReplay(f, matches, events, N) /\ Replay = f[N]
  BY <1>2, ReplayIsLast, LastIsReplayed
<1>4. PICK g : IsReplay(g, matches', events', N + 1) /\ Replay' = g[N + 1]
  <2>1. Len(events') = N + 1 /\ Len(events') \in Nat
    BY <1>2
  <2> QED
    BY <2>1, ReplayIsLast, LastIsReplayed
<1>5. SameGames(matches, events, matches', events', N)
  BY <1>2, SidesStay DEF RowsOK, SameGames
<1>6. f[N] = g[N]
  <2>1. N + 1 \in Nat /\ N <= N + 1
    BY <1>2
  <2> HIDE DEF N
  <2> QED
    BY <1>2, <1>3, <1>4, <1>5, <2>1, ReplaysAgree
<1>7. g[N + 1] = Played(g[N], matches'[m], N + 1)
  <2> HIDE DEF N
  <2> QED
    BY <1>2, <1>4 DEF IsReplay
<1>8. Played(g[N], matches'[m], N + 1) = Played(g[N], matches[m], N + 1)
  BY SidesStay DEF Played
<1> QED
  BY <1>3, <1>4, <1>6, <1>7, <1>8, RatedIsPlayed

\* The ratings results leave behind, each rating its own event when it is
\* recorded, are those a replay of all events gives: nothing else moves an
\* estimate, whatever is queued, withdrawn or rebuilt in between.
THEOREM ReplayGivesRatings == LedgerSpec => []RatingsAreReplayable
<1>1. LedgerInit => RatingsAreReplayable
  <2> SUFFICES ASSUME LedgerInit PROVE ratings = Replay
    BY DEF RatingsAreReplayable
  <2>1. events = <<>> /\ ratings = Prior
    BY DEF LedgerInit, Prior
  <2>2. events \in Seq(Nat) /\ Len(events) = 0
    BY <2>1
  <2>3. PICK f : IsReplay(f, matches, events, 0) /\ Replay = f[0]
    BY <2>2, ReplayIsLast, LastIsReplayed
  <2> QED
    BY <2>1, <2>3 DEF IsReplay
<1>2. RowsOK /\ SchedulerOK /\ RatingsAreReplayable /\ RowsOK' /\ [LedgerNext]_ledger
      => RatingsAreReplayable'
  <2> SUFFICES ASSUME RowsOK, SchedulerOK, ratings = Replay, RowsOK', [LedgerNext]_ledger
               PROVE  ratings' = Replay'
    BY DEF RatingsAreReplayable
  <2>1. CASE UNCHANGED <<events, ratings>>
    BY <2>1, ReplayStays
  <2>2. CASE RebuildRatings
    BY <2>2, ReplayStays DEF RebuildRatings
  <2>3. CASE Records
    <3>1. PICK m, n, o :
              /\ m \in DOMAIN matches
              /\ n \in 1 .. matches[m].attempts
              /\ o \in Outcome
              /\ RecordResult([match |-> m, attempt |-> n, outcome |-> o])
      BY <2>3 DEF Records
    <3>2. CASE o = "unresolved"
      BY <3>1, <3>2, ReplayStays DEF RecordResult
    <3>3. CASE o # "unresolved"
      <4>1. events' = Append(events, m) /\ ratings' = Rated(ratings, m, Len(events) + 1)
        BY <3>1, <3>3 DEF RecordResult, RateResult
      <4> QED
        BY <3>1, <4>1, ReplayGrows
    <3> QED
      BY <3>2, <3>3
  <2> QED
    BY <2>1, <2>2, <2>3, RatingSteps
<1> QED
  BY <1>1, <1>2, RowsAreOfTheirSchema, PTL DEF LedgerSpec

=============================================================================
