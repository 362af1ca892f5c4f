---------------------------- MODULE LeagueLedger ----------------------------
(***************************************************************************)
(* The continuous league's SQLite ledger and the scheduler that feeds it   *)
(* (evaluation/continuous_league/ledger.py, asset_ledger.py, scheduler.py).*)
(* Controllers and decks are registered, every compatible pair is a        *)
(* bundle, matches between bundles are queued, leased to workers, leased   *)
(* again when a lease runs out, and completed by the first result.         *)
(*                                                                         *)
(* One action is one transaction.  The scheduler's pass is several, with   *)
(* requests of workers and operators in between.  Time is abstract: a      *)
(* lease may run out at any moment.  A bundle is the pair <<controller,    *)
(* deck>>; a rating is the sequence of the rating events that moved it.    *)
(***************************************************************************)
EXTENDS Naturals, Sequences, FiniteSets

CONSTANTS
    Controller,    \* controller ids
    Deck,          \* deck digests
    KindOf,        \* candidate_kind of each controller
    Checkpoint,    \* the controllers that are checkpoints, not scripts
    NeedsCuda,     \* the controllers with requires_cuda
    Compatible,    \* the decks each controller declares, as pairs
    QueueTarget,   \* scheduling.queue_target
    MinimumGames,  \* promotion.minimum_games
    MaximumGames,  \* promotion.maximum_games
    SchedulerRuns, \* bound: the scheduler's passes are explored
    MaxMatch,      \* bound: matches ever queued
    MaxAttempts    \* bound: leases of a match

ASSUME AssetAssumption ==
    /\ KindOf \in [Controller -> {"automatic", "manual", "anchor"}]
    /\ Checkpoint \subseteq Controller
    /\ NeedsCuda \subseteq Controller
    /\ Compatible \subseteq Controller \X Deck
    /\ Controller \cap Deck = {}

ASSUME GateAssumption ==
    /\ QueueTarget \in Nat \ {0}
    /\ MinimumGames \in Nat \ {0}
    /\ MaximumGames \in Nat
    /\ MaximumGames >= MinimumGames
    /\ SchedulerRuns \in BOOLEAN
    /\ MaxMatch \in Nat
    /\ MaxAttempts \in Nat

VARIABLES
    controllers,  \* candidate_state, active, decided_games of each controller
    decks,        \* registered decks
    bundles,      \* of each pair: no row, or its active flag
    matches,      \* the matches in the order of created_at
    results,      \* the results in the order of result_seq
    events,       \* the rating events in the order of event_seq
    ratings,      \* games and events of each rated component
    scheduler     \* how far the scheduler's pass has come

tables == <<controllers, decks, bundles, matches, results, events, ratings>>
ledger == <<tables, scheduler>>

-----------------------------------------------------------------------------
(* Rows *)

\* a win of either side and a draw move the same components
Outcome == {"decided", "unresolved"}

InitialState(c) ==
    CASE KindOf[c] = "automatic" -> "candidate"
      [] KindOf[c] = "manual"    -> "incumbent"
      [] KindOf[c] = "anchor"    -> "anchor"

Known(c) == controllers[c].state # "absent"

\* the flag a new bundle takes from its controller
BundleFlag_AlwaysActive(c) == "active"
BundleFlag(c) == IF controllers[c].active THEN "active" ELSE "inactive"

Sides(m) == {matches[m].a, matches[m].b}
Plays(m, c) == \E s \in Sides(m) : s[1] = c

Pending == {m \in DOMAIN matches : matches[m].state \in {"queued", "leased"}}

Recorded(m) == \E i \in DOMAIN results : results[i].match = m

-----------------------------------------------------------------------------
(* Ratings *)

Unrated == [games |-> 0, by |-> <<>>]

\* ComponentTrueSkill.rate, event e being about match m: a component on both
\* sides keeps its estimate and counts one game
Rated(old, m, e) ==
    LET a == matches[m].a
        b == matches[m].b
        shared == {a[1], a[2]} \cap {b[1], b[2]}
    IN  [x \in Controller \cup Deck |->
            IF x \notin {a[1], a[2], b[1], b[2]} THEN old[x]
            ELSE [games |-> old[x].games + 1,
                  by |-> IF x \in shared THEN old[x].by
                                         ELSE Append(old[x].by, e)]]

Replay_LastFirst ==
    LET after[n \in 0 .. Len(events)] ==
            IF n = 0 THEN [x \in Controller \cup Deck |-> Unrated]
            ELSE LET e == Len(events) + 1 - n
                 IN  Rated(after[n - 1], events[e], e)
    IN  after[Len(events)]

\* rebuild_ratings: every event from the first to the last, from the prior
Replay ==
    LET after[n \in 0 .. Len(events)] ==
            IF n = 0 THEN [x \in Controller \cup Deck |-> Unrated]
                     ELSE Rated(after[n - 1], events[n], n)
    IN  after[Len(events)]

-----------------------------------------------------------------------------
(* Assets *)

LedgerInit ==
    /\ controllers = [c \in Controller |->
            [state |-> "absent", active |-> FALSE, decided |-> 0]]
    /\ decks = {}
    /\ bundles = [b \in Compatible |-> "absent"]
    /\ matches = <<>>
    /\ results = <<>>
    /\ events = <<>>
    /\ ratings = [x \in Controller \cup Deck |-> Unrated]
    /\ scheduler = [phase |-> "idle", pick |-> <<>>]

\* a new deck completes the bundles of the controllers that declared it
RegisterDeck(d) ==
    /\ d \notin decks
    /\ decks' = decks \cup {d}
    /\ bundles' = [b \in Compatible |->
            IF b[2] = d /\ Known(b[1]) /\ bundles[b] = "absent"
            THEN BundleFlag(b[1]) ELSE bundles[b]]
    /\ UNCHANGED <<controllers, matches, results, events, ratings, scheduler>>

\* a new controller brings the bundles of the decks already there
RegisterController(c) ==
    /\ ~Known(c)
    /\ controllers' = [controllers EXCEPT ![c] =
            [state |-> InitialState(c), active |-> TRUE, decided |-> 0]]
    /\ bundles' = [b \in Compatible |->
            IF b[1] = c /\ b[2] \in decks THEN "active" ELSE bundles[b]]
    /\ UNCHANGED <<decks, matches, results, events, ratings, scheduler>>

\* the bundles of C after their controllers got a new flag
Flagged(C, active) ==
    [b \in Compatible |->
        IF b[1] \in C /\ bundles[b] # "absent"
        THEN (IF active THEN "active" ELSE "inactive") ELSE bundles[b]]

\* the matches after those queued for a controller in C are withdrawn
Withdrawn(C) ==
    [m \in DOMAIN matches |->
        IF matches[m].state = "queued" /\ \E c \in C : Plays(m, c)
        THEN [matches[m] EXCEPT !.state = "cancelled"] ELSE matches[m]]

SetControllerActive(c, active) ==
    /\ Known(c)
    /\ controllers' = [controllers EXCEPT ![c].active = active]
    /\ bundles' = Flagged({c}, active)
    /\ matches' = IF active THEN matches ELSE Withdrawn({c})
    /\ UNCHANGED <<decks, results, events, ratings, scheduler>>

-----------------------------------------------------------------------------
(* Matches *)

Playable_AnyBundle(a, b) == a # b /\ bundles[a] # "absent" /\ bundles[b] # "absent"
Playable(a, b) == a # b /\ bundles[a] = "active" /\ bundles[b] = "active"

\* enqueue_match, of the scheduler or of an operator
Enqueue(a, b, reason, priority) ==
    /\ Playable(a, b)
    /\ Len(matches) < MaxMatch
    /\ matches' = Append(matches,
            [a |-> a, b |-> b, state |-> "queued", reason |-> reason,
             priority |-> priority, attempts |-> 0, live |-> FALSE])

ForceChallenge(a, b) ==
    /\ Enqueue(a, b, "forced", 10000)
    /\ UNCHANGED <<controllers, decks, bundles, results, events, ratings, scheduler>>

\* lease_expires_at passes
LeaseExpires(m) ==
    /\ m \in DOMAIN matches
    /\ matches[m].live
    /\ matches' = [matches EXCEPT ![m].live = FALSE]
    /\ UNCHANGED <<controllers, decks, bundles, results, events, ratings, scheduler>>

\* the first half of lease_match: every lease that ran out is queued again
Requeued_Never == matches
Requeued_AnyState ==
    [m \in DOMAIN matches |->
        IF matches[m].attempts > 0 /\ ~matches[m].live
        THEN [matches[m] EXCEPT !.state = "queued"] ELSE matches[m]]
Requeued ==
    [m \in DOMAIN matches |->
        IF matches[m].state = "leased" /\ ~matches[m].live
        THEN [matches[m] EXCEPT !.state = "queued"] ELSE matches[m]]

NeedsGpu(m) == \E c \in NeedsCuda : Plays(m, c)

Grantable(cuda) ==
    {m \in DOMAIN matches : Requeued[m].state = "queued" /\ (cuda \/ ~NeedsGpu(m))}

\* ORDER BY priority DESC, created_at
Before(m, n) ==
    \/ matches[m].priority > matches[n].priority
    \/ matches[m].priority = matches[n].priority /\ m < n

FirstOf(S) == {m \in S : \A n \in S \ {m} : Before(m, n)}

\* lease_match grants the first match in order
Grant(m, cuda) ==
    /\ m \in FirstOf(Grantable(cuda))
    /\ matches[m].attempts < MaxAttempts
    /\ matches' = [Requeued EXCEPT
            ![m].state = "leased", ![m].live = TRUE, ![m].attempts = @ + 1]
    /\ UNCHANGED <<controllers, decks, bundles, results, events, ratings, scheduler>>

\* lease_match finds none
GrantNothing(cuda) ==
    /\ Grantable(cuda) = {}
    /\ matches' = Requeued
    /\ UNCHANGED <<controllers, decks, bundles, results, events, ratings, scheduler>>

-----------------------------------------------------------------------------
(* Results: submit_result asks neither who holds the lease nor whether it  *)
(* still runs                                                              *)

Duplicate(r) ==
    \E i \in DOMAIN results :
        <<results[i].match, results[i].attempt, results[i].outcome>>
            = <<r.match, r.attempt, r.outcome>>

Fresh_UnlessRepeated(r) == ~Duplicate(r) /\ matches[r.match].state # "cancelled"
Fresh(r) == ~Recorded(r.match) /\ matches[r.match].state # "cancelled"

Refuses(r) == ~Fresh(r) /\ ~Duplicate(r)

\* decided_games counts while the controller is a candidate
Counted_PerSide(m) ==
    [c \in Controller |->
        IF Plays(m, c) /\ controllers[c].state = "candidate"
        THEN [controllers[c] EXCEPT
                !.decided = @ + Cardinality({s \in Sides(m) : s[1] = c})]
        ELSE controllers[c]]
Counted(m) ==
    [c \in Controller |->
        IF Plays(m, c) /\ controllers[c].state = "candidate"
        THEN [controllers[c] EXCEPT !.decided = @ + 1] ELSE controllers[c]]

\* a decided result becomes the next rating event
RateResult(r) ==
    /\ events' = Append(events, r.match)
    /\ ratings' = Rated(ratings, r.match, Len(events) + 1)
    /\ controllers' = Counted(r.match)

Completed(m) == [matches EXCEPT ![m].state = "completed", ![m].live = FALSE]

RecordResult(r) ==
    /\ Fresh(r)
    /\ results' = Append(results,
            [match |-> r.match, attempt |-> r.attempt, outcome |-> r.outcome,
             event |-> IF r.outcome = "unresolved" THEN 0 ELSE Len(events) + 1])
    /\ matches' = Completed(r.match)
    /\ IF r.outcome = "unresolved"
       THEN UNCHANGED <<events, ratings, controllers>>
       ELSE RateResult(r)
    /\ UNCHANGED <<decks, bundles, scheduler>>

\* a repeated result changes nothing, a refused one is rolled back
SubmitResult(r) ==
    \/ RecordResult(r)
    \/ ~Fresh(r) /\ UNCHANGED ledger

RebuildRatings ==
    /\ ratings' = Replay
    /\ UNCHANGED <<controllers, decks, bundles, matches, results, events, scheduler>>

-----------------------------------------------------------------------------
(* The scheduler's pass, fill_queue *)

Candidates ==
    {c \in Controller : controllers[c].state = "candidate" /\ controllers[c].active}

Incumbents ==
    {c \in Checkpoint : controllers[c].state = "incumbent" /\ controllers[c].active}

\* decided games of c against anchors
AnchorGames(c) ==
    Cardinality({i \in DOMAIN results :
        /\ results[i].outcome # "unresolved"
        /\ \E s, t \in Sides(results[i].match) :
              s # t /\ s[1] = c /\ controllers[t[1]].state = "anchor"})

\* promotion_decision; "high" and "low" pass the early gates, "upper" and
\* "lower" lie between them, on either side of the final one
Verdict(c, probability) ==
    IF controllers[c].decided < MinimumGames THEN "open"
    ELSE IF Incumbents = {}
         THEN IF AnchorGames(c) < MinimumGames THEN "open" ELSE "incumbent"
    ELSE CASE probability = "high" -> "incumbent"
           [] probability = "low"  -> "rejected"
           [] OTHER -> IF controllers[c].decided < MaximumGames THEN "open"
                       ELSE IF probability = "upper" THEN "incumbent" ELSE "rejected"

\* evaluate_candidates; the estimate is a draw of Monte Carlo samples
EvaluateCandidates ==
    /\ SchedulerRuns
    /\ scheduler.phase = "idle"
    /\ \E p \in [Candidates -> {"high", "low", "upper", "lower"}] :
         LET accepted == {c \in Candidates : Verdict(c, p[c]) = "incumbent"}
             rejected == {c \in Candidates : Verdict(c, p[c]) = "rejected"}
         IN  /\ controllers' = [c \in Controller |->
                    CASE c \in accepted -> [controllers[c] EXCEPT !.state = "incumbent"]
                      [] c \in rejected ->
                            [controllers[c] EXCEPT !.state = "rejected", !.active = FALSE]
                      [] OTHER -> controllers[c]]
             /\ bundles' = [b \in Compatible |->
                    IF b[1] \in rejected THEN Flagged(rejected, FALSE)[b]
                                         ELSE Flagged(accepted, TRUE)[b]]
             /\ matches' = Withdrawn(rejected)
    /\ scheduler' = [scheduler EXCEPT !.phase = "evaluated"]
    /\ UNCHANGED <<decks, results, events, ratings>>

\* _make_room_for_candidates
MakeRoom ==
    /\ scheduler.phase = "evaluated"
    /\ matches' =
         IF Candidates = {} THEN matches
         ELSE [m \in DOMAIN matches |->
                 IF matches[m].state = "queued" /\ matches[m].reason = "background"
                 THEN [matches[m] EXCEPT !.state = "cancelled"] ELSE matches[m]]
    /\ scheduler' = [scheduler EXCEPT !.phase = "measuring"]
    /\ UNCHANGED <<controllers, decks, bundles, results, events, ratings>>

Depth == Cardinality(Pending)

\* queue_depth against the target
MeasureQueue ==
    /\ scheduler.phase = "measuring"
    /\ scheduler' = [scheduler EXCEPT
            !.phase = IF Depth < QueueTarget THEN "choosing" ELSE "idle"]
    /\ UNCHANGED tables

ActiveBundles == {b \in Compatible : bundles[b] = "active" /\ controllers[b[1]].active}

\* pairs _schedule_one may choose from: a candidate against another's
\* non-candidate, or any two bundles when there is no candidate
CandidatePairs ==
    {p \in ActiveBundles \X ActiveBundles :
        /\ controllers[p[1][1]].state = "candidate"
        /\ controllers[p[2][1]].state # "candidate"}

Seated(s) == CHOOSE p \in ActiveBundles \X ActiveBundles : {p[1], p[2]} = s

BackgroundPairs ==
    {Seated(s) : s \in {{a, b} : a, b \in ActiveBundles} \ {{a} : a \in ActiveBundles}}

NoCandidateBundle == \A b \in ActiveBundles : controllers[b[1]].state # "candidate"

\* fewer decided games come first
CandidatePriority(c) ==
    1000 - (IF controllers[c].decided < 999 THEN controllers[c].decided ELSE 999)

\* who sits on side a is a bit of a hash; one seating stands for both
ChooseCandidate ==
    /\ scheduler.phase = "choosing"
    /\ \E p \in CandidatePairs :
         scheduler' = [phase |-> "chosen",
                       pick |-> [sides |-> p, reason |-> "candidate",
                                 priority |-> CandidatePriority(p[1][1])]]
    /\ UNCHANGED tables

ChooseBackground ==
    /\ scheduler.phase = "choosing"
    /\ NoCandidateBundle
    /\ \E p \in BackgroundPairs :
         scheduler' = [phase |-> "chosen",
                       pick |-> [sides |-> p, reason |-> "background", priority |-> 10]]
    /\ UNCHANGED tables

ChooseNothing ==
    /\ scheduler.phase = "choosing"
    /\ CandidatePairs = {}
    /\ ~NoCandidateBundle \/ BackgroundPairs = {}
    /\ scheduler' = [scheduler EXCEPT !.phase = "idle"]
    /\ UNCHANGED tables

\* the pair was chosen in an earlier read; enqueue_match looks again
EnqueueChosen ==
    /\ scheduler.phase = "chosen"
    /\ LET k == scheduler.pick
       IN  Enqueue(k.sides[1], k.sides[2], k.reason, k.priority)
    /\ scheduler' = [phase |-> "measuring", pick |-> <<>>]
    /\ UNCHANGED <<controllers, decks, bundles, results, events, ratings>>

\* ValueError ends the pass (and so does the bound)
EnqueueRefused ==
    /\ scheduler.phase = "chosen"
    /\ \/ ~Playable(scheduler.pick.sides[1], scheduler.pick.sides[2])
       \/ Len(matches) = MaxMatch
    /\ scheduler' = [phase |-> "idle", pick |-> <<>>]
    /\ UNCHANGED tables

\* the coordinator process stops and starts again: the tables are durable
Restart ==
    /\ scheduler' = [phase |-> "idle", pick |-> <<>>]
    /\ UNCHANGED tables

-----------------------------------------------------------------------------

SchedulerStep ==
    \/ EvaluateCandidates
    \/ MakeRoom
    \/ MeasureQueue
    \/ ChooseCandidate
    \/ ChooseBackground
    \/ ChooseNothing
    \/ EnqueueChosen
    \/ EnqueueRefused

OperatorStep ==
    \/ \E d \in Deck : RegisterDeck(d)
    \/ \E c \in Controller : RegisterController(c)
    \/ \E c \in Controller, active \in BOOLEAN : SetControllerActive(c, active)
    \/ \E a, b \in Compatible : ForceChallenge(a, b)
    \/ RebuildRatings

\* what workers may ask for, in any order and any number of times: a result
\* of any lease that was ever granted
RequestStep ==
    \/ \E cuda \in BOOLEAN :
         \/ GrantNothing(cuda)
         \/ \E m \in DOMAIN matches : Grant(m, cuda)
    \/ \E m \in DOMAIN matches : \E n \in 1 .. matches[m].attempts, o \in Outcome :
         SubmitResult([match |-> m, attempt |-> n, outcome |-> o])

LedgerNext ==
    \/ SchedulerStep
    \/ OperatorStep
    \/ RequestStep
    \/ \E m \in DOMAIN matches : LeaseExpires(m)
    \/ Restart

LedgerSpec == LedgerInit /\ [][LedgerNext]_ledger

=============================================================================
