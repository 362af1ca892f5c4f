----------------------- MODULE LeagueLedgerProperties -----------------------
(* What the league's tables promise, whoever calls the ledger in what order. *)
EXTENDS LeagueLedger

Match == [a: Compatible, b: Compatible,
          state: {"queued", "leased", "completed", "cancelled"},
          reason: {"forced", "candidate", "background"},
          priority: Nat, attempts: Nat, live: BOOLEAN]

Result == [match: Nat, attempt: Nat, outcome: Outcome, event: Nat]

ControllerRow == [state: {"absent", "candidate", "incumbent", "rejected", "anchor"},
                  active: BOOLEAN, decided: Nat]

RowsOK ==
    /\ controllers \in [Controller -> ControllerRow]
    /\ decks \subseteq Deck
    /\ bundles \in [Compatible -> {"absent", "inactive", "active"}]
    /\ matches \in Seq(Match)
    /\ results \in Seq(Result)
    /\ events \in Seq(Nat)
    /\ \A i \in DOMAIN results :
          results[i].match \in DOMAIN matches /\ results[i].event <= Len(events)
    /\ \A e \in DOMAIN events : events[e] \in DOMAIN matches
    /\ \A m \in DOMAIN matches :
          /\ matches[m].live => matches[m].state = "leased"
          /\ matches[m].state = "leased" => matches[m].attempts > 0

Pick == [sides: Compatible \X Compatible,
         reason: {"candidate", "background"}, priority: Nat]

\* what the scheduler has chosen is a pair it may enqueue
SchedulerOK ==
    /\ scheduler \in [phase: {"idle", "evaluated", "measuring", "choosing", "chosen"},
                      pick: {<<>>} \cup Pick]
    /\ scheduler.phase = "chosen" => scheduler.pick \in Pick

\* A match counts once: it is completed exactly when one result is recorded
\* for it, whoever held its lease when, however often it was leased, posted or
\* queued again; and a rating event belongs to each decided result and to
\* nothing else (submit_result, "at most one ordered rating event").
ResultCountsOnce ==
    /\ \A m \in DOMAIN matches : matches[m].state = "completed" <=> Recorded(m)
    /\ \A i, j \in DOMAIN results : results[i].match = results[j].match => i = j
    /\ \A i \in DOMAIN results :
          IF results[i].outcome = "unresolved" THEN results[i].event = 0
          ELSE /\ results[i].event \in DOMAIN events
               /\ events[results[i].event] = results[i].match
    /\ \A e \in DOMAIN events : \E i \in DOMAIN results : results[i].event = e

\* The ratings the results left behind are those a replay of the events gives
\* (rebuild_ratings, "Replay immutable rating events in event_seq order into
\* current state"): no game is rated that has no event, none in another order.
RatingsAreReplayable == ratings = Replay

\* A candidate has been credited with the decided games it played, each once,
\* also when both sides are its own (_increment_candidate_games); the gates
\* of evaluate_candidates rest on this count.
CandidateGamesAddUp ==
    \A c \in Controller :
        controllers[c].state = "candidate" =>
            controllers[c].decided = Cardinality({e \in DOMAIN events : Plays(events[e], c)})

\* In whatever order controllers and decks arrive, are disabled, restored or
\* rejected, every declared pair of the two is a bundle, with the flag of its
\* controller (register_deck, "backfill every compatible bundle";
\* set_controller_active, "one controller and all combinations").
BundlesFollowController ==
    \A b \in Compatible :
        bundles[b] = IF Known(b[1]) /\ b[2] \in decks THEN BundleFlag(b[1]) ELSE "absent"

\* A match nobody has tried yet is between active bundles: a controller that
\* was disabled or rejected between the scheduler's read and its write, or
\* afterwards, has nothing new queued.
UntriedMatchesAreActive ==
    \A m \in DOMAIN matches :
        matches[m].state = "queued" /\ matches[m].attempts = 0 =>
            \A s \in Sides(m) : bundles[s] = "active"

\* The scheduler keeps its own part of the queue within the target, although
\* it measures, chooses and enqueues in separate transactions and matches come
\* back when a lease expires.
QueueWithinTarget ==
    Cardinality({m \in Pending : matches[m].reason # "forced"}) <= QueueTarget

\* Both hold of what the scheduler adds in transactions of its own: what it chose
\* from a reading that is stale by now neither fills the queue past its target
\* nor plays an inactive bundle.
QueueIsSound == UntriedMatchesAreActive /\ QueueWithinTarget

\* Once rejected or completed, a row stays what it is: a withdrawn or finished
\* match is never queued or leased again, a recorded result and an event never
\* change, and a decided candidate is not judged again.
HistoryIsFinal ==
    [][ /\ \A m \in DOMAIN matches :
              matches[m].state \in {"completed", "cancelled"} =>
                  matches'[m].state = matches[m].state
        /\ \A i \in DOMAIN results : results'[i] = results[i]
        /\ \A e \in DOMAIN events : events'[e] = events[e]
        /\ \A c \in Controller :
              controllers[c].state \in {"incumbent", "rejected", "anchor"} =>
                  controllers'[c].state = controllers[c].state ]_ledger

=============================================================================
