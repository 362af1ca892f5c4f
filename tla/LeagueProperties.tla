-------------------------- MODULE LeagueProperties --------------------------
(* What workers, exporter and ledger promise together.                       *)
EXTENDS League

\* a result under way, and a worker at play: of a lease that was granted
Report == {r \in [match: DOMAIN matches, attempt: Nat, outcome: Outcome] :
              r.attempt \in 1 .. matches[r.match].attempts}
Playing == {p \in [phase: {"playing"}, match: DOMAIN matches, attempt: Nat] :
              p.attempt \in 1 .. matches[p.match].attempts}

WorkersOK ==
    /\ worker \in [Worker ->
            {Idle, Down} \cup Playing \cup [phase: {"posting"}, result: Report]]
    /\ late \subseteq Report \cup [cuda: BOOLEAN, number: Nat]
    /\ faults \in 0 .. MaxFaults

ExporterOK ==
    /\ exporter \in [phase: {"idle"}]
                   \cup [phase: {"writing"}, first: Nat, last: 1 .. Len(results)]
                   \cup [phase: {"advancing"}, last: 1 .. Len(results)]
    /\ cursor \in Nat
    /\ shards \in Seq([first: Nat, last: Nat])

\* Workers and requests under way are about leases that were granted, and an
\* export pass about results that exist.
LeagueTypeOK == WorkersOK /\ ExporterOK

\* Shards hold every exported result exactly once and in order, the pass under
\* way writes what follows them, and telemetry is only blanked behind the last
\* published shard, whenever the coordinator crashed (telemetry.py, "Recover
\* the narrow crash window").
ShardsTileResults ==
    /\ \A k \in DOMAIN shards :
          shards[k].first = IF k = 1 THEN 1 ELSE shards[k - 1].last + 1
    /\ exporter.phase = "writing" =>
          exporter.first = Published + 1 /\ exporter.first <= exporter.last
    /\ exporter.phase = "advancing" => exporter.last <= Published
    /\ cursor <= Published
    /\ Published <= Len(results)

\* The tables behave as LeagueLedger says for any callers, so what is proved
\* of LedgerSpec holds of the league.
RefinesLedger == LedgerSpec

FairLeagueSpec ==
    /\ LeagueSpec
    /\ \A w \in Worker : WF_league(WorkerStep(w))
    /\ WF_league(ExportStep)
    /\ WF_league(OfCoordinator /\ \E m \in DOMAIN matches : matches[m].live /\ ~matches'[m].live)

\* A challenge an operator forces is played and recorded, or withdrawn with
\* its controller: no lost reply, crash or expired lease strands it.
ChallengeFinishes ==
    \A m \in 1 .. MaxMatch :
        m \in DOMAIN matches /\ matches[m].reason = "forced"
            ~> m \in DOMAIN matches /\ matches[m].state \in {"completed", "cancelled"}

\* Every recorded result reaches a published shard.
ResultsAreExported ==
    \A i \in 1 .. MaxMatch : i \in DOMAIN results ~> Published >= i

=============================================================================
