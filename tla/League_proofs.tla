---------------------------- MODULE League_proofs ----------------------------
(***************************************************************************)
(* Proofs about the league with its workers and exporter: it implements    *)
(* the ledger's specification, so that everything LeagueLedger_proofs says *)
(* of LedgerSpec holds of it, and its shards tile the results.             *)
(***************************************************************************)
EXTENDS LeagueProperties, LeagueLedger_proofs

-----------------------------------------------------------------------------
(* Every step of the league is a step of the ledger or leaves it alone *)

\* A posting worker holds a report, and a late request is a report or an ask.
LEMMA RequestsAreTyped ==
    ASSUME WorkersOK
    PROVE  /\ \A w \in Worker : Posting(w) => worker[w].result \in Report
           /\ \A w \in Worker : worker[w].phase = "playing" => worker[w] \in Playing
           /\ \A q \in late : "cuda" \in DOMAIN q => q.cuda \in BOOLEAN
           /\ \A q \in late : "outcome" \in DOMAIN q => q \in Report
<1>1. \A w \in Worker :
          worker[w] \in {Idle, Down} \cup Playing \cup [phase: {"posting"}, result: Report]
  BY DEF WorkersOK
<1>2. Idle.phase = "idle" /\ Down.phase = "down" /\ \A p \in Playing : p.phase = "playing"
  BY DEF Idle, Down, Playing
<1>3. \A r \in Report : DOMAIN r = {"match", "attempt", "outcome"}
  BY DEF Report
<1>4. \A q \in [cuda: BOOLEAN, number: Nat] :
          DOMAIN q = {"cuda", "number"} /\ q.cuda \in BOOLEAN
  OBVIOUS
<1>5. late \subseteq Report \cup [cuda: BOOLEAN, number: Nat]
  BY DEF WorkersOK
<1> QED
  BY <1>1, <1>2, <1>3, <1>4, <1>5 DEF Posting

\* A report may be handed to the ledger.
LEMMA ReportsAreRequests ==
    ASSUME NEW r \in Report, SubmitResult(r)
    PROVE  RequestStep
<1>1. /\ r.match \in DOMAIN matches
      /\ r.attempt \in 1 .. matches[r.match].attempts
      /\ r.outcome \in Outcome
      /\ r = [match |-> r.match, attempt |-> r.attempt, outcome |-> r.outcome]
  BY DEF Report
<1> QED
  BY <1>1 DEF RequestStep

LEMMA LeagueStepIsLedgerStep ==
    ASSUME WorkersOK, [LeagueNext]_league
    PROVE  [LedgerNext]_ledger
<1>1. CASE UNCHANGED league
  BY <1>1 DEF league
<1>2. ASSUME NEW w \in Worker, WorkerStep(w)
      PROVE  [LedgerNext]_ledger
  <2>1. CASE AskForWork(w)
    <3>1. (w \in HasCuda) \in BOOLEAN
      OBVIOUS
    <3>2. GrantNothing(w \in HasCuda) \/ \E m \in DOMAIN matches : Grant(m, w \in HasCuda)
      BY <2>1 DEF AskForWork
    <3>3. RequestStep
      BY <3>1, <3>2 DEF RequestStep
    <3> QED
      BY <3>3 DEF LedgerNext
  <2>2. CASE \E o \in Outcome : Play(w, o)
    BY <2>2 DEF Play
  <2>3. CASE PostIsTaken(w)
    BY <2>3, RequestsAreTyped, ReportsAreRequests DEF PostIsTaken, LedgerNext
  <2>4. CASE PostIsRefused(w) \/ WorkerRestarts(w)
    BY <2>4 DEF PostIsRefused, WorkerRestarts
  <2> QED
    BY <1>2, <2>1, <2>2, <2>3, <2>4 DEF WorkerStep
<1>3. CASE Fault
  <2>1. ASSUME NEW w \in Worker, AskTimesOut(w) \/ PostTimesOut(w) \/ WorkerCrashes(w)
        PROVE  UNCHANGED ledger
    BY <2>1 DEF AskTimesOut, PostTimesOut, WorkerCrashes
  <2>2. ASSUME NEW q \in late, HandleLateAsk(q)
        PROVE  RequestStep
    BY <2>2, RequestsAreTyped DEF HandleLateAsk, RequestStep
  <2>3. ASSUME NEW q \in late, HandleLatePost(q)
        PROVE  RequestStep
    BY <2>3, RequestsAreTyped, ReportsAreRequests DEF HandleLatePost
  <2>4. CASE CoordinatorRestarts
    BY <2>4 DEF CoordinatorRestarts, LedgerNext
  <2> QED
    BY <1>3, <2>1, <2>2, <2>3, <2>4 DEF Fault, LedgerNext
<1>4. CASE ExportStep
  BY <1>4 DEF ExportStep, ReadResults, PublishShard, AdvanceCursor
<1>5. CASE OfCoordinator
  BY <1>5 DEF OfCoordinator, LedgerNext
<1> QED
  BY <1>1, <1>2, <1>3, <1>4, <1>5 DEF LeagueNext

-----------------------------------------------------------------------------
(* Requests stay about leases that were granted *)

\* Leases are never taken back and results never lost.
LEMMA LogsLast ==
    ASSUME RowsOK, SchedulerOK, [LedgerNext]_ledger
    PROVE  /\ \A m \in DOMAIN matches :
                 /\ m \in DOMAIN matches'
                 /\ matches'[m].attempts >= matches[m].attempts
                 /\ matches[m].attempts \in Nat
                 /\ matches'[m].attempts \in Nat
           /\ Len(results') >= Len(results)
           /\ Len(results) \in Nat
           /\ Len(results') \in Nat
<1>1. /\ results \in Seq(Result)
      /\ Len(results) \in Nat
      /\ \A m \in DOMAIN matches : matches[m].attempts \in Nat
  <2>1. results \in Seq(Result)
    BY DEF RowsOK
  <2> QED
    BY <2>1, LenProperties, RowsAreSound DEF Sound, Match
<1>2. CASE Revises
  BY <1>1, <1>2 DEF Revises, Moved, Sound, Match
<1>3. CASE Adds
  <2>1. PICK row : Untried(row) /\ matches' = Append(matches, row)
    BY <1>3 DEF Adds
  <2>2. \A m \in DOMAIN matches : m \in DOMAIN matches' /\ matches'[m] = matches[m]
    BY <2>1, RowsAreSound, AddRow DEF Untried
  <2> QED
    BY <1>1, <1>3, <2>2 DEF Adds
<1>4. CASE Records
  <2>1. PICK k, n, o :
            /\ k \in DOMAIN matches
            /\ n \in 1 .. matches[k].attempts
            /\ o \in Outcome
            /\ RecordResult([match |-> k, attempt |-> n, outcome |-> o])
    BY <1>4 DEF Records
  <2>2. matches' = Completed(k)
    BY <2>1 DEF RecordResult
  <2>3. \A m \in DOMAIN matches :
            m \in DOMAIN matches' /\ matches'[m].attempts = matches[m].attempts
    BY <2>2, RowsAreSound DEF Completed, Sound, Match
  <2>4. RecordedRow(k, n, o) \in Result /\ results' = Append(results, RecordedRow(k, n, o))
    BY <2>1, RecordEffects
  <2>5. Len(results') = Len(results) + 1
    BY <1>1, <2>4, AddRow
  <2> QED
    BY <1>1, <2>3, <2>5
<1> QED
  BY <1>2, <1>3, <1>4, StepKinds

\* What a request is about stays granted.
LEMMA RequestsLast ==
    ASSUME RowsOK, SchedulerOK, [LedgerNext]_ledger
    PROVE  Report \subseteq Report' /\ Playing \subseteq Playing'
<1>1. \A m \in DOMAIN matches :
          m \in DOMAIN matches' /\ 1 .. matches[m].attempts \subseteq 1 .. matches'[m].attempts
  BY LogsLast
<1> QED
  BY <1>1 DEF Report, Playing

\* A grant is the lease its number says.
LEMMA GrantedLease ==
    ASSUME RowsOK, NEW cuda, NEW m \in DOMAIN matches, Grant(m, cuda)
    PROVE  [phase |-> "playing", match |-> m, attempt |-> LeaseNumber(m)] \in Playing'
<1>1. matches' = [Requeued EXCEPT ![m].state = "leased", ![m].live = TRUE,
                                  ![m].attempts = @ + 1]
  BY DEF Grant
<1>2. /\ matches[m].attempts \in Nat
      /\ m \in DOMAIN Requeued
      /\ Requeued[m] \in Match
      /\ Requeued[m].attempts = matches[m].attempts
  <2>1. matches[m] \in Match
    BY RowsAreSound DEF Sound
  <2>2. Requeued[m] = matches[m] \/ Requeued[m] = [matches[m] EXCEPT !.state = "queued"]
    BY DEF Requeued
  <2> QED
    BY <2>1, <2>2, RequeuedMoves DEF Moved, Sound, Match
<1>3. m \in DOMAIN matches' /\ matches'[m] = Granted(Requeued[m])
  BY <1>1, <1>2 DEF Granted
<1>4. matches'[m].attempts = matches[m].attempts + 1
  BY <1>2, <1>3 DEF Granted, Match
<1> QED
  BY <1>2, <1>3, <1>4 DEF Playing, LeaseNumber

LEMMA WorkersStep ==
    ASSUME RowsOK, SchedulerOK, WorkersOK, [LeagueNext]_league
    PROVE  WorkersOK'
<1> DEFINE States == {Idle, Down} \cup Playing \cup [phase: {"posting"}, result: Report]
           Requests == Report \cup [cuda: BOOLEAN, number: Nat]
<1>1. [LedgerNext]_ledger
  BY LeagueStepIsLedgerStep
<1>2. Report \subseteq Report' /\ Playing \subseteq Playing'
  BY <1>1, RequestsLast
<1>3. States \subseteq States' /\ Requests \subseteq Requests'
  BY <1>2
<1>4. worker \in [Worker -> States] /\ late \subseteq Requests /\ faults \in 0 .. MaxFaults
  BY DEF WorkersOK
<1>5. /\ worker \in [Worker -> States']
      /\ late \subseteq Requests'
  BY <1>3, <1>4
<1>6. Idle \in States' /\ Down \in States'
  OBVIOUS
<1> SUFFICES /\ worker' \in [Worker -> States']
             /\ late' \subseteq Requests'
             /\ faults' \in 0 .. MaxFaults
  BY DEF WorkersOK
<1> HIDE DEF States, Requests
<1>7. ASSUME NEW w \in Worker, NEW s \in States', worker' = [worker EXCEPT ![w] = s]
      PROVE  worker' \in [Worker -> States']
  BY <1>5, <1>7
<1>8. faults < MaxFaults /\ faults' = faults + 1 => faults' \in 0 .. MaxFaults
  BY <1>4, LeagueAssumption
<1>9. CASE UNCHANGED <<worker, late, faults>>
  BY <1>4, <1>5, <1>9
<1>10. ASSUME NEW w \in Worker, WorkerStep(w)
       PROVE  worker' \in [Worker -> States'] /\ UNCHANGED <<late, faults>>
  <2>1. CASE AskForWork(w)
    <3>1. UNCHANGED <<late, faults>>
      BY <2>1 DEF AskForWork
    <3>2. ASSUME NEW m \in DOMAIN matches, Grant(m, w \in HasCuda),
                 worker' = [worker EXCEPT ![w] =
                     [phase |-> "playing", match |-> m, attempt |-> LeaseNumber(m)]]
          PROVE  worker' \in [Worker -> States']
      <4>1. [phase |-> "playing", match |-> m, attempt |-> LeaseNumber(m)] \in Playing'
        BY <3>2, GrantedLease
      <4>2. [phase |-> "playing", match |-> m, attempt |-> LeaseNumber(m)] \in States'
        BY <4>1 DEF States
      <4> QED
        BY <1>7, <3>2, <4>2
    <3> QED
      BY <1>5, <2>1, <3>1, <3>2 DEF AskForWork
  <2>2. ASSUME NEW o \in Outcome, Play(w, o)
        PROVE  worker' \in [Worker -> States'] /\ UNCHANGED <<late, faults>>
    <3> DEFINE s == [phase |-> "posting",
                     result |-> [match |-> worker[w].match,
                                 attempt |-> worker[w].attempt, outcome |-> o]]
    <3>1. worker[w] \in Playing'
      BY <1>2, <2>2, RequestsAreTyped DEF Play
    <3>2. UNCHANGED matches
      BY <2>2 DEF Play, ledger, tables
    <3>3. s.result \in Report'
      BY <3>1, <3>2 DEF Playing, Report
    <3>4. s \in States'
      BY <3>3 DEF States
    <3>5. worker' = [worker EXCEPT ![w] = s] /\ UNCHANGED <<late, faults>>
      BY <2>2 DEF Play
    <3> HIDE DEF s
    <3> QED
      BY <1>7, <3>4, <3>5
  <2>3. CASE PostIsTaken(w) \/ PostIsRefused(w) \/ WorkerRestarts(w)
    BY <1>6, <1>7, <2>3 DEF PostIsTaken, PostIsRefused, WorkerRestarts
  <2> QED
    BY <1>10, <2>1, <2>2, <2>3 DEF WorkerStep
<1>11. CASE Fault
  <2>1. ASSUME NEW w \in Worker, AskTimesOut(w)
        PROVE  UNCHANGED worker /\ late' \subseteq Requests' /\ faults' \in 0 .. MaxFaults
    <3>1. [cuda |-> w \in HasCuda, number |-> faults] \in Requests'
      BY <1>4, LeagueAssumption DEF Requests
    <3> QED
      BY <1>5, <1>8, <2>1, <3>1 DEF AskTimesOut
  <2>2. ASSUME NEW w \in Worker, PostTimesOut(w)
        PROVE  UNCHANGED worker /\ late' \subseteq Requests' /\ faults' \in 0 .. MaxFaults
    <3>1. worker[w].result \in Requests'
      BY <1>2, <2>2, RequestsAreTyped DEF PostTimesOut, Requests
    <3> QED
      BY <1>5, <1>8, <2>2, <3>1 DEF PostTimesOut
  <2>3. ASSUME NEW w \in Worker, WorkerCrashes(w)
        PROVE  /\ worker' \in [Worker -> States']
               /\ UNCHANGED late
               /\ faults' \in 0 .. MaxFaults
    BY <1>6, <1>7, <1>8, <2>3 DEF WorkerCrashes
  <2>4. ASSUME NEW q \in late, HandleLateAsk(q) \/ HandleLatePost(q)
        PROVE  UNCHANGED <<worker, faults>> /\ late' \subseteq Requests'
    BY <1>5, <2>4 DEF HandleLateAsk, HandleLatePost
  <2>5. ASSUME CoordinatorRestarts
        PROVE  UNCHANGED <<worker, late>> /\ faults' \in 0 .. MaxFaults
    BY <1>8, <2>5 DEF CoordinatorRestarts
  <2>6. CASE \E w \in Worker : AskTimesOut(w) \/ PostTimesOut(w) \/ WorkerCrashes(w)
    <3>1. PICK w \in Worker : AskTimesOut(w) \/ PostTimesOut(w) \/ WorkerCrashes(w)
      BY <2>6
    <3>2. CASE AskTimesOut(w)
      BY <1>5, <2>1, <3>2
    <3>3. CASE PostTimesOut(w)
      BY <1>5, <2>2, <3>3
    <3>4. CASE WorkerCrashes(w)
      BY <1>5, <2>3, <3>4
    <3> QED
      BY <3>1, <3>2, <3>3, <3>4
  <2>7. CASE \E q \in late : HandleLateAsk(q) \/ HandleLatePost(q)
    BY <1>4, <1>5, <2>4, <2>7
  <2>8. CASE CoordinatorRestarts
    BY <1>5, <2>5, <2>8
  <2> QED
    BY <1>11, <2>6, <2>7, <2>8 DEF Fault
<1>12. CASE ExportStep
  BY <1>9, <1>12 DEF ExportStep, ReadResults, PublishShard, AdvanceCursor, processes
<1>13. CASE OfCoordinator
  BY <1>9, <1>13 DEF OfCoordinator, processes
<1>14. CASE UNCHANGED league
  BY <1>9, <1>14 DEF league, processes
<1> QED
  BY <1>4, <1>5, <1>10, <1>11, <1>12, <1>13, <1>14 DEF LeagueNext

\* The league with its workers, lost and late requests, crashes and restarts is
\* an implementation of the ledger for arbitrary callers: every theorem about
\* LedgerSpec is one about the league.
THEOREM LeagueRefinesLedger == LeagueSpec => RefinesLedger
<1> DEFINE Inv == RowsOK /\ SchedulerOK /\ WorkersOK
<1>1. LeagueInit => Inv
  <2> SUFFICES ASSUME LeagueInit PROVE Inv
    OBVIOUS
  <2>1. RowsOK /\ SchedulerOK
    BY LedgerInitSound DEF LeagueInit
  <2>2. WorkersOK
    BY LeagueAssumption DEF LeagueInit, WorkersOK
  <2> QED
    BY <2>1, <2>2
<1>2. Inv /\ [LeagueNext]_league => Inv' /\ [LedgerNext]_ledger
  <2> SUFFICES ASSUME RowsOK, SchedulerOK, WorkersOK, [LeagueNext]_league
               PROVE  /\ RowsOK' /\ SchedulerOK' /\ WorkersOK'
                      /\ [LedgerNext]_ledger
    OBVIOUS
  <2>1. [LedgerNext]_ledger
    BY LeagueStepIsLedgerStep
  <2> QED
    BY <2>1, RowsStep, WorkersStep
<1>3. LeagueInit => LedgerInit
  BY DEF LeagueInit
<1> QED
  BY <1>1, <1>2, <1>3, PTL DEF LeagueSpec, RefinesLedger, LedgerSpec

\* A match of the league counts once and keeps its outcome, whatever is lost,
\* late or crashes.
COROLLARY LeagueCountsOnce == LeagueSpec => []ResultCountsOnce /\ HistoryIsFinal
BY LeagueRefinesLedger, CountsOnce, FinalStaysFinal, PTL DEF RefinesLedger

-----------------------------------------------------------------------------
(* The shards *)

Shard == [first: Nat, last: Nat]

LEMMA HighestOf ==
    ASSUME NEW m \in Nat, NEW n \in Nat
    PROVE  /\ Highest(m, n) \in Nat
           /\ \A k \in Nat : m <= k /\ n <= k => Highest(m, n) <= k
           /\ m <= n => Highest(m, n) = n
BY DEF Highest

\* The last shard, and one more.
LEMMA PublishedOf ==
    ASSUME ExporterOK
    PROVE  /\ Published \in Nat
           /\ Len(shards) \in Nat
           /\ DOMAIN shards = 1 .. Len(shards)
           /\ \A k \in DOMAIN shards : shards[k] \in Shard
<1>1. shards \in Seq(Shard)
  BY DEF ExporterOK, Shard
<1>2. Len(shards) \in Nat /\ DOMAIN shards = 1 .. Len(shards)
  BY <1>1, LenProperties
<1>3. \A k \in DOMAIN shards : shards[k] \in Shard
  BY <1>1, <1>2, ElementOfSeq
<1>4. shards # <<>> => Len(shards) \in DOMAIN shards
  BY <1>1, <1>2, EmptySeq
<1> QED
  BY <1>2, <1>3, <1>4 DEF Published, Shard

\* The exporter reads results that exist and that follow the last shard.
LEMMA ExportStepTiles ==
    ASSUME RowsOK, ExporterOK, ShardsTileResults, ExportStep
    PROVE  ExporterOK' /\ ShardsTileResults'
<1> USE DEF ShardsTileResults
<1>1. /\ cursor \in Nat
      /\ cursor <= Published
      /\ Published <= Len(results)
      /\ shards \in Seq(Shard)
      /\ exporter \in [phase: {"idle"}]
                      \cup [phase: {"writing"}, first: Nat, last: 1 .. Len(results)]
                      \cup [phase: {"advancing"}, last: 1 .. Len(results)]
  BY DEF ExporterOK, Shard
<1>2. Published \in Nat /\ Len(shards) \in Nat /\ DOMAIN shards = 1 .. Len(shards)
  BY PublishedOf
<1>3. UNCHANGED results /\ Len(results) \in Nat
  <2>1. results \in Seq(Result)
    BY DEF RowsOK
  <2>2. UNCHANGED results
    BY DEF ExportStep, ReadResults, PublishShard, AdvanceCursor, ledger, tables
  <2> QED
    BY <2>1, <2>2, LenProperties
<1>4. CASE ReadResults
  <2>1. Recovered = Published
    BY <1>1, <1>2, HighestOf DEF Recovered
  <2>2. cursor' = Published /\ shards' = shards
    BY <1>4, <2>1 DEF ReadResults
  <2>3. Published' = Published
    BY <2>2 DEF Published
  <2>4. CASE Len(results) = Published
    <3>1. exporter' = exporter /\ exporter.phase = "idle"
      BY <1>4, <2>1, <2>4 DEF ReadResults, NothingNew
    <3> QED
      BY <1>1, <1>2, <1>3, <2>2, <2>3, <3>1 DEF ExporterOK, Shard
  <2>5. CASE Len(results) # Published
    <3>1. exporter' = [phase |-> "writing", first |-> Published + 1, last |-> LastRow]
      BY <1>4, <2>1, <2>5 DEF ReadResults, NothingNew
    <3>2. LastRow \in 1 .. Len(results) /\ Published + 1 <= LastRow /\ Published + 1 \in Nat
      BY <1>1, <1>2, <1>3, <2>1, <2>5, LeagueAssumption DEF LastRow
    <3>3. exporter' \in [phase: {"writing"}, first: Nat, last: 1 .. Len(results')]
      BY <1>3, <3>1, <3>2
    <3>4. ExporterOK'
      BY <1>1, <1>2, <2>2, <3>3 DEF ExporterOK, Shard
    <3>5. /\ exporter'.phase = "writing"
          /\ exporter'.first = Published' + 1
          /\ exporter'.first <= exporter'.last
      BY <2>3, <3>1, <3>2
    <3>6. cursor' <= Published' /\ Published' <= Len(results')
      BY <1>1, <1>2, <1>3, <2>2, <2>3
    <3> QED
      BY <2>2, <3>4, <3>5, <3>6
  <2> QED
    BY <2>4, <2>5
<1>5. CASE PublishShard
  <2> DEFINE shard == [first |-> exporter.first, last |-> exporter.last]
  <2>1. /\ exporter.phase = "writing"
        /\ exporter.first = Published + 1
        /\ exporter.last \in 1 .. Len(results)
        /\ exporter' = [phase |-> "advancing", last |-> exporter.last]
        /\ cursor' = cursor
        /\ shards' = Append(shards, shard)
    BY <1>1, <1>5 DEF PublishShard
  <2>2. shard \in Shard
    BY <1>2, <1>3, <2>1 DEF Shard
  <2>3. /\ shards' \in Seq(Shard)
        /\ Len(shards') = Len(shards) + 1
        /\ DOMAIN shards' = DOMAIN shards \cup {Len(shards) + 1}
        /\ shards'[Len(shards) + 1] = shard
        /\ \A k \in DOMAIN shards : shards'[k] = shards[k]
    BY <1>1, <2>1, <2>2, AddRow
  <2>4. shards' # <<>>
    BY <1>2, <2>3
  <2>5. Published' = exporter.last
    BY <2>3, <2>4 DEF Published
  <2>6. cursor' <= Published' /\ Published' <= Len(results')
    BY <1>1, <1>2, <1>3, <2>1, <2>2, <2>5 DEF Shard
  <2>7. ASSUME NEW k \in DOMAIN shards'
        PROVE  shards'[k].first = IF k = 1 THEN 1 ELSE shards'[k - 1].last + 1
    <3>1. CASE k \in DOMAIN shards
      <4>1. shards'[k] = shards[k] /\ (k # 1 => shards'[k - 1] = shards[k - 1])
        BY <1>2, <2>3, <3>1
      <4>2. shards[k].first = IF k = 1 THEN 1 ELSE shards[k - 1].last + 1
        BY <3>1
      <4> QED
        BY <4>1, <4>2
    <3>2. CASE k = Len(shards) + 1
      <4>1. shards'[k].first = Published + 1
        BY <2>1, <2>3, <3>2
      <4>2. CASE k = 1
        <5>1. shards = <<>>
          BY <1>1, <1>2, <3>2, <4>2, EmptySeq
        <5> QED
          BY <4>1, <4>2, <5>1 DEF Published
      <4>3. CASE k # 1
        <5>1. k - 1 = Len(shards) /\ k - 1 \in DOMAIN shards
          BY <1>2, <3>2, <4>3
        <5>2. shards # <<>>
          BY <1>2, <5>1, EmptySeq
        <5>3. Published = shards[k - 1].last /\ shards'[k - 1] = shards[k - 1]
          BY <2>3, <5>1, <5>2 DEF Published
        <5> QED
          BY <4>1, <4>3, <5>3
      <4> QED
        BY <4>2, <4>3
    <3> QED
      BY <2>3, <3>1, <3>2
  <2>8. ExporterOK'
    BY <1>1, <1>3, <2>1, <2>3 DEF ExporterOK, Shard
  <2>9. exporter'.phase = "advancing" /\ exporter'.last <= Published'
    BY <1>3, <2>1, <2>5
  <2> QED
    BY <2>6, <2>7, <2>8, <2>9
<1>6. CASE AdvanceCursor
  <2>1. /\ exporter.phase = "advancing"
        /\ exporter.last \in 1 .. Len(results)
        /\ exporter.last <= Published
        /\ cursor' = Highest(cursor, exporter.last)
        /\ exporter' = [phase |-> "idle"]
        /\ shards' = shards
    BY <1>1, <1>6 DEF AdvanceCursor
  <2>2. cursor' \in Nat /\ cursor' <= Published
    <3>1. exporter.last \in Nat
      BY <1>3, <2>1
    <3> QED
      BY <1>1, <1>2, <2>1, <3>1, HighestOf
  <2>3. Published' = Published
    BY <2>1 DEF Published
  <2> QED
    BY <1>1, <1>2, <1>3, <2>1, <2>2, <2>3 DEF ExporterOK, Shard
<1> QED
  BY <1>4, <1>5, <1>6 DEF ExportStep

\* No other step touches cursor or shards; a crash of the coordinator only
\* ends the pass.
LEMMA OtherStepsTile ==
    ASSUME RowsOK, SchedulerOK, WorkersOK, ExporterOK, ShardsTileResults,
           [LeagueNext]_league, ~ExportStep
    PROVE  ExporterOK' /\ ShardsTileResults'
<1> USE DEF ShardsTileResults
<1>1. UNCHANGED <<cursor, shards>> /\ (UNCHANGED exporter \/ exporter' = [phase |-> "idle"])
  <2>1. CASE \E w \in Worker : WorkerStep(w)
    BY <2>1 DEF WorkerStep, AskForWork, Play, PostIsTaken, PostIsRefused, WorkerRestarts, export
  <2>2. CASE Fault
    BY <2>2 DEF Fault, AskTimesOut, PostTimesOut, WorkerCrashes, HandleLateAsk,
       HandleLatePost, CoordinatorRestarts, export
  <2>3. CASE OfCoordinator \/ UNCHANGED league
    BY <2>3 DEF OfCoordinator, league, export
  <2> QED
    BY <2>1, <2>2, <2>3 DEF LeagueNext
<1>2. Len(results') >= Len(results) /\ Len(results) \in Nat /\ Len(results') \in Nat
  BY LogsLast, LeagueStepIsLedgerStep
<1>3. Published' = Published /\ Published \in Nat
  BY <1>1, PublishedOf DEF Published
<1>4. 1 .. Len(results) \subseteq 1 .. Len(results')
  BY <1>2
<1>5. ExporterOK'
  BY <1>1, <1>4 DEF ExporterOK
<1>6. CASE UNCHANGED exporter
  BY <1>1, <1>2, <1>3, <1>5, <1>6
<1>7. CASE exporter' = [phase |-> "idle"]
  BY <1>1, <1>2, <1>3, <1>5, <1>7
<1> QED
  BY <1>1, <1>6, <1>7

\* Whatever is lost, late or crashes: requests under way are about granted
\* leases, shards hold each exported result once and in order, and telemetry
\* is blanked only behind them.
THEOREM ShardsTile == LeagueSpec => [](LeagueTypeOK /\ ShardsTileResults)
<1> DEFINE Inv == RowsOK /\ SchedulerOK /\ WorkersOK /\ ExporterOK /\ ShardsTileResults
<1>1. LeagueInit => Inv
  <2> SUFFICES ASSUME LeagueInit PROVE Inv
    OBVIOUS
  <2>1. RowsOK /\ SchedulerOK
    BY LedgerInitSound DEF LeagueInit
  <2>2. WorkersOK
    BY LeagueAssumption DEF LeagueInit, WorkersOK
  <2>3. /\ results = <<>> /\ shards = <<>> /\ cursor = 0 /\ exporter = [phase |-> "idle"]
        /\ Len(<<>>) = 0
        /\ \A S : <<>> \in Seq(S)
        /\ DOMAIN shards = {}
    BY DEF LeagueInit, LedgerInit
  <2> QED
    BY <2>1, <2>2, <2>3 DEF ExporterOK, ShardsTileResults, Published
<1>2. Inv /\ [LeagueNext]_league => Inv'
  <2> SUFFICES ASSUME Inv, [LeagueNext]_league
               PROVE  Inv'
    OBVIOUS
  <2>1. RowsOK' /\ SchedulerOK'
    BY LeagueStepIsLedgerStep, RowsStep
  <2>2. WorkersOK'
    BY WorkersStep
  <2>3. ExporterOK' /\ ShardsTileResults'
    BY ExportStepTiles, OtherStepsTile
  <2> QED
    BY <2>1, <2>2, <2>3
<1>3. Inv => LeagueTypeOK /\ ShardsTileResults
  BY DEF LeagueTypeOK
<1> QED
  BY <1>1, <1>2, <1>3, PTL DEF LeagueSpec

=============================================================================
