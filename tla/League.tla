------------------------------- MODULE League -------------------------------
(***************************************************************************)
(* The continuous league: LeagueLedger with the workers that play its      *)
(* matches (worker.py, worker_pool.py) and the exporter that writes its    *)
(* results to Parquet shards (telemetry.py).                               *)
(*                                                                         *)
(* A worker asks for a lease, plays, posts the result until it is          *)
(* answered, and asks again.  A request may time out at the worker while   *)
(* the coordinator still gets to it later.  Workers and the coordinator    *)
(* may crash at any step; files and tables survive.                        *)
(***************************************************************************)
EXTENDS LeagueLedger

CONSTANTS
    Worker,      \* worker ids
    HasCuda,     \* the workers whose probe finds a usable GPU
    ShardRows,   \* telemetry_shard_rows
    MaxFaults    \* bound: timeouts and crashes

ASSUME LeagueAssumption ==
    /\ HasCuda \subseteq Worker
    /\ ShardRows \in Nat \ {0}
    /\ MaxFaults \in Nat

VARIABLES
    worker,     \* what each worker is doing, and for which execution
    late,       \* requests the coordinator will handle, if ever, for nobody
    exporter,   \* how far the export pass has come
    cursor,     \* metadata telemetry_result_seq; earlier telemetry is blank
    shards,     \* the published shards
    faults      \* timeouts and crashes so far

processes == <<worker, late, faults>>
export == <<exporter, cursor, shards>>
league == <<ledger, processes, export>>

Idle == [phase |-> "idle"]
Down == [phase |-> "down"]

\* a shard holds the results from first to last
Published == IF shards = <<>> THEN 0 ELSE shards[Len(shards)].last

LeagueInit ==
    /\ LedgerInit
    /\ worker = [w \in Worker |-> Idle]
    /\ late = {}
    /\ exporter = [phase |-> "idle"]
    /\ cursor = 0
    /\ shards = <<>>
    /\ faults = 0

-----------------------------------------------------------------------------
(* Workers *)

LeaseNumber_Old(m) == matches[m].attempts
LeaseNumber(m) == matches[m].attempts + 1

\* _lease answered in time
AskForWork(w) ==
    /\ worker[w] = Idle
    /\ \/ \E m \in DOMAIN matches :
            /\ Grant(m, w \in HasCuda)
            /\ worker' = [worker EXCEPT ![w] =
                    [phase |-> "playing", match |-> m,
                     attempt |-> LeaseNumber(m)]]
       \/ GrantNothing(w \in HasCuda) /\ UNCHANGED worker
    /\ UNCHANGED <<late, faults, export>>

\* _lease timed out: the worker sleeps and asks again
AskTimesOut(w) ==
    /\ worker[w] = Idle
    /\ faults < MaxFaults
    /\ late' = late \cup {[cuda |-> w \in HasCuda, number |-> faults]}
    /\ faults' = faults + 1
    /\ UNCHANGED <<ledger, worker, export>>

HandleLateAsk(q) ==
    /\ q \in late
    /\ "cuda" \in DOMAIN q
    /\ GrantNothing(q.cuda) \/ \E m \in DOMAIN matches : Grant(m, q.cuda)
    /\ late' = late \ {q}
    /\ UNCHANGED <<worker, faults, export>>

\* _execute: the game's outcome, or an infrastructure error
Play(w, outcome) ==
    /\ worker[w].phase = "playing"
    /\ worker' = [worker EXCEPT ![w] =
            [phase |-> "posting",
             result |-> [match |-> worker[w].match, attempt |-> worker[w].attempt,
                         outcome |-> outcome]]]
    /\ UNCHANGED <<ledger, late, faults, export>>

Posting(w) == worker[w].phase = "posting"

\* _submit_result answered: recorded, or already recorded
PostIsTaken(w) ==
    /\ Posting(w)
    /\ ~Refuses(worker[w].result)
    /\ SubmitResult(worker[w].result)
    /\ worker' = [worker EXCEPT ![w] = Idle]
    /\ UNCHANGED <<late, faults, export>>

\* the coordinator answers 409: RuntimeError ends the worker
PostIsRefused(w) ==
    /\ Posting(w)
    /\ Refuses(worker[w].result)
    /\ worker' = [worker EXCEPT ![w] = Down]
    /\ UNCHANGED <<ledger, late, faults, export>>

\* no answer in time: the worker posts the same result again
PostTimesOut(w) ==
    /\ Posting(w)
    /\ faults < MaxFaults
    /\ late' = late \cup {worker[w].result}
    /\ faults' = faults + 1
    /\ UNCHANGED <<ledger, worker, export>>

HandleLatePost(r) ==
    /\ r \in late
    /\ "outcome" \in DOMAIN r
    /\ SubmitResult(r)
    /\ late' = late \ {r}
    /\ UNCHANGED <<worker, faults, export>>

WorkerCrashes(w) ==
    /\ worker[w] # Down
    /\ faults < MaxFaults
    /\ worker' = [worker EXCEPT ![w] = Down]
    /\ faults' = faults + 1
    /\ UNCHANGED <<ledger, late, export>>

\* run_worker_pool starts the slot again
WorkerRestarts(w) ==
    /\ worker[w] = Down
    /\ worker' = [worker EXCEPT ![w] = Idle]
    /\ UNCHANGED <<ledger, late, faults, export>>

-----------------------------------------------------------------------------
(* Telemetry export *)

Highest(m, n) == IF m > n THEN m ELSE n

\* the pass starts by looking for a shard the cursor does not cover
Recovered_Skipped == cursor
Recovered == Highest(cursor, Published)

\* the last row of the next shard
LastRow ==
    IF Len(results) > Recovered + ShardRows
    THEN Recovered + ShardRows ELSE Len(results)

\* pending_telemetry_rows returns nothing
NothingNew_OneBehind == Len(results) <= Recovered + 1
NothingNew == Len(results) = Recovered

\* the first half of export_available; nobody else moves the cursor, so that
\* looking it up, recovering it and reading the next results are one step
ReadResults ==
    /\ exporter.phase = "idle"
    /\ cursor' = Recovered
    /\ exporter' =
         IF NothingNew THEN exporter
         ELSE [phase |-> "writing", first |-> Recovered + 1, last |-> LastRow]
    /\ UNCHANGED <<shards, ledger, processes>>

\* pending.replace(path): the shard is there, the cursor is not yet
PublishShard ==
    /\ exporter.phase = "writing"
    /\ shards' = Append(shards, [first |-> exporter.first, last |-> exporter.last])
    /\ exporter' = [phase |-> "advancing", last |-> exporter.last]
    /\ UNCHANGED <<cursor, ledger, processes>>

\* advance_telemetry_cursor
AdvanceCursor ==
    /\ exporter.phase = "advancing"
    /\ cursor' = Highest(cursor, exporter.last)
    /\ exporter' = [phase |-> "idle"]
    /\ UNCHANGED <<shards, ledger, processes>>

\* the coordinator's process crashes and starts again
CoordinatorRestarts ==
    /\ faults < MaxFaults
    /\ Restart
    /\ exporter' = [phase |-> "idle"]
    /\ faults' = faults + 1
    /\ UNCHANGED <<worker, late, cursor, shards>>

-----------------------------------------------------------------------------

WorkerStep(w) ==
    \/ AskForWork(w)
    \/ \E o \in Outcome : Play(w, o)
    \/ PostIsTaken(w)
    \/ PostIsRefused(w)
    \/ WorkerRestarts(w)

Fault ==
    \/ \E w \in Worker : AskTimesOut(w) \/ PostTimesOut(w) \/ WorkerCrashes(w)
    \/ \E q \in late : HandleLateAsk(q) \/ HandleLatePost(q)
    \/ CoordinatorRestarts

ExportStep == ReadResults \/ PublishShard \/ AdvanceCursor

OfCoordinator ==
    /\ SchedulerStep \/ OperatorStep \/ \E m \in DOMAIN matches : LeaseExpires(m)
    /\ UNCHANGED <<processes, export>>

LeagueNext ==
    \/ \E w \in Worker : WorkerStep(w)
    \/ Fault
    \/ ExportStep
    \/ OfCoordinator

LeagueSpec == LeagueInit /\ [][LeagueNext]_league

=============================================================================
