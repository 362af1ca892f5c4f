SPECIFICATION FairLeagueSpec
CONSTANTS
    Controller <- Controllers
    Deck = {"d1", "d2"}
    KindOf <- Kinds
    Checkpoint <- Controllers
    NeedsCuda = {"manual"}
    Compatible <- Pairs
    QueueTarget = 1
    MinimumGames = 1
    MaximumGames = 2
    SchedulerRuns = FALSE
    MaxMatch = 2
    MaxAttempts = 4
    Worker = {w1}
    HasCuda = {w1}
    ShardRows = 1
    MaxFaults = 2
INVARIANTS
    ShardsTileResults
PROPERTIES
    RefinesLedger
    ChallengeFinishes
    ResultsAreExported
