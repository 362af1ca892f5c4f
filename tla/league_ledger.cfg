SPECIFICATION LedgerSpec
CONSTANTS
    Controller <- Controllers
    Deck = {"d1", "d2"}
    KindOf <- Kinds
    Checkpoint <- Controllers
    NeedsCuda = {"manual"}
    Compatible <- Pairs
    QueueTarget = 1
    MinimumGames = 1
    MaximumGames = 2
    SchedulerRuns = TRUE
    MaxMatch = 2
    MaxAttempts = 2
INVARIANTS
    ResultCountsOnce
    RatingsAreReplayable
    CandidateGamesAddUp
    BundlesFollowController
    QueueIsSound
PROPERTIES
    HistoryIsFinal
