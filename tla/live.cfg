SPECIFICATION FairSpec
CONSTANTS
    Worker = {w1, w2}
    Required = {w1, w2}
    AllowDegraded = TRUE
    MinimumDegraded = 1
    RetryCapable = {w1, w2}
    MaximumAttempts = 2
    Target = 1
    HighWater = 1
    Artifact = {a}
    PrimaryOnlyModes = {TRUE, FALSE}
    MaxSession = 1
    MaxLease = 2
    MaxPart = 1
    MaxWindow = 1
INVARIANTS
    ResultsAddUp
    TargetClosesWindow
PROPERTIES
    CompleteWindowIsImmutable
    DrainSettles
    CompletionsResolve
    RetryIsNotStarved
