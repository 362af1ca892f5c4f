SPECIFICATION ServiceSpec
CONSTANTS
    Worker = {w1}
    Required = {w1}
    AllowDegraded = TRUE
    MinimumDegraded = 1
    RetryCapable = {w1}
    MaximumAttempts = 2
    Target = 1
    HighWater = 0
    Artifact = {}
    PrimaryOnlyModes = {TRUE}
    MaxSession = 2
    MaxLease = 2
    MaxPart = 1
    MaxWindow = 1
    LearnerDrains = TRUE
    AbortRaces = FALSE
    PlanningFails = FALSE
    MaxFaults = 0
INVARIANTS
    LoopIsNeverAborted
