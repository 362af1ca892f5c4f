SPECIFICATION FairServiceSpec
CONSTANTS
    Worker = {w1}
    Required = {w1}
    AllowDegraded = TRUE
    MinimumDegraded = 1
    RetryCapable = {w1}
    MaximumAttempts = 2
    Target = 2
    HighWater = 0
    Artifact = {}
    PrimaryOnlyModes = {FALSE}
    MaxSession = 2
    MaxLease = 2
    MaxPart = 1
    MaxWindow = 1
    LearnerDrains = TRUE
    AbortRaces = FALSE
    PlanningFails = TRUE
    MaxFaults = 1
INVARIANTS
    CountsAgree
PROPERTIES
    DeliveryCompletes
    RefinesCoordinator
