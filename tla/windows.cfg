SPECIFICATION Spec
CONSTANTS
    Worker = {w1, w2}
    Required = {w1, w2}
    AllowDegraded = TRUE
    MinimumDegraded = 1
    RetryCapable = {w1, w2}
    MaximumAttempts = 2
    Target = 1
    HighWater = 0
    Artifact = {}
    PrimaryOnlyModes = {FALSE}
    MaxSession = 2
    MaxLease = 1
    MaxPart = 1
    MaxWindow = 2
SYMMETRY Workers
INVARIANTS
    ActiveIsLive
    NothingRunsAtBoundary
PROPERTIES
    KeepsContract
