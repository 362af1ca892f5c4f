SPECIFICATION Spec
CONSTANTS
    Actor = {a}
    Seat = {s1, s2, s3}
    FrozenRoutes = {TRUE}
    MaxResident = 2
    MaxInFlight = 3
    MaxSequences = 3
    ReplayCapacity = 3
    MaxBatch = 3
    Retries = 1
    VersionGap = 1
    MaxVersion = 1
    MaxIncarnation = 0
    MaxRequest = 2
    MaxBeforeRestart = 1
    MaxQueue = 3
INVARIANTS
    CleanupIsSafe
CHECK_DEADLOCK FALSE
