SPECIFICATION Spec
CONSTANTS
    Actor = {a}
    Seat = {s1, s2}
    FrozenRoutes = {TRUE, FALSE}
    MaxResident = 2
    MaxInFlight = 2
    MaxSequences = 2
    ReplayCapacity = 2
    MaxBatch = 2
    Retries = 1
    VersionGap = 1
    MaxVersion = 3
    MaxIncarnation = 1
    MaxRequest = 3
    MaxBeforeRestart = 1
    MaxQueue = 3
INVARIANTS
    PoolIsBalanced
    OneOwner
    BoundArtifactIsServed
    EndedStaysReleased
    RetriesAreSafe
CHECK_DEADLOCK FALSE
