SPECIFICATION FairSpec
CONSTANTS
    Child = {1, 2, 3}
    MaxAttempts = 2
    WorkIds = 3
INVARIANTS
    OneChild
    ChannelIsInStep
    KillsItsOwn
PROPERTIES
    WarmingEnds
    CloseEnds
CHECK_DEADLOCK FALSE
