SPECIFICATION FairSpec
CONSTANTS
    Updates = 6
    Interval = 3
    Retain = 4
    KeepLast = 2
    AdmitAfter = 2
    AdmitEvery = 1
    Capacity = 1
    Reentry = TRUE
    MaxCrash = 3
INVARIANTS
    Recoverable
PROPERTIES
    SettledProgressIsKept
    TrainingFinishes
CHECK_DEADLOCK FALSE
