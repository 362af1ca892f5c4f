SPECIFICATION FairSpec
CONSTANTS
    Reader = {r}
    Tensor = {t1, t2}
    SlotCount = 2
    VersionGap = 2
    MaxResident = 2
    MaxVersion = 5
    MaxLayout = 2
INVARIANTS
    AdvertisedIsReadable
PROPERTIES
    IsAtomic
    LoadersCatchUp
CHECK_DEADLOCK FALSE
