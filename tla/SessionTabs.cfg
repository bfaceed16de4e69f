SPECIFICATION FairSpec
CONSTANTS
    d1 = d1
    d2 = d2
    Device <- MCOneDevice
    MaxTabs = 2
    MaxSpawns = 2
    MaxConnects = 2
INVARIANTS
    FreedWhenDone
    RecordingHasSession
    LogsDistinct
PROPERTIES
    CloseCompletes
CHECK_DEADLOCK FALSE
