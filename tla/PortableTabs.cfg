SPECIFICATION FairSpec
CONSTANTS
    Tab = {a, b}
    Plain = {b}
    Path = {p}
    Logging = {TRUE}
    MaxEvents = 2
INVARIANTS
    BridgeAlone
    NeverAfterLoss
    ReceivedIsLogged
PROPERTIES
    RecordingOutlived
    CloseEnds
    LikeWindows
CHECK_DEADLOCK FALSE
