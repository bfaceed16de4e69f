SPECIFICATION ToolsSpec
CONSTANTS
    Header = 1
    LineSizes = {1, 2}
    PartBytes = 4
    AgeLimit = TRUE
    KeepFiles = 2
    DiskLimit = 6
    QueueLimit = 4
    ReplayLimit = 4
    MaxEvents = 2
    Times = {0, 1}
    MaxRecords = 5
    Conn = {"c", "d"}
    MaxLength = 2
    MaxQueued = 3
    MaxPendingSends = 2
    WriteBudget = 2
    MaxSends = 3
    MaxId = 2
    MaxPendingRequests = 2
    MaxReceived = 2
    ParseBudget = 1
    MaxChunk = 2
    MaxAddress = 1
    MaxQuantity = 2
    SlaveUnit = {"u"}
    MaxTransaction = 2
    Value = {"v"}
    Device = {"d1", "d2"}
    Char = {"c1"}
    DeviceOf <- MCDeviceOf
    Contested = {"d1"}
    PluginText = {"t1"}
    OutputLimit = 1
    MaxRows = 2
    MaxSaved = 2
    Name = {"", "A", "B"}
    MaxHistory = 2
    MaxListed = 1
    SentText = {"", "a", "b", "c"}
    MaxText = 3
    Page = 1
    Width = 2
    MaxMessages = 2
    MaxSignals = 2
    CanFrame <- MCFrame
    File <- MCFile
    Length = {8, 9, 12}
    LineLimit = 4
    DeviceUnit <- MCUnit
    Recording <- MCRecording
    MaxLines = 2
    MaxBytes = 5
    MaxShown = 1
    ReplayBudget = 2
    Speed = {1, 2}
    Mask = {{6}}
    EndTime = 2
    MaxLoads = 2
    MaxClears = 1
INVARIANTS
    Recorded
    ConnectionsSound
    DevicesSound
    ViewsSound
    ResultsSound
PROPERTIES
    NothingJumps
    EditorsSound
    WorkEnds
    BacklogEnds
CHECK_DEADLOCK FALSE
