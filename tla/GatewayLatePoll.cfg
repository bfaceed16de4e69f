SPECIFICATION Spec
CONSTANTS
    a = a
    b = b
    Client <- MCClient
    Supervisor = supervisor
    None = none
    EventCount = 2
    Batch = 1
    MaxLeases = 2
    MaxEvents = 3
    MaxPosts = 2
SYMMETRY MCSymmetry
INVARIANT
    AcknowledgedWereReceived
CHECK_DEADLOCK FALSE
