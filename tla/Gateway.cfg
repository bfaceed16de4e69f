SPECIFICATION MCSpec
CONSTANTS
    a = a
    b = b
    Client <- MCClient
    Supervisor = supervisor
    None = none
    EventCount = 1
    Batch = 1
    MaxLeases = 3
    MaxEvents = 2
    MaxPosts = 2
INVARIANTS
    LeaseIsolation
    StreamIsWhole
    SessionHasOwner
PROPERTY
    SupervisorActs
CHECK_DEADLOCK FALSE
