SPECIFICATION FairSpec
CONSTANTS
    SendLimit = 3
    QueueLimit = 3
    Chunk = 2
    Sizes <- MCSizes
    MaxCommands = 3
    MaxConns = 2
    MaxRead = 1
    MaxEvents = 1
INVARIANTS
    NeverReplayed
    IdleMeansDrained
    CountersExact
    PulsedLineLowered
PROPERTY
    FinishReturns
CHECK_DEADLOCK FALSE
