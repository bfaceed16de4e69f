SPECIFICATION FairSpec
CONSTANTS
    t1 = t1
    t2 = t2
    t3 = t3
    p1 = p1
    p2 = p2
    None = None
    Thread <- MCThread
    Process <- MCProcess
    ProcOf <- MCProcOf
    Loader <- MCLoader
    Modulus = 8
    FirstSeqs <- MCFirstSeqs
    Platforms = {"posix", "windows"}
    MaxCommits = 3
    MaxFaults = 2
INVARIANTS
    MutualExclusion
    NewestSelected
    CommittedSurvives
    LoadIsRecent
PROPERTIES
    LocksFreed
    SaveSparesSelected
    ImplementsRegister
CHECK_DEADLOCK FALSE
