SPECIFICATION Spec
CONSTANTS
    t1 = t1
    t2 = t2
    t3 = t3
    p1 = p1
    p2 = p2
    None = None
    Thread <- MCPair
    Process <- MCProcess
    ProcOf <- MCPairOf
    Loader <- MCLoader
    Modulus = 8
    FirstSeqs <- MCFirstSeqs
    Platforms = {"posix", "windows"}
    MaxCommits = 4
    MaxFaults = 0
INVARIANT
    LoadFindsStore
CHECK_DEADLOCK FALSE
