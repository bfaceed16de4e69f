SPECIFICATION FairSpec
CONSTANTS
    Steps = 2
    Rest = 1
    MaxSessions = 2
    MaxSpawns = 1
    MaxTaps = 2
INVARIANTS
    TapRefs
    OneTalker
    NeverAfterLoss
PROPERTIES
    SequencePaced
    InputReturns
CHECK_DEADLOCK FALSE
