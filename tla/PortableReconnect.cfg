SPECIFICATION Spec
CONSTANTS
    Tab = {a}
    Plain = {}
    Path = {p}
    Logging = {TRUE}
    MaxEvents = 2
INVARIANTS
    NeverReplayed
CHECK_DEADLOCK FALSE
