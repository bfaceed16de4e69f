SPECIFICATION Spec
CONSTANTS
    d1 = d1
    d2 = d2
    Device <- MCTwoDevices
    MaxTabs = 2
    MaxSpawns = 1
    MaxConnects = 2
PROPERTIES
    HeldPortRefused
CHECK_DEADLOCK FALSE
