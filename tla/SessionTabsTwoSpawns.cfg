SPECIFICATION Spec
CONSTANTS
    d1 = d1
    d2 = d2
    Device <- MCOneDevice
    MaxTabs = 2
    MaxSpawns = 2
    MaxConnects = 2
PROPERTIES
    WindowDrainsSpawns
CHECK_DEADLOCK FALSE
