CONSTANTS
    MaxBlock = 3
    TriesInMemory = 2
    Archive = TRUE
    SnapSync = FALSE
    MaxCrashes = 1
    MaxStops = 0
SPECIFICATION Spec
INVARIANTS HeadHasLists
CHECK_DEADLOCK FALSE
