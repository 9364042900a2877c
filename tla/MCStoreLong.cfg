CONSTANTS
    MaxBlock = 5
    TriesInMemory = 2
    Archive = FALSE
    SnapSync = TRUE
    MaxCrashes = 1
    MaxStops = 1
SPECIFICATION Spec
INVARIANTS TypeOK HeadHasState HeadComplete
PROPERTIES StopKeepsHead
CHECK_DEADLOCK FALSE
