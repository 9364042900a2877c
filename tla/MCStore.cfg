CONSTANTS
    MaxBlock = 4
    TriesInMemory = 2
    Archive = FALSE
    SnapSync = TRUE
    MaxCrashes = 2
    MaxStops = 1
SPECIFICATION LiveSpec
INVARIANTS HeadHasState HeadComplete
PROPERTIES StopKeepsHead CatchesUp
CHECK_DEADLOCK FALSE
