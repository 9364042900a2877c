CONSTANTS
    MaxBlock = 3
    TriesInMemory = 2
    Archive = FALSE
    SnapSync = TRUE
    MaxCrashes = 0
    MaxStops = 0
SPECIFICATION LiveSpec
PROPERTIES SyncCatchesUp
CHECK_DEADLOCK FALSE
