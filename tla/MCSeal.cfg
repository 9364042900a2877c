CONSTANTS
    a1 = a1
    b1 = b1
    a2 = a2
    Foreign = Foreign
    None = None
    Block <- Tasks
    Number <- MinedNumber
    MaxSeq = 1
    MaxCommits = 2
    MaxStops = 1
    QueueSize = 1
    StaleThreshold = 0
    Sits = {1, 2}
SPECIFICATION LiveSpec
INVARIANTS WritesDecided OneWatcher Watched
PROPERTIES CoreUnblocks StopReturns SealProceeds
CHECK_DEADLOCK FALSE
