CONSTANTS
    a1 = a1
    b1 = b1
    a2 = a2
    Foreign = Foreign
    None = None
    Block <- Tasks
    Number <- MinedNumber
    MaxSeq = 1
    MaxCommits = 1
    MaxStops = 1
    QueueSize = 2
    StaleThreshold = 0
    Sits = {1, 2}
SPECIFICATION LiveSpec
PROPERTIES ResumesMining
CHECK_DEADLOCK FALSE
