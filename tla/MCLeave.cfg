SPECIFICATION LiveSpec
CONSTANTS
    n1 = n1
    n2 = n2
    n3 = n3
    b1 = b1
    b2 = b2
    None = None
    Node <- MCPair
    ValSetAt <- MCLeaveValSetAt
    Unreliable = {}
    Impatient = {}
    Importers = {n1, n2}
    Block <- MCBlock
    Number <- MCHeights
    Author <- MCAuthor
    MaxSeq = 2
    MaxRound = 0
    Ceil2Nby3Block = 0
INVARIANTS
    TypeOK
    CountsCurrentView
PROPERTIES
    LedgerSpec
    EventuallyCommitted
CHECK_DEADLOCK FALSE
