SPECIFICATION Spec
CONSTANTS
    n1 = n1
    n2 = n2
    n3 = n3
    b1 = b1
    b2 = b2
    None = None
    Node <- MCNode
    ValSetAt <- MCHandoverValSetAt
    Unreliable = {}
    Impatient = {}
    Importers = {n3}
    Block <- MCBlock
    Number <- MCHeights
    Author <- MCAuthor
    MaxSeq = 2
    MaxRound = 0
    Ceil2Nby3Block = 0
INVARIANTS
    TypeOK
    CountsCurrentView
CHECK_DEADLOCK FALSE
