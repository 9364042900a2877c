SPECIFICATION Spec
CONSTANTS
    n1 = n1
    n2 = n2
    n3 = n3
    b1 = b1
    b2 = b2
    None = None
    Node <- MCPair
    ValSetAt <- MCPairValSetAt
    Unreliable = {}
    Impatient = {n1, n2}
    Importers = {}
    Block <- MCBlock
    Number <- MCNumber
    Author <- MCAuthor
    MaxSeq = 1
    MaxRound = 1
    Ceil2Nby3Block = 0
INVARIANTS
    OnlyProposerProposes
CHECK_DEADLOCK FALSE
