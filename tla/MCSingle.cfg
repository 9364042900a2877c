SPECIFICATION Spec
CONSTANTS
    n1 = n1
    n2 = n2
    n3 = n3
    b1 = b1
    b2 = b2
    None = None
    Node <- MCSingle
    ValSetAt <- MCSingleValSetAt
    Unreliable = {}
    Impatient = {n1}
    Importers = {}
    Block <- MCBlock
    Number <- MCNumber
    Author <- MCOneAuthor
    MaxSeq = 1
    MaxRound = 1
    Ceil2Nby3Block = 0
INVARIANTS
    RoundChangeQuorum
CHECK_DEADLOCK FALSE
