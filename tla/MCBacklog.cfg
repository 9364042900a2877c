SPECIFICATION Spec
CONSTANTS
    p1 = p1
    p2 = p2
    Peer <- MCPeer
    ValidatorsAt <- MCValidatorsAt
    FirstSeq = 1
    LastSeq = 2
    MaxRound = 2
    MaxStored = 3
INVARIANTS
    NothingCurrentWaits
PROPERTIES
    NothingLost
CHECK_DEADLOCK FALSE
