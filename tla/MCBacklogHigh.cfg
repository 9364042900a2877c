SPECIFICATION Spec
CONSTANTS
    p1 = p1
    p2 = p2
    Peer <- MCOnePeer
    ValidatorsAt <- MCOneValidatorAt
    FirstSeq = 33555
    LastSeq = 33556
    MaxRound = 1
    MaxStored = 2
INVARIANTS
    NothingCurrentWaits
CHECK_DEADLOCK FALSE
