CONSTANTS
    Accounts = {a1, a2}
    Exchangers = {}
    None = None
    Base = 2
    Digits = 3
    QueryDepthLimit = 6
    CaseDiffers <- NoLetters
    MaxOwners = 2
    MaxPool = 2
    MaxPoolLevel = 1
    Names = {}
    DefaultName = base
    GenesisNumber = 8
    Batch = 8
    Short = 2
    Injections = {}
    MaxRanges = 1
    MaxWeight = 0
    Bounds <- Moves
    MaxNumber = 5
SPECIFICATION Spec
INVARIANT PoolUnheld
SYMMETRY Symmetry
CHECK_DEADLOCK FALSE
