CONSTANTS
    Accounts = {a1}
    Exchangers = {}
    None = None
    Base = 2
    Digits = 3
    QueryDepthLimit = 6
    CaseDiffers <- NoLetters
    MaxOwners = 3
    MaxPool = 1
    MaxPoolLevel = 0
    Names = {n1}
    DefaultName = base
    GenesisNumber = 4
    Batch = 3
    Short = 1
    Injections <- SomeInjections
    MaxRanges = 3
    MaxWeight = 0
    Bounds <- Polls
    MaxNumber = 4
SPECIFICATION Spec
INVARIANT MintNeverStops
SYMMETRY Symmetry
CHECK_DEADLOCK FALSE
