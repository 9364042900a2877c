CONSTANTS
    Accounts = {a1}
    Exchangers = {e1, e2}
    None = None
    Base = 2
    Digits = 4
    QueryDepthLimit = 6
    CaseDiffers <- NoLetters
    MaxOwners = 3
    MaxPool = 1
    MaxPoolLevel = 0
    Names = {n1}
    DefaultName = base
    GenesisNumber = 4
    Batch = 3
    Short = 1
    Injections <- SomeInjections
    MaxRanges = 3
    MaxWeight = 2
    Bounds <- Trades
    MaxNumber = 6
SPECIFICATION Spec
INVARIANTS TypeOK OwnerFound MintGoesOn HeaviestNominated
PROPERTY UnusedKept
SYMMETRY Symmetry
CHECK_DEADLOCK FALSE
