CONSTANTS
    Accounts = {a1, a2}
    Exchangers = {e1, e2}
    None = None
    Base = 2
    Digits = 3
    QueryDepthLimit = 6
    CaseDiffers <- NoLetters
    MaxOwners = 3
    MaxPool = 1
    MaxPoolLevel = 0
    Names = {n1}
    DefaultName = base
    GenesisNumber = 4
    Batch = 3
    Short = 1
    Injections <- SomeInjections
    MaxRanges = 3
    MaxWeight = 2
    Bounds <- MovesOrPolls
    MaxNumber = 4
SPECIFICATION Spec
INVARIANTS EachOnce FullyMerged MintGoesOn HeaviestNominated
PROPERTY NamedOnly
SYMMETRY Symmetry
CHECK_DEADLOCK FALSE
