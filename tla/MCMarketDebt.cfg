CONSTANTS
    Users = {u1, u2}
    Exchangers = {x1, x2}
    None = None
    Unit = 4
    Royalties = {3}
    FeeRates = {3}
    Prices = {4}
    Funds = 5
    CloseInterval = 1
    MaxNFTs = 1
    MaxTraded = 10
    MaxNumber = 2
SPECIFICATION Spec
INVARIANT NeverInDebt
SYMMETRY MarketSymmetry
CHECK_DEADLOCK FALSE
