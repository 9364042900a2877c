CONSTANTS
    Users = {u1, u2}
    Exchangers = {x1, x2}
    None = None
    Unit = 4
    Royalties = {1}
    FeeRates = {2}
    Prices = {5}
    Funds = 6
    CloseInterval = 1
    MaxNFTs = 1
    MaxTraded = 10
    MaxNumber = 2
SPECIFICATION Spec
INVARIANTS ApprovedByOwner MoneyKept NoDebt
SYMMETRY MarketSymmetry
PROPERTY ExclusiveEarns
CHECK_DEADLOCK FALSE
