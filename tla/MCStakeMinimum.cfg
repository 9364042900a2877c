CONSTANTS
    a1 = a1
    a2 = a2
    Accounts = {a1, a2}
    Values = {1, 2, 3, 4}
    MinPledge = 4
    MinExchanger = 1
    DocumentedMin = 2
    CloseInterval = 2
    Cycle = 2
    CheckAt = 1
    Grace = 2
    Funds = 8
    Genesis <- OneStaked
    GenesisStake <- OneExchange
    Reverters = {}
    MaxNumber = 4
    MaxTx = 2
SPECIFICATION Spec
INVARIANTS MinimumStake
CHECK_DEADLOCK FALSE
