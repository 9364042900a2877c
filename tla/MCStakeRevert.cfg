CONSTANTS
    a1 = a1
    a2 = a2
    Accounts = {a1, a2}
    Values = {0, 1, 2}
    MinPledge = 2
    MinExchanger = 1
    DocumentedMin = 1
    CloseInterval = 2
    Cycle = 2
    CheckAt = 1
    Grace = 2
    Funds = 3
    Genesis <- OneStaked
    GenesisStake <- OneExchange
    Reverters = {a1, a2}
    MaxNumber = 4
    MaxTx = 2
SPECIFICATION Spec
INVARIANTS RevertsAll
CHECK_DEADLOCK FALSE
