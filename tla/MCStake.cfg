CONSTANTS
    a1 = a1
    a2 = a2
    Accounts = {a1, a2}
    Values = {0, 1, 2}
    MinPledge = 2
    MinExchanger = 1
    DocumentedMin = 1
    CloseInterval = 2
    Cycle = 2
    CheckAt = 1
    Grace = 3
    Funds = 3
    Genesis <- OneStaked
    GenesisStake <- OneExchange
    Reverters = {a2}
    MaxNumber = 6
    MaxTx = 4
SPECIFICATION Spec
INVARIANTS TypeOK PledgeMirror StakersCover ActiveIsStaked SilentLeave
PROPERTIES NothingMinted
CHECK_DEADLOCK FALSE
