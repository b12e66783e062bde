SPECIFICATION SystemSpec
CONSTANTS
    AccountIds = {dave, erin}
    DelegatorNames = {n1}
    NetAddresses = {addr1}
    Cids = {c1, c2}
    ResultCids <- MCResults
    Fees = {1}
    ErrandIds <- Uuid
    DefaultAccount = zero
    NoResult = none
    Modes = {TRUE}
    UpdateResultAccounts = {dave}
    Endowment <- MCEndowment
    ExistentialDeposit = 1
    MaxBlock = 3
    MaxExtrinsics = 2
    Nodes = {node1}
    Keystore <- MCSharedKeys
    NoAddress = nowhere
    QueryPeriod = 2
    Delegators = {dave, erin}
    Clients = {}
    MaxCalls = 2
INVARIANT RevertsOnlyItsRequest
CHECK_DEADLOCK FALSE
