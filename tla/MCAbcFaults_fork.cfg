SPECIFICATION FaultSpec
CONSTANTS
    AccountIds = {dave, erin, carol}
    DelegatorNames = {n1}
    NetAddresses = {addr1}
    Cids = {c1, c2}
    ResultCids <- MCResults
    Fees = {1}
    ErrandIds <- Uuid
    DefaultAccount = zero
    NoResult = none
    Modes = {TRUE}
    UpdateResultAccounts = {erin}
    Endowment <- MCEndowment
    ExistentialDeposit = 1
    MaxBlock = 5
    MaxExtrinsics = 2
    Nodes = {dave, erin}
    Keystore <- MCOwnKey
    NoAddress = nowhere
    QueryPeriod = 2
    Delegators = {dave}
    Clients = {carol}
    MaxCalls = 2
    MaxRestarts = 0
    MaxLost = 0
    MaxForks = 1
INVARIANTS
    ReadyDelegatesAreKnown
    ErrandsAreSent
    ResultsAreExecuted
CHECK_DEADLOCK FALSE
