SPECIFICATION FaultSpec
CONSTANTS
    AccountIds = {dave, carol}
    DelegatorNames = {n1}
    NetAddresses = {addr1}
    Cids = {c1, c2}
    ResultCids <- MCResults
    Fees = {1}
    ErrandIds <- Uuid
    DefaultAccount = zero
    NoResult = none
    Modes = {TRUE}
    UpdateResultAccounts = {dave}
    Endowment <- MCEndowment
    ExistentialDeposit = 1
    MaxBlock = 5
    MaxExtrinsics = 2
    Nodes = {dave}
    Keystore <- MCOwnKey
    NoAddress = nowhere
    QueryPeriod = 2
    Delegators = {dave}
    Clients = {carol}
    MaxCalls = 3
    MaxRestarts = 1
    MaxLost = 1
    MaxForks = 0
INVARIANTS
    ErrandsComeFromTasks
    ReadyUnlessLockLeft
    ErrandsAreSent
    ResultsAreExecuted
PROPERTY ImplementsService
CHECK_DEADLOCK FALSE
