SPECIFICATION SystemSpec
CONSTANTS
    AccountIds = {dave, erin, carol}
    DelegatorNames = {n1}
    NetAddresses = {addr1}
    Cids = {c1, c2}
    ResultCids <- MCResults
    Fees = {1}
    ErrandIds <- Uuid
    DefaultAccount = zero
    NoResult = none
    Modes = {TRUE}
    UpdateResultAccounts = {dave}
    Endowment <- MCEndowment
    ExistentialDeposit = 1
    MaxBlock = 4
    MaxExtrinsics = 3
    Nodes = {node1}
    Keystore <- MCSharedKeys
    NoAddress = nowhere
    QueryPeriod = 3
    Delegators = {dave, erin}
    Clients = {carol}
    MaxCalls = 4
PROPERTY CommittingDelegateIsPaid
CHECK_DEADLOCK FALSE
