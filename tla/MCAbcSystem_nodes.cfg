SPECIFICATION SystemSpec
CONSTANTS
    AccountIds = {dave, erin, carol}
    DelegatorNames = {n1}
    NetAddresses = {addr1}
    Cids = {c1, c2}
    ResultCids <- MCResults
    Fees = {1}
    ErrandIds <- Uuid
    DefaultAccount = zero
    NoResult = none
    Modes = {FALSE}
    UpdateResultAccounts = {dave, erin}
    Endowment <- MCEndowment
    ExistentialDeposit = 1
    MaxBlock = 4
    MaxExtrinsics = 3
    Nodes = {dave, erin}
    Keystore <- MCOwnKey
    NoAddress = nowhere
    QueryPeriod = 3
    Delegators = {dave}
    Clients = {carol}
    MaxCalls = 3
INVARIANT ResultsAreExecuted
CHECK_DEADLOCK FALSE
