SPECIFICATION Spec
CONSTANTS
    AccountIds = {alice, bob}
    DelegatorNames = {n1}
    NetAddresses = {addr1}
    Cids = {c1, c2}
    ResultCids = {r1}
    Fees = {0, 1, 2}
    ErrandIds = {id1}
    DefaultAccount = zero
    NoResult = none
    Modes = {FALSE}
    UpdateResultAccounts = {alice, bob}
    Endowment <- MCEndowment
    ExistentialDeposit = 2
    MaxBlock = 1
    MaxExtrinsics = 5
PROPERTY RecordedTasksStay
CHECK_DEADLOCK FALSE
