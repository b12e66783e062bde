SPECIFICATION Spec
CONSTANTS
    AccountIds = {alice, bob}
    DelegatorNames = {n1}
    NetAddresses = {addr1}
    Cids = {c1, c2}
    ResultCids = {r1}
    Fees = {0, 1, 2}
    ErrandIds = {id1}
    DefaultAccount = zero
    NoResult = none
    Modes = {FALSE, TRUE}
    UpdateResultAccounts = {alice}
    Endowment <- MCEndowment
    ExistentialDeposit = 2
    MaxBlock = 2
    MaxExtrinsics = 4
SYMMETRY MCSymmetry
INVARIANTS
    TypeOK
    ErrandIdsUnique
    OneTaskPerCidInBlock
    ProcessingMatchesErrands
    DoneIsReported
    ReserveIsPayable
PROPERTIES
    PaidOnlyOnCompletion
    TasksArePaidFor
CHECK_DEADLOCK FALSE
