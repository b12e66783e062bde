SPECIFICATION LoopSpec
CONSTANTS
    ChainId = "local"
    Nodes = {"alice", "bob"}
    Config <- MCConfig
    MayCrash = {"bob"}
    Cids = {c1}
    QueryPeriod = 3
    MaxWorkers <- MCMaxWorkers
PROPERTIES
    ErrandsComplete
    StoredResultsLeave
    LoopComesToRest
