SPECIFICATION EngineSpec
CONSTANTS
    a = a
    b = b
    m1 = m1
    Nil = Nil
    AllMethods = AllMethods
    Txs <- MCTxs
    TxLists <- MCTxLists
    Served <- MCServed
    Events <- MCEvents
    EndHeights <- MCEndHeights
    MaxEvents = 3
    MaxBranch = 0
    MaxSeq = 14
    GenesisTime = 5
    BlockInterval = 3
    TimeModulus = 24
    MaxTimestamp = 20
CHECK_DEADLOCK FALSE
INVARIANTS
    HeightIsTheChains
    ClockIsExact
PROPERTIES
    RunsAsValidated
    EventsBeforeBlocks
    ScenarioEnds
