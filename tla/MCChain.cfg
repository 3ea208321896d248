SPECIFICATION Spec
CONSTANTS
    t1 = t1
    t2 = t2
    Nil = Nil
    Txs <- MCTxs
    TxLists <- MCTxLists
    MaxBranch = 3
    MaxSeq = 6
    GenesisTime = 5
    BlockInterval = 3
    TimeModulus = 16
INVARIANTS
    CanonicalIsAPath
PROPERTIES
    FinalityIsPermanent
    FinalizedInclusionStands
    OrphansStayOrphaned
    KnownBlocksStand
    ImplementsForkChoice
