SPECIFICATION RpcSpec
CONSTANTS
    t1 = t1
    Nil = Nil
    Txs <- MCTxs
    TxLists <- MCTxLists
    MaxBranch = 2
    MaxSeq = 3
    GenesisTime = 5
    BlockInterval = 3
    TimeModulus = 16
    Messages <- MCMessages
INVARIANTS
    BatchAgrees
    NeverInternalError
    FirstReadIsFresh
    FinalizedIsFinal
