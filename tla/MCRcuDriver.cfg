SPECIFICATION Spec
CONSTANTS
    w1 = w1
    w2 = w2
    Nil = Nil
    NoOne = NoOne
    Txs <- MCTxs
    TxLists <- MCTxLists
    Writers <- MCWriters
    MaxBranch = 2
    MaxSeq = 4
    MaxSnapshots = 5
    GenesisTime = 5
    BlockInterval = 3
    TimeModulus = 16
INVARIANT
    AnnouncedIsPublished
PROPERTIES
    PublishedNeverChanges
    ImplementsChain
    EveryCallReturns
