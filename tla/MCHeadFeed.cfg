SPECIFICATION FeedSpec
CONSTANTS
    Nil = Nil
    Txs <- MCTxs
    TxLists <- MCTxLists
    MaxBranch = 2
    MaxSeq = 4
    GenesisTime = 5
    BlockInterval = 3
    TimeModulus = 16
    HeadSubBuffer = 2
    MaxSubs = 2
INVARIANTS
    RegisteredIffOpen
    NoGap
    CaughtUpKnowsHead
PROPERTIES
    ImplementsHeadSource
    WriterNeverBlocks
    EndIsSeen
