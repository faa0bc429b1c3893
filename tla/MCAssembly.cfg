SPECIFICATION FairSpec
CONSTANTS
    Workers = {1, 2}
    Txs = {1, 2, 3, 4, 5}
    GasOf <- MCGas
    Rpcs = {2}
    Batches <- MCBatches
    Overlap = FALSE
    MAX_MEMPOOL_SIZE = 6
    MaxTxs = 3
    GasLimit = 4
    GasLimitPerTx = 5
    MaxBlocks = 2
    Moved = Moved
INVARIANTS
    NoneLostOrTwice
    LimitsHold
    NoStrayWorker
PROPERTY
    AssemblyEnds
CHECK_DEADLOCK FALSE
