SPECIFICATION Spec
CONSTANTS
    Workers = {1, 2}
    Txs = {1, 2, 3}
    GasOf <- MCGas
    Rpcs = {}
    Batches <- SmallBatches
    Overlap = TRUE
    MAX_MEMPOOL_SIZE = 2
    MaxTxs = 2
    GasLimit = 3
    GasLimitPerTx = 5
    MaxBlocks = 1
    Moved = Moved
INVARIANT SpaceOverestimated
CHECK_DEADLOCK FALSE
