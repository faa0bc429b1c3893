SPECIFICATION Spec
CONSTANTS
    Kinds = {"StateDB", "StateDBv2", "Groundhog", "Sisyphus"}
    Keys = {"a", "b"}
    Txs <- MCTxs
    Genesis = "deploy"
    MaxBlocks = 3
    MaxTxs = 2
    MaxInt = 3
    StartSize = 1
    MaxSize = 2
INVARIANTS
    ThrowsExplained
PROPERTIES
    BlockLeavesExactly
    NoKeyRecordLost
    ContractRecordKept
