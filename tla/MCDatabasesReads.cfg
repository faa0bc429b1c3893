SPECIFICATION Spec
CONSTANTS
    Kinds = {"Groundhog"}
    Keys = {"a", "b"}
    Txs <- MCTxs
    Genesis = "deploy"
    MaxBlocks = 1
    MaxTxs = 2
    MaxInt = 3
    StartSize = 1
    MaxSize = 2
INVARIANT
    LoggedKeysExist
