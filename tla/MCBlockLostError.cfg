SPECIFICATION Spec
CONSTANTS
    n1 = n1
    n2 = n2
    n3 = n3
    Nodes = {n3}
    Threads = {t1, t2}
    Keys = {"a", "b", "c"}
    Txs = {1, 2, 3}
    Program <- ReplayProgram
    Pools = {}
    ForeignBlocks <- ReplayBlocks
    Sisyphus = {n3}
    Genesis <- ReplayGenesis
    MaxInt = 10
    StartSize = 1
    MaxSize = 2
INVARIANT InvalidIsRejected
