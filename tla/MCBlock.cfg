SPECIFICATION MCSpec
CONSTANTS
    n1 = n1
    n2 = n2
    n3 = n3
    Nodes = {n1, n2, n3}
    Threads = {1, 2, 3}
    Keys = {"a", "b", "c"}
    Txs = {1, 2, 3, 4, 5, 6, 7, 8, 9}
    Program <- AllProgram
    Pools <- PayPools
    ForeignBlocks <- LateBlocks
    Sisyphus = {n3}
    Genesis <- AllGenesis
    MaxInt = 10
    StartSize = 1
    MaxSize = 2
INVARIANTS
    AllOrNothing
    CleanBetweenBlocks
PROPERTIES
    MoneyConserved
    ProposedIsValid
    BlockEnds
