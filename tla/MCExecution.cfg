SPECIFICATION Spec
CONSTANTS
    Addrs = {"a", "b", "c"}
    Deployable = {"c"}
    Objects <- MCObjects
    Memories = {1, 2}
    SetAdds <- MCSetAdds
    Adds <- MCAdds
    Elements <- MCElements
    Increases = {1, 3}
    Thresholds = {1, 2}
    Indices = {0, 1}
    Values = {1}
    Witnesses = {1}
    GasLimit = 6
    MaxTxs = 1
    MaxInt = 3
    StartSize = 1
    MaxSize = 2
    MaxLimit = 2
INVARIANTS
    ViewIsOutcome
    AloneIsAdmitted
PROPERTY
    InvokeReturns
CHECK_DEADLOCK FALSE
