SPECIFICATION Spec
CONSTANTS
    Ops = {o1, o2, o3}
    Deltas <- MCDeltas
    InitialObjects <- MCObjects
    MaxInt = 3
    StartSize = 1
    MaxSize = 2
SYMMETRY Symmetry
INVARIANTS
    TypeOK
    AnyOutcomeLegal
    MergeIsOutcome
    LeavesNoTrace
    EraseFindsElement
PROPERTY
    AdmissionIsExact
