SPECIFICATION OrderedSpec
CONSTANTS
    a = a
    c = c
    Ops = {1, 2, 3}
    Values = {a, c}
    Types <- MCTypes
    TypeOf <- MCTypeOf
    Uids = {1, 2, 3, 4, 5, 6, 7, 8}
    NoUid = 0
    NullPtr = NullPtr
    NoType = "nullopt"
    CountMod = 4
INVARIANTS
    TypeOK
    ShornOnlyWhileWriting
    Agreement
    OnlyCommittedSurvives
PROPERTIES
    PointerStable
    ImplementsAgreedBase
    CallsReturn
