SPECIFICATION PushSpec
CONSTANTS
    a = a
    Ops <- MCOps
    Values = {a}
    Types <- MCTypes
    TypeOf <- MCTypeOf
    Uids <- MCUids
    NoUid = 0
    NullPtr = NullPtr
    NoType = "nullopt"
    CountMod = 256
INVARIANT ShornOnlyWhileWriting
