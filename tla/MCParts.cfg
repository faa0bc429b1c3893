SPECIFICATION PartsSpec
CONSTANTS
    Ops = {o1, o2, o3}
    Entries = {1, 3, 4}
    Empty = Empty
    Tombstone = Tombstone
    NoEntry = NoEntry
    Capacities = {2, 3}
    shorthash <- MCshorthash
    Indices = {1, 2, 3}
    MaxLen = 5
    Adds = {1, 2, 3, 4}
    Word = 4
    Amounts = {0, 1, 3}
INVARIANTS
    NoDuplicates
    EraseFinds
    SearchTypeOK
    ClearsExactly
    BarrierReadsSum
PROPERTIES
    ImplementsSlotSet
    CallsReturn
    SearchEnds
