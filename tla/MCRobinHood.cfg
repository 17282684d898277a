SPECIFICATION FairSpec
CONSTANTS
    k1 = k1  k2 = k2  k3 = k3
    Key <- Keys
    Value = {a, b}
    Null = Null
    Hash <- Hashes
    MinCap = 2
    GrowPct = 60
    ClearPct = 75
    ShrinkPct = 15
    AskedCap = {0, 3}
    GrowPowers = {2}
    MaxBuckets = 8
INVARIANTS
    TableSound
PROPERTIES
    ImplementsKeyMap
    ReturnsExact
    CallsEnd
CHECK_DEADLOCK FALSE
