SPECIFICATION Spec
CONSTANTS
    Key <- MCKey
    TableSize = 2
    MaxLoop = 1
    hashKey <- MCHash
    Value = {v1, v2, v3, v4, v5}
    Null = Null
SYMMETRY ValueSymmetry
INVARIANTS
    TypeOK
    TableWellFormed
    SizeExact
    OwnedOnce
PROPERTIES
    LeakOnlyOnRefusal
    ImplementsKeyMap
