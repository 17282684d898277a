\* Payloads of up to MaxLen bytes after each opening, and encoded datastores,
\* with small limits: 3 backups, maps of at most 2 entries.
SPECIFICATION Spec
CONSTANTS
    NumBackups = 3
    MaxDepth = 4
    MaxLoop = 1
    MaxItems = 5
    KeyRoom = 30
    Calls = {"put", "post", "ipatch"}
    Alphabet = {1, 25, 32, 97, 129, 159, 161, 191, 192, 255}
    MaxLen = 4
    Room = 80
    Inputs <- MCInputs
INVARIANTS
    CursorInside
    PutExact
    PostExact
    PatchExact
    RoundTrip
PROPERTIES
    RequestAdvances
\* A call that has ended, and an array at MaxItems, take no further step.
CHECK_DEADLOCK FALSE
