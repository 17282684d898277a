SPECIFICATION StreamSpec
CONSTANTS
    MaxEvents = 3
    MaxItems = 2
    BufferSize = 3
    Event <- MCEvent
    Filter <- MCFilter
    Copy = {p1, p2, p3, p4}
    NoCopy = NoCopy
SYMMETRY CopySymmetry
INVARIANTS
    StreamTypeOK
    SlotsOwnLive
PROPERTIES
    ImplementsRecentLog
