\* Containers of up to four entries, of which the decoder reads two.
SPECIFICATION Spec
CONSTANTS
    NumBackups = 3
    MaxDepth = 4
    MaxLoop = 1
    MaxItems = 5
    KeyRoom = 30
    Calls = {"ipatch"}
    Alphabet = {}
    MaxLen = 0
    Room = 80
    Inputs <- WidePatches
INVARIANT
    PatchesItsSids
CHECK_DEADLOCK FALSE
