\* Requests of up to MaxLen bytes and encoded lists of one or two items.
SPECIFICATION Spec
CONSTANTS
    NumBackups = 3
    Alphabet = {1, 31, 32, 97, 128, 130, 159, 160, 255}
    MaxLen = 4
    Ample = 100
    Rooms = {5, 100}
    Inputs <- MCInputs
    Sources <- MCSources
INVARIANTS
    NothingLeaks
    ParseExact
    AnswerExact
PROPERTIES
    CallAdvances
