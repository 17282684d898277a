SPECIFICATION Spec
CONSTANTS
    Values <- MCValues
    Models <- MCModels
    Visited <- MCVisited
    Sids <- MCSids
    Requests <- MCRequests
    MaxDepth = 4
INVARIANTS
    LookupExact
    ExamineExact
PROPERTY
    LookupEnds
