SPECIFICATION Spec
CONSTANTS
    Typeable <- Overlapping
    MaxWait = 1
    MaxListen = 1
    MaxRequests = 3
    MaxInFlight = 2
INVARIANTS
    GetShowsDatastore
CHECK_DEADLOCK FALSE
