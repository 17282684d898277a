SPECIFICATION FairSpec
CONSTANTS
    Typeable <- EveryCommand
    MaxWait = 1
    MaxListen = 1
    MaxRequests = 6
    MaxInFlight = 1
INVARIANTS
    TypeOK
    OwnAnswer
    FreshAnswer
    CompatibleServer
PROPERTIES
    CommandsEnd
CHECK_DEADLOCK FALSE
