SPECIFICATION FairSpec
CONSTANTS
    page = page
    stop = stop
    Requests = {page, stop}
    Durable = {stop}
    Exposed = {page}
    KindOf <- MCKindOf
    Slots = 1
    Chunks = 1
    MaxCrashes = 1
INVARIANTS
    
    
    CancelReachesExecution
PROPERTIES
    DoneIsFinal
    CommandIsAnswered
CHECK_DEADLOCK FALSE
