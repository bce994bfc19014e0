SPECIFICATION FairSpec
CONSTANTS
    page = page
    stop = stop
    Requests = {page, stop}
    Durable = {page, stop}
    Exposed = {}
    KindOf <- MCSmall
    Slots = 2
    Chunks = 1
    MaxCrashes = 1
PROPERTIES
    DurableIsExecuted
CHECK_DEADLOCK FALSE
