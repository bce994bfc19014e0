SPECIFICATION FairSpec
CONSTANTS
    q1 = q1
    q2 = q2
    Workers = {a, b}
    Requests = {q1, q2}
    Plain = {q1, q2}
    Deletable = {q1}
    Stock = {stock}
    MaxFaults = 1
INVARIANTS
    AllocatorInv
    NoMissedWakeUp
    CarriedOutOnce
PROPERTIES
    StockIsAdoptedOnce
    ServedIsReachable
    RequestEnds
    ImplementsRequests
CHECK_DEADLOCK FALSE
