SPECIFICATION ReaderSpec
CONSTANTS
    s1 = s1
    s2 = s2
    Replicas = {a, b}
    Reconciliations = {s1}
    SuspendRequests = {s1}
    Terminations = {s2}
    Readers = {reader}
    Operations = {}
    Kinds = {}
    Base = base
    Volumes = {TRUE}
    Checkpoints = {TRUE}
    Published = {}
    Fresh = TRUE
    MaxTurns = 0
    MaxDeadlines = 1
    MaxExpiries = 1
    MaxFaults = 1
PROPERTIES
    ClaimIsKept
    RemovesWhatItSaved
    ReaderIsAnswered
CHECK_DEADLOCK FALSE
