SPECIFICATION RetrySpec
CONSTANTS
    s1 = s1
    s2 = s2
    Replicas = {a}
    Reconciliations = {}
    SuspendRequests = {}
    Terminations = {}
    Readers = {}
    Operations = {first, second}
    Kinds = {"replace"}
    Base = base
    Volumes = {TRUE}
    Checkpoints = {TRUE}
    Published = {}
    Fresh = FALSE
    MaxTurns = 0
    MaxDeadlines = 0
    MaxExpiries = 0
    MaxFaults = 1
PROPERTIES
    RetryRecovers
CHECK_DEADLOCK FALSE
