SPECIFICATION OperationSpec
CONSTANTS
    s1 = s1
    s2 = s2
    Replicas = {a}
    Reconciliations = {}
    SuspendRequests = {}
    Terminations = {}
    Readers = {reader}
    Operations = {first, second}
    Kinds = {"pause", "restart", "replace"}
    Base = base
    Volumes = {FALSE}
    Checkpoints = {TRUE}
    Published = {}
    Fresh = FALSE
    MaxTurns = 1
    MaxDeadlines = 0
    MaxExpiries = 0
    MaxFaults = 1
INVARIANTS
    RuntimeInv
    OneOperation
    OpenIsNotHeld
    OpenRunsItsSettings
PROPERTIES
    ImplementsOperations
    OperationEnds
CHECK_DEADLOCK FALSE
