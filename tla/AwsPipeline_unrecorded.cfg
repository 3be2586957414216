CONSTANTS
    Jobs = {j1}
    Procs = {p1}
    Slots = {s1}
    NoDelivery = none
    MaxReceive = 2
    RepoFaults = {}
    StorageFaults = {}
    QueueFaults = {}
    Disturbances = {"timeout"}
SPECIFICATION Spec
INVARIANT FailureIsRecorded
CHECK_DEADLOCK FALSE
