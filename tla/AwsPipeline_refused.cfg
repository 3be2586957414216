CONSTANTS
    Jobs = {j1}
    Procs = {p1}
    Slots = {s1}
    NoDelivery = none
    MaxReceive = 2
    RepoFaults = {}
    StorageFaults = {}
    QueueFaults = {}
    Disturbances = {"hangup"}
SPECIFICATION Spec
INVARIANT RefusedIsMarked
CHECK_DEADLOCK FALSE
