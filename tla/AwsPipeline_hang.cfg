CONSTANTS
    Jobs = {j1}
    Procs = {p1}
    Slots = {s1, s2}
    NoDelivery = none
    MaxReceive = 2
    RepoFaults = {}
    StorageFaults = {"error"}
    QueueFaults = {"error", "lost"}
    Disturbances = {"visibility", "signal", "timeout", "crash", "restart"}
SPECIFICATION HistoryHangSpec
INVARIANT ProcessingIsExplained
PROPERTIES RunReturns WorkerIsFreed
CHECK_DEADLOCK FALSE
