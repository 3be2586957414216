CONSTANTS
    Jobs = {j1}
    Procs = {p1, p2}
    Slots = {s1}
    NoDelivery = none
    MaxReceive = 2
    RepoFaults = {"error", "lost"}
    StorageFaults = {"error", "lost"}
    QueueFaults = {"error", "lost"}
    Disturbances = {"timeout", "visibility", "signal", "crash", "restart"}
SPECIFICATION Spec
SYMMETRY Interchangeable
INVARIANTS TypeOK MessageHasInput AcceptedNotLost ResultIsStored ErrorIsFailure
PROPERTIES RefinesLifecycle FinishedIsFinal
CHECK_DEADLOCK FALSE
