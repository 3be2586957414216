CONSTANTS
    Jobs = {j1, j2}
    Procs = {p1}
    Slots = {s1, s2}
    NoDelivery = none
    MaxReceive = 2
    RepoFaults = {}
    StorageFaults = {"error"}
    QueueFaults = {}
    Disturbances = {"hangup", "apicrash", "visibility"}
SPECIFICATION FairSpec
PROPERTY AcceptedSettles
CHECK_DEADLOCK FALSE
