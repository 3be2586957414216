SPECIFICATION FairSpec
CONSTANTS
    Jobs = {j1, j2}
    Procs = {p1}
    Process = p1
    Slots = {s1, s2}
    NoDelivery = none
    Buffers = {1, 2}
    RepoFaults = {}
    StorageFaults = {"error"}
    Disturbances = {"signal", "timeout", "hangup", "listener", "kill"}
INVARIANTS
    TypeOK
    DeliveredOnce
    EveryJobCounted
    CountersMatchRecords
    StorageContract
    CleanExitLeavesNoTemp
    NoSendAfterClose
PROPERTIES
    RefinesStrictLifecycle
    CommandExits
    SeedingEnds
CHECK_DEADLOCK FALSE
