SPECIFICATION FairSpec
CONSTANTS
    Jobs = {j1}
    Past = {p1}
    Redelivery = FALSE
    NoJob = none
    Timeout = 2
    Retries = 2
    MaxEntries = 1
PROPERTY GivesUp
CHECK_DEADLOCK FALSE
