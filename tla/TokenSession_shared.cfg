CONSTANTS
    Calls = {c1, c2, c3}
    NoCall = none
    MaxTokens = 4
    MaxLosses = 2
SPECIFICATION Spec
SYMMETRY Interchangeable
INVARIANTS OneTokenRequest AwaitsLiveRequest OneLossIsHidden
CHECK_DEADLOCK FALSE
