CONSTANTS
    Handlers = {h1, h2}
    RateLimit = 2
    RateBurst = 2
    DefaultRateLimit = 5
    DefaultRateBurst = 20
    Second = 3
    TTL = 5
    Lag = 1
    MaxTime = 7
    MaxDebt = 2
SPECIFICATION Spec
SYMMETRY Interchangeable
INVARIANTS TypeOK Budget BucketInUse
CHECK_DEADLOCK FALSE
