\* Two API requests with one idempotency key at the same time.
SPECIFICATION Spec
CONSTANTS
    api1 = api1
    api2 = api2
    k1 = k1
    t1 = t1
    NoKey = NoKey
    None = None
    Callers <- TwoCallers
    Keys <- OneKey
    Targets <- OneTarget
    MaxRequests = 2
    MaxFaults = 0
    MaxKills = 0
    MaxListenerMoves = 0
CHECK_DEADLOCK FALSE
INVARIANTS
    SentOnce
