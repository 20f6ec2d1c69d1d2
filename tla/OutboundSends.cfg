\* Two callers, retries, lost answers, kills and a listener that comes and goes.
SPECIFICATION Spec
CONSTANTS
    api1 = api1
    api2 = api2
    k1 = k1
    t1 = t1
    NoKey = NoKey
    None = None
    Callers <- TwoCallers
    Keys <- OneKey
    Targets <- OneTarget
    MaxRequests = 3
    MaxFaults = 1
    MaxKills = 1
    MaxListenerMoves = 2
CHECK_DEADLOCK FALSE
SYMMETRY Symmetric
INVARIANTS
    TypeOK
    SentOnceIfAlone
    OutcomeAgrees
    DeliveriesStand
