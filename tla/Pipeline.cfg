\* Redelivery, kills, errors and reconcile passes; the services are restarted.
SPECIFICATION FairSpec
CONSTANTS
    m1 = m1
    m2 = m2
    Keys <- TwoMessages
    Ids <- TwoIds
    Never = Never
    BatchLimit = 1
    MaxTime = 1
    MaxCopies = 1
    MaxStops = 1
    MaxErrors = 1
    MaxReconciles = 1
CHECK_DEADLOCK FALSE
INVARIANTS
    TypeOK
    ProcessedStays
    Converges
PROPERTIES
    EveryEventEnds
    EventuallyMirrored
