\* An old event is delivered again.
SPECIFICATION Spec
CONSTANTS
    m1 = m1
    m2 = m2
    Keys <- OneMessage
    Ids <- TwoIds
    Never = Never
    BatchLimit = 2
    MaxTime = 1
    MaxCopies = 1
    MaxStops = 0
    MaxErrors = 0
    MaxReconciles = 0
CHECK_DEADLOCK FALSE
INVARIANTS
    ReplayConverges
