\* A reply the live path missed, to a recent root.
SPECIFICATION FairSpec
CONSTANTS
    daemon = daemon
    cli = cli
    Procs <- Daemon
    Lookback = 2
    MaxTs = 3
    MaxMishaps = 0
PROPERTIES
    RecentRepliesFetched
