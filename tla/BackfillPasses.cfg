\* Reconcile comes round for ever beside a CLI backfill, on a channel that
\* goes on changing.
SPECIFICATION FairSpec
CONSTANTS
    daemon = daemon
    cli = cli
    Procs <- DaemonAndCli
    Lookback = 1
    MaxTs = 3
    MaxMishaps = 1
INVARIANTS
    TypeOK
    CheckpointCovers
PROPERTIES
    EventuallyFetched
