\* The daemon and a CLI backfill on the same message, cuts included.
SPECIFICATION Spec
CONSTANTS
    daemon = daemon
    cli = cli
    k1 = k1
    k2 = k2
    a = a
    b = b
    f1 = f1
    Procs <- TwoProcs
    Keys <- OneKey
    Texts <- TwoTexts
    Files <- OneFile
    NoRow = NoRow
    NoText = NoText
    NoMsg = NoMsg
    NoKey = NoKey
    MaxUpserts = 3
    MaxRebuilds = 1
    MaxListings = 1
    MaxCutUpserts = 1
    MaxCutEmbeds = 1
    MaxFailures = 1
CHECK_DEADLOCK FALSE
SYMMETRY BothSymmetric
INVARIANTS
    TypeOK
    IndexFollowsRow
    LinksFollowRow
    EmbeddingTracksText
