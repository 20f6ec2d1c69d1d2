\* The unified daemon alone, no upsert cut short.
SPECIFICATION FairSpec
CONSTANTS
    daemon = daemon
    cli = cli
    k1 = k1
    k2 = k2
    a = a
    b = b
    f1 = f1
    Procs <- OneProc
    Keys <- TwoKeys
    Texts <- TwoTexts
    Files <- OneFile
    NoRow = NoRow
    NoText = NoText
    NoMsg = NoMsg
    NoKey = NoKey
    MaxUpserts = 3
    MaxRebuilds = 1
    MaxListings = 0
    MaxCutUpserts = 0
    MaxCutEmbeds = 1
    MaxFailures = 1
CHECK_DEADLOCK FALSE
PROPERTIES
    Projects
    EventuallyFresh
