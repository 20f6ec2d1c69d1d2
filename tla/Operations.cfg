SPECIFICATION Spec
CONSTANTS
  Names = {a, b}
  Operators = {o1, o2}
  NoTenant = none
  MaxOperations = 4
  Core = {api}
  TenantUnits = {daemon}
  MaxVersion = 2
  MaxCommands = 3
  MaxCrashes = 1
  MaxBreaks = 4
  Workspaces <- TwoWorkspaces
  EventLimit = 1
  Channels = {1, 2}
  FirstChannels = {2}
  ChannelLimit = 1
  MaxEvents = 3
  MaxFaults = 2
  Mirror <- SmallMirror
  Texts <- SmallTexts
  Labels <- ChannelLabels
  Aliases <- DomainAliases
  Tokens <- SmallTokens
  MaxTokens = 2
  Rows <- FoundRows
  Late <- LateRows
  Spaces = {"alpha", "beta"}
  MinPool = 2
  FusionK = 3
  TopN = 2
  Limits = {1, 2}
  MaxOffset = 8
  Threads = {t1, t2}
  Models = {"hash", "bge", "e5"}
  Builtin <- BuiltinProfiles
  Overrides <- ProfileOverrides
  Configured <- DefaultSettings
  MaxChanges = 2
  Messages <- ChannelMessages
  Unmirrored <- LateMessages
  WindowSizes = {1, 3}
  MaxWindows = 3
  Extractions <- FileTexts
  MaxExtractions = 2
  Configs <- WorkspacesInOrder
  NamesWithin <- NamesIn
  WorkspaceRows <- RowsOfWorkspaces
  LinkDomains = {"acme-old", "other", "left"}
  ItemTexts = {"t1", "t2"}
  ItemMessages = {"m1", "m2"}
  ChannelNames = {"", "general", "own"}
  FileTitles = {"report", "q3: plan"}
  Colons = {"q3: plan"}
  Truths <- LabelSets
  ModelNames = {"hash", "bge"}
  TopK = 2
  Discount <- Discounts
  MaxEdits = 2
INVARIANTS
  OperationsTypeOK
  ConfigAsReported
  ErasedStaysErased
  StatusesStand
  GoodSurvivesOneFailure
  UnitsKeepUpWithSchema
  SearchesStand
  ProvidersStand
  ContextStands
  BenchmarksStand
PROPERTIES
  RecoveryEnds
  DaemonServesAll
CHECK_DEADLOCK FALSE
