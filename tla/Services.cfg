SPECIFICATION Spec
CONSTANTS
  Created = {1, 2}
  Removed = {3}
  Observed = {4}
  Journaled = {5}
  Limit = 1
  MaxClock = 2
  MaxAgain = 1
  Clients = {c1, c2}
  Passwords = {p1, p2}
  NoPassword = none
  MaxFailures = 1
  AttemptWindow = 1
  IdleTimeout = 1
  SessionLife = 2
  MaxNow = 3
  MaxRequests = 3
  Ids = {x, y}
  Days = {d1, d2}
  Nothing = nothing
  Workers = {w1, w2}
  MaxExports = 3
  Reports = {"ops", "ops-daily", "week"}
  Longer <- LongerNames
  Threads = {t1, t2}
  KeepCount = 1
  MaxAge = 0
  MaxSecond = 2
  MaxChores = 3
  general = general
  private = private
  Channels = {general, private}
  Kind <- ChannelKinds
  Users = {u}
  Unlisted = Unlisted
  MaxChanges = 3
  f = f
  g = g
  Items = {f, g}
  Holdings <- FileHoldings
  NoRow = NoRow
  DownloadLimit = 1
  MaxBackfills = 1
  MaxFaults = 1
  Configured = local
  Profile = bge
  MaxMessages = 2
  Documents = {k1, k2}
  BatchLimit = 1
  MaxEdits = 2
  MaxOutages = 1
  CatchupChannels = {1, 2, 3}
  PerPassLimit = 1
  MaxPasses = 0
  MaxUpsets = 2
  Rooms <- ExportRooms
  SharedFiles <- TwoNames
  Asked = {"absent", "all"}
INVARIANTS
  ServicesTypeOK
  PagesMissOnlyLateRecords
  FailuresBounded
  CredentialsStand
  ExportsStand
  ListedReportsStand
  MembersFollow
  ReadinessStands
PROPERTIES
  FilesArrive
  NothingStarves
CHECK_DEADLOCK FALSE
