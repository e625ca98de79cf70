SPECIFICATION FairSpec
CONSTANTS
  a = a
  b = b
  w1 = w1
  w2 = w2
  Keys = {a, b, c}
  Models = {"pinned"}
  PinnedModels = {"pinned"}
  Creds = {"none"}
  NoCred = "none"
  Values = {0}
  External = FALSE
  MaxInflight = 1
  DrainFirst = FALSE
  MaxQueries = 1
  NoQuery = NoQuery
  Pending = Pending
  Failed = Failed
  Workers = {w1, w2}
  Contexts <- PerModel
  Chunks <- CrossedChunks
  NullRow = NullRow
  BadRow = BadRow
  OversizeKeys = {}
  WideKeys = {}
  CacheOn = FALSE
  c = c
  d = d
  Question <- MCQuestion
  Size <- HeavySize
  MaxJudgments = 2
  MaxRequestBytes = 4
INVARIANTS
  PermitAccounting
  SingleFlight
  NoOrphanedEntry
  WaitsOwingNothing
  AllOrNothing
PROPERTIES
  ChunkReturns
CHECK_DEADLOCK TRUE
