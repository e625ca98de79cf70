SPECIFICATION FairSpec
CONSTANTS
  a = a
  b = b
  w1 = w1
  w2 = w2
  Keys = {a, b, c}
  Models = {"pinned"}
  PinnedModels = {"pinned"}
  Creds = {"none"}
  NoCred = "none"
  Values = {0}
  External = TRUE
  MaxInflight = 1
  DrainFirst = TRUE
  MaxQueries = 1
  NoQuery = NoQuery
  Pending = Pending
  Failed = Failed
  Workers = {w1, w2}
  Contexts <- PerModel
  Chunks <- NestedChunks
  NullRow = NullRow
  BadRow = BadRow
  OversizeKeys = {}
  WideKeys = {c}
  CacheOn = FALSE
  c = c
  d = d
  Question <- MCQuestion
  Size <- EvenSize
  MaxJudgments = 2
  MaxRequestBytes = 4
PROPERTIES
  ChunkReturns
CHECK_DEADLOCK FALSE
