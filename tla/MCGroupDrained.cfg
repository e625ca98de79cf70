SPECIFICATION FairSpec
CONSTANTS
  a = a
  b = b
  w1 = w1
  w2 = w2
  Keys = {a, b, c, d}
  Models = {"pinned"}
  PinnedModels = {"pinned"}
  Creds = {"none"}
  NoCred = "none"
  Values = {0}
  External = TRUE
  MaxInflight = 1
  DrainFirst = TRUE
  MaxQueries = 1
  NoQuery = NoQuery
  Pending = Pending
  Failed = Failed
  Workers = {w1, w2}
  Contexts <- UnreadyToo
  Chunks <- EverySort
  NullRow = NullRow
  BadRow = BadRow
  OversizeKeys = {d}
  WideKeys = {c}
  CacheOn = FALSE
  c = c
  d = d
INVARIANTS
  CostCoversBilling
  RequestsCounted
PROPERTIES
  ChunkReturns
CHECK_DEADLOCK FALSE
