SPECIFICATION Spec
CONSTANTS
  a = a
  b = b
  w1 = w1
  w2 = w2
  Keys = {a, b}
  Models = {"pinned"}
  PinnedModels = {"pinned"}
  Creds = {"none"}
  NoCred = "none"
  Values = {0}
  External = TRUE
  MaxInflight = 1
  DrainFirst = TRUE
  MaxQueries = 1
  NoQuery = NoQuery
  Pending = Pending
  Failed = Failed
  Workers = {w1, w2}
  Contexts <- PerModel
  Chunks <- CrossedChunks
  NullRow = NullRow
  BadRow = BadRow
  OversizeKeys = {}
  WideKeys = {b}
  CacheOn = FALSE
  c = c
  d = d
SYMMETRY Threads
INVARIANTS
  OnlySentRequestsCounted
CHECK_DEADLOCK TRUE
