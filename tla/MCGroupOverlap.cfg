SPECIFICATION Spec
CONSTANTS
  a = a
  b = b
  w1 = w1
  w2 = w2
  Keys = {a}
  Models = {"pinned"}
  PinnedModels = {"pinned"}
  Creds = {"none"}
  NoCred = "none"
  Values = {0, 1}
  External = TRUE
  MaxInflight = 1
  DrainFirst = FALSE
  MaxQueries = 2
  NoQuery = NoQuery
  Pending = Pending
  Failed = Failed
  Workers = {w1, w2}
  Contexts <- PerModel
  Chunks <- SharedChunks
  NullRow = NullRow
  BadRow = BadRow
  OversizeKeys = {}
  WideKeys = {}
  CacheOn = FALSE
  c = c
  d = d
SYMMETRY Threads
INVARIANTS
  PermitAccounting
  SingleFlight
  NoOrphanedEntry
  OneAnswerPerIdentity
CHECK_DEADLOCK TRUE
