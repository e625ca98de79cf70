SPECIFICATION Spec
CONSTANTS
  a = a
  b = b
  w1 = w1
  w2 = w2
  Keys = {a, b, c, d}
  Models = {"pinned"}
  PinnedModels = {"pinned"}
  Creds = {"none"}
  NoCred = "none"
  Values = {0}
  External = TRUE
  MaxInflight = 1
  DrainFirst = TRUE
  MaxQueries = 2
  NoQuery = NoQuery
  Pending = Pending
  Failed = Failed
  Workers = {w1}
  Contexts <- UnreadyToo
  Chunks <- MixedChunks
  NullRow = NullRow
  BadRow = BadRow
  OversizeKeys = {}
  WideKeys = {}
  CacheOn = TRUE
  c = c
  d = d
  Question <- MCQuestion
  Size <- EvenSize
  MaxJudgments = 3
  MaxRequestBytes = 4
SYMMETRY Threads
INVARIANTS
  BatchWithinLimits
  RightAnswer
  SnapshotBalanced
CHECK_DEADLOCK TRUE
