SPECIFICATION Spec
CONSTANTS
  a = a
  b = b
  w1 = w1
  w2 = w2
  Keys = {a}
  Models = {"pinned", "alias"}
  PinnedModels = {"pinned"}
  Creds = {"none", "key"}
  NoCred = "none"
  Values = {0}
  External = FALSE
  MaxInflight = 1
  DrainFirst = TRUE
  MaxQueries = 2
  NoQuery = NoQuery
  Pending = Pending
  Failed = Failed
  Workers = {w1, w2}
  Contexts <- EachOther
  Chunks <- OneJudgment
  NullRow = NullRow
  BadRow = BadRow
  OversizeKeys = {}
  WideKeys = {}
  CacheOn = TRUE
  c = c
  d = d
SYMMETRY Threads
INVARIANTS
  TypeOK
  RightAnswer
  SnapshotBalanced
  AliasAskedPerQuery
  HitsComeFromOtherQueries
CHECK_DEADLOCK TRUE
