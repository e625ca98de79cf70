SPECIFICATION Spec
CONSTANTS
  a = a
  s1 = s1
  s2 = s2
  Keys = {a}
  Models = {"pinned", "alias"}
  PinnedModels = {"pinned"}
  Creds = {"none"}
  NoCred = "none"
  Values = {0}
  External = TRUE
  MaxInflight = 1
  DrainFirst = FALSE
  MaxQueries = 2
  NoQuery = NoQuery
  Pending = Pending
  Failed = Failed
  Providers = {"typesafe", "localjev", "mock"}
  Priced = "typesafe"
  Times = {1}
  None = None
  States = {s1, s2}
  InitContexts <- MCContexts
  Metadata <- MCMetadata
  Outcomes = {"succeeded"}
  MaxRows = 2
SYMMETRY Alike
INVARIANTS
  HandlesAccounted
  ObservesRunningQuery
  ReportedSumsAreTotal
  ReportIsOfLastWithRows
  EntriesCountedOnce
CHECK_DEADLOCK TRUE
