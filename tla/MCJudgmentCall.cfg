SPECIFICATION Spec
CONSTANTS
  None = None
  Null = Null
  NameOrder <- MCNameOrder
  PinnedModels <- MCPinnedModels
  Serves <- MCServes
  LocalMaxChoices = 2
  Chunks <- MCChunks
  Bases <- MCBases
  SetValues <- MCSetValues
  Environments <- MCEnvironments
  MaxSets = 1
  MaxStatements = 2
INVARIANTS
  RowsGetOwnAnswers
  AnswersOfNamedService
  OnlyLegalWorkIsSent
  ServiceKept
CHECK_DEADLOCK FALSE
