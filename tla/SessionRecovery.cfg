CONSTANTS
  MaxSteps = 2
  MaxToolCalls = 1
  MaxProtocolErrors = 2
  MaxCompactions = 1
  MaxCallsPerResponse = 1
  MaxTurns = 2
  StoreMayFail = FALSE
  KeepRecentGroups = 1
  MaxCrashes = 2
SPECIFICATION LivesSpec
INVARIANTS
  ResumableOnce
  RequestsWellFormed
PROPERTIES
  BudgetSurvives
  ResumeRestoresView
  NothingReplayed
CHECK_DEADLOCK FALSE
