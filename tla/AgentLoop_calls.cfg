CONSTANTS
  MaxSteps = 1
  MaxToolCalls = 2
  MaxProtocolErrors = 2
  MaxCompactions = 1
  MaxCallsPerResponse = 2
  MaxTurns = 2
  StoreMayFail = TRUE
SPECIFICATION FairSpec
INVARIANTS
  SideEffectsAuthorised
  ResultsInOrder
  DeclaredCallsAnswered
  ContextMirrorsLog
PROPERTIES
  ImplementsContract
  TurnEnds
  InterruptEndsSession
CHECK_DEADLOCK FALSE
