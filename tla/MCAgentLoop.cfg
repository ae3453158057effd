CONSTANTS
  MaxSteps = 2
  MaxToolCalls = 1
  MaxProtocolErrors = 2
  MaxCompactions = 1
  MaxCallsPerResponse = 1
  MaxTurns = 2
  StoreMayFail = FALSE
SPECIFICATION MCSpec
INVARIANTS
  BudgetsRespected
  TerminalTurnCloses
  AtMostOneMoreAction
CHECK_DEADLOCK FALSE
