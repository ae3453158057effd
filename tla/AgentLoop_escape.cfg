CONSTANTS
  MaxSteps = 1
  MaxToolCalls = 1
  MaxProtocolErrors = 2
  MaxCompactions = 1
  MaxCallsPerResponse = 1
  MaxTurns = 2
  StoreMayFail = TRUE
SPECIFICATION Spec
INVARIANTS
  TerminalTurnCloses
CHECK_DEADLOCK FALSE
