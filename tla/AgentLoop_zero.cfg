CONSTANTS
  MaxSteps = 2
  MaxToolCalls = 1
  MaxProtocolErrors = 0
  MaxCompactions = 1
  MaxCallsPerResponse = 1
  MaxTurns = 2
  StoreMayFail = FALSE
SPECIFICATION Spec
INVARIANTS
  ProtocolLimitNeedsError
CHECK_DEADLOCK FALSE
