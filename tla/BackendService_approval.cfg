CONSTANTS
  MaxSteps = 1
  MaxToolCalls = 2
  MaxProtocolErrors = 1
  MaxCompactions = 1
  MaxCallsPerResponse = 2
  MaxTurns = 1
  StoreMayFail = FALSE
  JoinMayTimeOut = TRUE
SPECIFICATION ServiceSpec
INVARIANTS
  ApprovedByUser
  SideEffectsAuthorised
CHECK_DEADLOCK FALSE
