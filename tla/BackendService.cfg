CONSTANTS
  MaxSteps = 1
  MaxToolCalls = 1
  MaxProtocolErrors = 1
  MaxCompactions = 1
  MaxCallsPerResponse = 1
  MaxTurns = 2
  StoreMayFail = FALSE
  JoinMayTimeOut = FALSE
SPECIFICATION ServiceFairSpec
INVARIANTS
  StateFollowsLoop
  StreamComplete
  AcceptedTasksRun
PROPERTIES
  StopEndsStream
  NoModelStepAfterStop
CHECK_DEADLOCK FALSE
