CONSTANTS
  Children = {"none", "quiet", "piped", "stubborn", "detached"}
  OutputSizes = {5}
  TextSizes = {4, 9}
  OutputLimit = 6
  MaxCalls = 2
  ResultLimit = 4
SPECIFICATION ToolSpec
INVARIANTS
  EffectsConsented
  ResultTellsFile
  StoppedGroupGone
  TruncationReported
PROPERTIES
  OperationReturns
CHECK_DEADLOCK FALSE
