CONSTANTS
  Children = {"none", "quiet", "piped", "stubborn", "detached"}
  OutputSizes = {1}
  TextSizes = {2}
  OutputLimit = 6
  MaxCalls = 1
  ResultLimit = 3
SPECIFICATION ToolSpec
PROPERTIES
  TimeoutEndsCommand
CHECK_DEADLOCK FALSE
