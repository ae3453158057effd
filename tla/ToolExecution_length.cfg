CONSTANTS
  Children = {"none"}
  OutputSizes = {1, 7}
  TextSizes = {2, 8}
  OutputLimit = 6
  MaxCalls = 1
  ResultLimit = 3
SPECIFICATION ToolSpec
INVARIANTS
  LengthAuthoritative
CHECK_DEADLOCK FALSE
