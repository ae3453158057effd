CONSTANTS
  Window = 12
  Trigger = 10
  Fixed = 2
  SourceFixed = 3
  Quote = 1
  Notice = 1
  GroupSizes = {1, 4}
  SummarySizes = {1, 3}
  KeepRecent = 2
  MaxCompactions = 2
  MaxAttempts = 2
  MaxGroups = 5
  MaxResumes = 1
SPECIFICATION RequestFairSpec
INVARIANTS
  LiveSessionLosesNothing
  NewestGroupSent
  RequestsFit
  ContextFollowsLog
  SendsBounded
PROPERTIES
  RequestDecided
CHECK_DEADLOCK FALSE
