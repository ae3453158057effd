CONSTANTS
  Stores = {s1, s2, s3}
  MaxAppends = 4
  s1 = s1
  s2 = s2
  s3 = s3
SPECIFICATION StoreSpec
INVARIANTS
  AlwaysReadable
  AcknowledgedRecovered
PROPERTIES
  RecordsAreFinal
CHECK_DEADLOCK FALSE
