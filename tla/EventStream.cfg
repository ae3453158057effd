CONSTANTS
  MaxEvents = 2
  MaxStreams = 3
  MaxAttempts = 1
SPECIFICATION StreamSpec
INVARIANTS
  StreamContiguous
PROPERTIES
  EventsDelivered
  StreamsEnd
CHECK_DEADLOCK FALSE
