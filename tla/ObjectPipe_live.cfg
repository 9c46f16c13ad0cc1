SPECIFICATION FairSpec
CONSTANTS
  RING_BUFFER_SIZE = 2
  COUNTER_MOD = 8
  MaxRequests = 3
  Buffers = 1
  Blocking = {}
  SharedCondition = FALSE
  MayDisconnect = FALSE
  AfterLate = TRUE
  nil = nil
PROPERTIES
  EveryRequestAnswered
CHECK_DEADLOCK FALSE
