SPECIFICATION Spec
CONSTANTS
  RING_BUFFER_SIZE = 2
  COUNTER_MOD = 4
  MaxRequests = 5
  Buffers = 1
  Blocking = {}
  SharedCondition = FALSE
  MayDisconnect = FALSE
  AfterLate = TRUE
  nil = nil
PROPERTIES
  PollFindsReply
CHECK_DEADLOCK FALSE
