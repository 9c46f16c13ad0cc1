SPECIFICATION FairSpec
CONSTANTS
  RING_BUFFER_SIZE = 2
  COUNTER_MOD = 4
  MaxRequests = 2
  Buffers = 2
  Blocking = {"requester", "responder"}
  SharedCondition = FALSE
  MayDisconnect = TRUE
  AfterLate = TRUE
  nil = nil
PROPERTIES
  DisconnectUnblocks
CHECK_DEADLOCK FALSE
