SPECIFICATION Spec
CONSTANTS
  RING_BUFFER_SIZE = 2
  COUNTER_MOD = 4
  MaxRequests = 2
  Buffers = 2
  Blocking = {"responder"}
  SharedCondition = FALSE
  MayDisconnect = FALSE
  AfterLate = TRUE
  nil = nil
INVARIANTS
  InOrder
CHECK_DEADLOCK FALSE
