SPECIFICATION Spec
CONSTANTS
  RING_BUFFER_SIZE = 2
  COUNTER_MOD = 4
  MaxRequests = 5
  Buffers = 3
  Blocking = {"responder"}
  SharedCondition = TRUE
  MayDisconnect = TRUE
  AfterLate = FALSE
  nil = nil
INVARIANTS
  Arcs
  InOrderUnstrained
  NoLostWakeup
PROPERTIES
  NothingOverwritten
CHECK_DEADLOCK FALSE
