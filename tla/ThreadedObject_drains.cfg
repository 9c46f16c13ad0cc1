SPECIFICATION Spec
CONSTANTS
  QUEUE_SIZE = 4
  COUNTER_MOD = 8
  MaxMessages = 2
  Idles = FALSE
  Owned = TRUE
  Pooled = FALSE
  nil = nil
INVARIANT
  DeallocDrains
CHECK_DEADLOCK FALSE
