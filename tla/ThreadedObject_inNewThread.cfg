SPECIFICATION Spec
CONSTANTS
  QUEUE_SIZE = 4
  COUNTER_MOD = 8
  MaxMessages = 2
  Idles = FALSE
  Owned = FALSE
  Pooled = TRUE
  nil = nil
INVARIANT
  ObjectOutlivesUse
CHECK_DEADLOCK FALSE
