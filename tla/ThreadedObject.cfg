SPECIFICATION FairSpec
CONSTANTS
  QUEUE_SIZE = 4
  COUNTER_MOD = 8
  MaxMessages = 5
  Idles = TRUE
  Owned = TRUE
  Pooled = TRUE
  nil = nil
INVARIANTS
  NoLostWakeup
  FuturesKept
  ObjectOutlivesUse
PROPERTIES
  UnreadSlotsKept
  ImplementsAsyncObject
  AllExecuted
  ConcreteReturns
  SleeperIsDestroyed
CHECK_DEADLOCK FALSE
