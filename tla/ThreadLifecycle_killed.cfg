SPECIFICATION Spec
CONSTANTS
  Threads = {"t1", "t2"}
  BodyRetains = TRUE
INVARIANTS
  KilledToo
CHECK_DEADLOCK FALSE
