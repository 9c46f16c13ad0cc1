SPECIFICATION Spec
CONSTANTS
  Threads = {"t1", "t2"}
  BodyRetains = TRUE
INVARIANTS
  ExitOnlyOwnThread
CHECK_DEADLOCK FALSE
