SPECIFICATION Spec
CONSTANTS
  Threads = {"t1", "t2"}
  BodyRetains = TRUE
INVARIANTS
  ValueGiven
  NoneLeftBehind
CHECK_DEADLOCK FALSE
