SPECIFICATION Spec
CONSTANTS
  Callers = {"client"}
  SpuriousWakeups = TRUE
INVARIANTS
  ValueIsReal
CHECK_DEADLOCK FALSE
