SPECIFICATION FairSpec
CONSTANTS
  Callers = {"client", "second"}
  SpuriousWakeups = TRUE
INVARIANTS
  FreedLast
  ValueIsRealUnlessStartled
PROPERTIES
  LoneCallerReturns
  FreedAtLast
CHECK_DEADLOCK FALSE
