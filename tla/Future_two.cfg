SPECIFICATION FairSpec
CONSTANTS
  Callers = {"client", "second"}
  SpuriousWakeups = FALSE
PROPERTIES
  CallersReturn
CHECK_DEADLOCK FALSE
