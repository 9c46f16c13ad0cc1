SPECIFICATION Spec
CONSTANTS
  Objects = {"a", "b"}
  Context = "context"
  SnapshotInterval = 100
  Nested = {nil}
  UndoesPastFirst = FALSE
  MaxVersion = 5
  nil = nil
PROPERTIES
  SequenceCleared
CHECK_DEADLOCK FALSE
