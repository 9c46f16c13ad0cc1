SPECIFICATION Spec
CONSTANTS
  Objects = {"a", "b"}
  Context = "context"
  SnapshotInterval = 100
  Nested = {nil}
  UndoesPastFirst = TRUE
  MaxVersion = 5
  nil = nil
INVARIANTS
  RestorePointsRecognized
CHECK_DEADLOCK FALSE
