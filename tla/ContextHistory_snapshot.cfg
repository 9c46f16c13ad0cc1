SPECIFICATION Spec
CONSTANTS
  Objects = {"a", "b"}
  Context = "context"
  SnapshotInterval = 2
  Nested = {nil}
  UndoesPastFirst = FALSE
  MaxVersion = 5
  nil = nil
INVARIANTS
  PastIsKept
CHECK_DEADLOCK FALSE
