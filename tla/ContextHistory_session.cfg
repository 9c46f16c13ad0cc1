SPECIFICATION Spec
CONSTANTS
  Objects = {"a", "b"}
  Context = "context"
  SnapshotInterval = 100
  Nested = {nil, "a"}
  UndoesPastFirst = FALSE
  MaxVersion = 5
  nil = nil
INVARIANTS
  SessionEnds
CHECK_DEADLOCK FALSE
