SPECIFICATION StopSpec
CONSTANTS
  Objects = {"a", "b"}
  Context = "context"
  SnapshotInterval = 100
  Nested = {nil}
  UndoesPastFirst = FALSE
  MaxVersion = 4
  MaxStops = 1
  nil = nil
INVARIANTS
  VersionHasItsObjects
CHECK_DEADLOCK FALSE
