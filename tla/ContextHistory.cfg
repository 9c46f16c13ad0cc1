SPECIFICATION Spec
CONSTANTS
  Objects = {"a", "b"}
  Context = "context"
  SnapshotInterval = 100
  Nested = {nil}
  UndoesPastFirst = FALSE
  MaxVersion = 5
  nil = nil
INVARIANTS
  MemoryIsStored
  PastIsKept
  RedoComesBack
PROPERTIES
  ImplementsVersionedGraph
CHECK_DEADLOCK FALSE
