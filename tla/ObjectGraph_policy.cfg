SPECIFICATION Spec
CONSTANTS
  Leaves = {"x"}
  Groups = {"g", "h"}
  MayContain <- Pairs
  Policies = {"old", "existing", "union", "intersection"}
  Liberties = {"merging"}
  MaxVersion = 5
  nil = nil
PROPERTIES
  ImplementsVersionedGraph
CHECK_DEADLOCK FALSE
