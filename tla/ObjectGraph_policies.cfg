SPECIFICATION Spec
CONSTANTS
  Leaves = {"x"}
  Groups = {"g", "h"}
  MayContain <- Pairs
  Policies = {"old", "existing", "union", "intersection"}
  Liberties = {}
  MaxVersion = 5
  nil = nil
INVARIANTS
  TypeOK
  MembersAreCurrent
  FaultsFlagged
PROPERTIES
  ImplementsVersionedGraph
CHECK_DEADLOCK FALSE
