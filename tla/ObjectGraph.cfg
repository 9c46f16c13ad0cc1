SPECIFICATION Spec
CONSTANTS
  Leaves = {"x"}
  Groups = {"g", "h"}
  MayContain <- Pairs
  Policies = {"old", "union"}
  Liberties = {}
  MaxVersion = 6
  nil = nil
INVARIANTS
  MembersAreCurrent
  FaultsFlagged
PROPERTIES
  ImplementsVersionedGraph
CHECK_DEADLOCK FALSE
