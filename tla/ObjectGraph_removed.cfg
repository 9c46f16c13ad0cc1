SPECIFICATION Spec
CONSTANTS
  Leaves = {"x"}
  Groups = {"g", "h"}
  MayContain <- Pairs
  Policies = {"old"}
  Liberties = {"frozen"}
  MaxVersion = 6
  nil = nil
INVARIANTS
  PastIsKept
CHECK_DEADLOCK FALSE
