SPECIFICATION Spec
CONSTANTS
  Leaves = {"x"}
  Groups = {"g", "h"}
  MayContain <- Pairs
  Policies = {"old"}
  Liberties = {"departed"}
  MaxVersion = 6
  nil = nil
INVARIANTS
  MembersAreCurrent
CHECK_DEADLOCK FALSE
