SPECIFICATION Spec
CONSTANTS
  Leaves = {"x"}
  Groups = {"g", "h"}
  MayContain <- Pairs
  Policies = {"old"}
  Liberties = {"unresolved"}
  MaxVersion = 5
  nil = nil
INVARIANTS
  MembersAreCurrent
CHECK_DEADLOCK FALSE
