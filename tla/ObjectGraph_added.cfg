SPECIFICATION Spec
CONSTANTS
  Leaves = {"x"}
  Groups = {"g"}
  MayContain <- OnePair
  Policies = {"old"}
  Liberties = {"frozen"}
  MaxVersion = 7
  nil = nil
INVARIANTS
  MembersAreCurrent
CHECK_DEADLOCK FALSE
