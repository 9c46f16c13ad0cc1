CONSTANTS
    a1 = a1
    a2 = a2
    a3 = a3
    None = None
    App = {a1, a2, a3}
    Masked = {}
    Unreachable = {}
    Op = {"logOut", "powerOff"}
    Lives = 1
    Requests = 2
SYMMETRY Symmetry
SPECIFICATION Spec
INVARIANT EndsAsDocumented
CHECK_DEADLOCK FALSE
