CONSTANTS
    a1 = a1
    a2 = a2
    a3 = a3
    None = None
    App = {a1, a2}
    Masked = {}
    Unreachable = {a2}
    Op = {"logOut", "powerOff"}
    Lives = 1
    Requests = 1
SPECIFICATION Spec
PROPERTY IgnoresUnreachable
CHECK_DEADLOCK FALSE
