CONSTANTS
    a1 = a1
    a2 = a2
    a3 = a3
    None = None
    App = {a1, a2}
    Masked = {}
    Unreachable = {}
    Op = {"logOut", "powerOff"}
    Lives = 1
    Requests = 2
SPECIFICATION Spec
INVARIANTS LocksAgree RefusalHolds NoneLeftRunning EndsAsAsked
PROPERTY Answers
CHECK_DEADLOCK FALSE
