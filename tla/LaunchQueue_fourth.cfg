CONSTANTS
    a = a
    b = b
    t = t
    Task = {a, b, t}
    App = {a, b}
    Layouts <- AllLayouts
    Files <- AllFiles
    Wanted = {b}
    SameSecond = FALSE
    MaxDate = 0
SPECIFICATION Spec
PROPERTIES
    NeverAFourthTime
CHECK_DEADLOCK FALSE
