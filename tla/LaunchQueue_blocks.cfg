CONSTANTS
    a = a
    b = b
    t = t
    Task = {a, b, t}
    App = {a, b}
    Layouts <- PlainLayouts
    Files <- AllFiles
    Wanted = {}
    SameSecond = FALSE
    MaxDate = 0
SPECIFICATION Spec
PROPERTIES
    QueueNeverBlocks
CHECK_DEADLOCK FALSE
