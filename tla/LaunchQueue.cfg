CONSTANTS
    a = a
    b = b
    t = t
    Task = {a, b, t}
    App = {a, b}
    Layouts <- AllLayouts
    Files <- AllFiles
    Wanted = {b}
    SameSecond = FALSE
    MaxDate = 2
SPECIFICATION Spec
INVARIANTS
    NotStoppedWhileLaunching
    NoneSkipped
    TableFollowsFile
PROPERTIES
    InPriorityOrder
    GivesUp
    QueueDrains
    SaveIsNoticed
CHECK_DEADLOCK FALSE
