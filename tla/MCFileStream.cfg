SPECIFICATION Spec
CONSTANTS
    Tasks = {t1, t2}
    InitSize = 2
    Length = 2
    MaxSize = 4
    MaxRequests = 3
INVARIANTS
    FileInv
    ContentRight
PROPERTIES
    CallsReturn
CHECK_DEADLOCK FALSE
