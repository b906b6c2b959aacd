SPECIFICATION EventSpec
CONSTANTS
    Tasks = {t1, t2, t3}
    Main = main
    Null = null
    Events = {e1, e2}
    MaxValue = 2
INVARIANT
    EventInv
CHECK_DEADLOCK FALSE
