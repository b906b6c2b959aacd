SPECIFICATION Spec
CONSTANTS
    Tasks = {t1, t2}
    Length = 2
    MaxOwed = 3
    MaxOps = 2
INVARIANTS
    WinInv
    OpenMeansConnected
    BytesAccounted
PROPERTIES
    CallsReturn
CHECK_DEADLOCK FALSE
