SPECIFICATION Spec
CONSTANTS
    MaxIn = 2
    MaxRead = 2
    WriteLength = 2
    MaxOut = 2
    TxSize = 1
INVARIANTS
    StreamInv
    ReadsInOrder
    WritesAccounted
PROPERTIES
    ShortWriteExplained
    SleepersWoken
CHECK_DEADLOCK FALSE
