SPECIFICATION FairSpec
CONSTANTS
    MaxReads = 4
    ChunkSize = 2
    MaxOutput = 5
INVARIANTS
    TransferInv
    CompleteOnReturn
PROPERTIES
    ReturnsUnlessWakeupLost
CHECK_DEADLOCK FALSE
