SPECIFICATION SeqSpec
CONSTANTS
    Bytes <- MCBytes
    Conversations <- MCConversations
    BufferSize = 7
    Keys = {1, 2, 3, 4, 5, 6, 7, 8, 9, 10, 11, 12}
INVARIANTS
    RequestParsed
    MemoryKept
    BodyLeft
    ParamsRight
    SearchTree
    QueriesRight
    Balanced
CHECK_DEADLOCK FALSE
