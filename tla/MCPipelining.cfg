SPECIFICATION Spec
CONSTANTS
    Bytes <- MCBytes
    Conversations <- MCConversations
    BufferSize = 7
INVARIANT
    Pipelined
CHECK_DEADLOCK FALSE
