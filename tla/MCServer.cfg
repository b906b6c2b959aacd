SPECIFICATION Spec
CONSTANTS
    Waiters = {w1, w2}
    MaxBacklog = 2
    MaxStreams = 1
INVARIANTS
    ServerInv
    FreedOnlyAtEnd
PROPERTIES
    AcceptReturns
    WaitersHeard
CHECK_DEADLOCK FALSE
