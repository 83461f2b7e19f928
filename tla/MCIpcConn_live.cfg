SPECIFICATION FairSpec
CONSTANTS
    c1 = c1
    c2 = c2
    c3 = c3
    Conn = {c1, c2}
    None = None
    MaxUnread = 1
    LeavesEarly = FALSE
    AcceptFails = TRUE
    Stops = TRUE
CHECK_DEADLOCK FALSE
INVARIANTS
    ActiveOnOpenSocket
    OnlyTermFails
    QueuedOnce
PROPERTIES
    BrokenIsTakenDown
    HandshakeEnds
    BacklogServed
    ShutdownCompletes
