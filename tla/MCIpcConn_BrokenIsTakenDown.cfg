SPECIFICATION FairSpec
CONSTANTS
    c1 = c1
    c2 = c2
    c3 = c3
    Conn = {c1, c2}
    None = None
    MaxUnread = 2
    LeavesEarly = TRUE
    AcceptFails = FALSE
    Stops = FALSE
CHECK_DEADLOCK FALSE
PROPERTIES
    BrokenIsTakenDown
