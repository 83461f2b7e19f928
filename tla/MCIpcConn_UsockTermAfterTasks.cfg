SPECIFICATION Spec
CONSTANTS
    c1 = c1
    c2 = c2
    c3 = c3
    Conn = {c1, c2}
    None = None
    MaxUnread = 2
    LeavesEarly = FALSE
    AcceptFails = FALSE
    Stops = TRUE
CHECK_DEADLOCK FALSE
INVARIANTS
    UsockTermAfterTasks
