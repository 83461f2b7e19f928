SPECIFICATION Spec
CONSTANTS
    c1 = c1
    c2 = c2
    c3 = c3
    Conn = {c1, c2, c3}
    None = None
    MaxUnread = 1
    LeavesEarly = TRUE
    AcceptFails = FALSE
    Stops = FALSE
SYMMETRY Symmetry
CHECK_DEADLOCK FALSE
INVARIANTS
    TypeOK
    OnlyTermFails
    QueuedOnce
    ReadyDirections
    NothingForgotten
    FreedIsForgotten
PROPERTIES
    OnlyItsOwnPipe
    ImplementsPair
