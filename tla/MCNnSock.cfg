\* SIGINT, SIGQUIT and SIGTERM; the system stops when the process does.
CONSTANTS
    MaxSignals = 3
    p1 = p1
    p2 = p2
    Peers = {p1, p2}
    NoPeer = NoPeer
SPECIFICATION FairSpec
INVARIANTS TypeOK ReadyIsSignalled FailsOnlyInside ExitEndsConnection
PROPERTIES BlockedCallReturns QuitEnds
CHECK_DEADLOCK FALSE
