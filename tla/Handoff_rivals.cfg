SPECIFICATION Spec
CONSTANTS
    d1 = d1
    d2 = d2
    d3 = d3
    p1 = p1
    None = None
    Daemon <- ThreeDaemons
    First = d1
    Pty <- OnePty
    MaxChunks = 2
    Weathers <- Rivals
INVARIANTS
    OneServer
CHECK_DEADLOCK FALSE
