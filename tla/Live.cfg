SPECIFICATION LiveSpec
CONSTANTS
    p1 = p1
    a1 = a1
    k1 = k1
    k2 = k2
    None = None
    Pane <- MCPane
    Audio <- MCAudio
    Key <- MCKey
    MaxStreams = 2
    MaxConns = 4
    MaxFaults = 4
    c1 = c1
    c2 = c2
    Nobody = Nobody
    Client <- TwoClients
    MaxChunks = 2
    Depth = 1
    Resizers <- NoResizer
INVARIANTS
    Consistent
    PinHolds
PROPERTIES
    Recovers
    SlowHoldsNothing
    LoserEnds
