SPECIFICATION SessionSpec
CONSTANTS
    c1 = c1
    c2 = c2
    Nobody = Nobody
    Client <- TwoClients
    MaxChunks = 2
    Depth = 1
    Resizers <- OneResizer
    k1 = k1
    k2 = k2
    t1 = t1
    g1 = g1
    None = None
    Feeding = Feeding
    Controller <- TwoControllers
    Typist <- OneTypist
    Group <- OneGroup
    Size = 2
    MaxRevision = 2
    MaxInputs = 2
SYMMETRY Interchangeable
INVARIANTS
    InSync
    NoGap
    ExitComesLast
    LatestKeepsSlot
    AppliedOnce
    AppliedToSeen
    Consistent
PROPERTIES
    NoInterleaving
CHECK_DEADLOCK FALSE
