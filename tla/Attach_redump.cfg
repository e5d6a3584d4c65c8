SPECIFICATION AttachSpec
CONSTANTS
    c1 = c1
    c2 = c2
    Nobody = Nobody
    Client <- TwoClients
    MaxChunks = 2
    Depth = 2
    Resizers <- OneResizer
INVARIANT
    NothingLost
CHECK_DEADLOCK FALSE
