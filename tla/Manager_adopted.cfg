SPECIFICATION FairSpec
CONSTANTS
    n1 = n1
    n2 = n2
    s1 = s1
    s2 = s2
    None = None
    Name <- TwoNames
    Session <- TwoSessions
    MAX_PTYS = 1
    Retention = 1
    MaxTime = 1
PROPERTIES
    ExpiryTerminates
CHECK_DEADLOCK FALSE
