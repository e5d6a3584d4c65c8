SPECIFICATION FairSpec
CONSTANTS
    p1 = p1
    p2 = p2
    d1 = d1
    d2 = d2
    Pane <- MCPane
    Device <- MCDevice
    MaxIds = 2
    MaxAtt = 2
    MaxRegs = 1
INVARIANTS
    LeaseIsAgreed
PROPERTIES
    HardwareIsReleased
CHECK_DEADLOCK FALSE
