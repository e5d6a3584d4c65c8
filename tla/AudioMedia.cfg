SPECIFICATION FairSpec
CONSTANTS
    r1 = r1
    p1 = p1
    p2 = p2
    None = None
    Recorder <- OneRecorder
    Player <- TwoPlayers
    EventCap = 1
    MaxStarts = 2
    MaxPackets = 2
INVARIANTS
    RouteIsTold
PROPERTIES
    SoundIsFresh
    MicrophoneFollows
CHECK_DEADLOCK FALSE
