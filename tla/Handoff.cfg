SPECIFICATION FairSpec
CONSTANTS
    d1 = d1
    d2 = d2
    d3 = d3
    p1 = p1
    None = None
    Daemon <- ThreeDaemons
    First = d1
    Pty <- OnePty
    MaxChunks = 2
    Weathers <- EachWeather
INVARIANTS
    HandoffIsExact
    TerminalsSurvive
    NoSecondReader
PROPERTIES
    Transparent
    UpgradeEnds
CHECK_DEADLOCK FALSE
