SPECIFICATION LinkSpec
CONSTANTS
    Size <- TwoSizes
    Program <- TwoPrograms
    RespawnAfter = 2
    MaxFaults = 2
    MaxChanges = 1
    MaxShells = 3
    Base = 3
    MAX_FRAME_SIZE = 4
    MAX_REQUEST_BYTES = 4
    Frame <- SomeFrames
    MaxFrames = 2
    Version <- SomeVersions
INVARIANTS
    TerminalIsKept
    SparesHandoff
    ExitJustified
    PeersUnderstand
PROPERTIES
    ClosedStaysClosed
    Reattaches
CHECK_DEADLOCK FALSE
