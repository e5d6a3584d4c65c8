SPECIFICATION Spec
CONSTANTS
    Size <- TwoSizes
    Program <- TwoPrograms
    RespawnAfter = 2
    MaxFaults = 2
    MaxChanges = 1
    MaxShells = 3
INVARIANT LostShellIsSaid
CHECK_DEADLOCK FALSE
