SPECIFICATION WatchSpec
CONSTANTS
    s1 = s1
    c1 = c1
    Session <- OneSession
    Watcher <- OneCaller
    Observer <- OneCaller
    Watched = s1
    Backlog = 2
    MaxScreen = 2
    Other = Other
    Nothing = Nothing
    MAX_GATE_DEPTH = 2
    MAX_TOTAL_GATES = 4
    MAX_MATCHERS_PER_GATE = 1
    MAX_TOTAL_MATCHERS = 2
    Needle = {"x", "y", "long"}
    Unfit = {"long"}
    MaxNested = 2
    Content <- SomeContent
    Count <- SomeCounts
    MaxLines = 6
    Priority <- TwoPriorities
    MaxRules = 3
INVARIANTS
    Informed
    DetectionIsExact
PROPERTIES
    AgentIsCurrent
    CallersCatchUp
CHECK_DEADLOCK FALSE
