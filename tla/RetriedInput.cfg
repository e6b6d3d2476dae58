CONSTANTS
    p1 = p1
    p2 = p2
    p3 = p3
    d1 = d1
    d2 = d2
    StartPanes <- MCStartPanes
    None = None
    Sessions <- MCSessions
    Panes <- MCPanes
    Asks <- MCAsks
    Graphemes <- MCGraphemes
    StartLines <- MCStartLines
    KeyLimit = 2
    MaxAsks = 2
    MaxFaults = 2
SPECIFICATION Spec
CHECK_DEADLOCK FALSE
INVARIANTS OperationsAreNotRetried
