CONSTANTS
    p1 = p1
    p2 = p2
    p3 = p3
    d1 = d1
    StartPanes <- MCStartPanes
    d2 = d2
    None = None
    Sessions <- MCSessions
    Panes <- MCPanes
    Asks <- MCAsks
    Graphemes <- MCGraphemes
    StartLines <- MCStartLines
    KeyLimit = 2
    MaxAsks = 2
    MaxFaults = 2
SPECIFICATION Spec
CHECK_DEADLOCK FALSE
INVARIANTS ShadowIsTheLine EveryRequestIsKept
PROPERTIES AcceptedLineIsShown InvocationIsAttributed
SYMMETRY MCSymmetry
