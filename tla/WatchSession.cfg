SPECIFICATION Spec
CONSTANTS
    p1 = p1
    p2 = p2
    c1 = c1
    c2 = c2
    Panes <- TwoPanes
    Submits <- TwoSubmits
    MaxRequests = 1
    MaxLines = 1
    None = None
SYMMETRY Symmetry
CHECK_DEADLOCK FALSE
INVARIANTS AnswersAreTrue HeldSubmitIsTended CloseAnswersEverything
