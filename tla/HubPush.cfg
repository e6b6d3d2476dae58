SPECIFICATION Spec
CONSTANTS
    Handles = {h1, h2, h3}
    Tokens = {a, b}
    None = None
    Capacity = 2
    Collapse = 1
    MaxFrames = 3
    MaxPushes = 2
    MaxWakes = 1
    Ios = {a}
    Deadline = 1
    Margin = 1
    Life = 2
SYMMETRY Symmetry
CHECK_DEADLOCK FALSE
INVARIANTS EvictionIsFair BearerOutlivesItsPush
PROPERTIES WakesCollapse RefusalHitsItsToken
