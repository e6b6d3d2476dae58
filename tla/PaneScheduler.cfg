SPECIFICATION SchedulerSpec
CONSTANTS
    Window = 2
    Poll = 2
    Offsets <- TwoOffsets
    MaxPerSec = 3
    Second = 4
    MaxLate = 1
    MaxFails = 1
    Horizon = 9
INVARIANTS ReadsCapped RevisionReadInTime FrameFreshInTime
