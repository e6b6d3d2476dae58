SPECIFICATION FairSpec
CONSTANTS
    Hosts = {h1}
    Devices = {d1}
    Handles = {k1}
    None = None
    Depth = 1
    MaxHandles = 1
    MaxFrames = 2
    MayStall = {}
CHECK_DEADLOCK FALSE
PROPERTY ForwardEnds
