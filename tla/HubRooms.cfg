SPECIFICATION Spec
CONSTANTS
    Hosts = {h1, h2}
    Devices = {d1, d2}
    Handles = {k1, k2}
    None = None
    Depth = 1
    MaxHandles = 1
    MaxFrames = 1
    MayStall = {h1, h2}
SYMMETRY Symmetry
CHECK_DEADLOCK FALSE
INVARIANTS RoomSound CloseComesFromRoommate HandleIsolation
PROPERTY RoomOnlyEndsByLoss
