SPECIFICATION FewSpec
CONSTANTS
    Hosts = {h1, h2}
    Devices = {d1, d2}
    Handles = {k1}
    None = None
    Depth = 2
    MaxHandles = 1
    MaxFrames = 3
    MayStall = {h1, d1}
    Later = {h2, d2}
CHECK_DEADLOCK FALSE
INVARIANTS WireIsFaithful OrphanWasTold
PROPERTY LossIsSymmetric
