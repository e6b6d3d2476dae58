SPECIFICATION Spec
CONSTANTS
    MaxLen = 6
    ChunkLen = 4
    FragCap = 3
    RecordCap = 9
    Timeout = 1
    OutKinds <- MCOutKinds
    Fillers <- MCFillers
    InBodies <- MCInBodies
    StrayChunks <- MCStrayChunks
    Peers = {"faithful", "relay", "any"}
    WireCap = 2
    MaxOut = 2
    MaxIn = 2
    MaxStrays = 3
    MaxFaults = 1
INVARIANTS OutgoingIsFaithful FatalIsLast IncomingIsFaithful
CHECK_DEADLOCK FALSE
