SPECIFICATION LinkSpec
CONSTANTS
    PingInterval = 6
    PongTimeout = 2
    SendTimeout = 2
    MaxAnswer = 1
    MaxBusy = 3
    Never = Never
    Initial = 1
    MaxWait = 2
    Jitter = 20
    ResetAfter = 6
    ConnectTimeout = 6
    LastRung = 2
    MaxTroubles = 2
INVARIANTS PromptPeerKept DropsInTime ReregistersInTime
