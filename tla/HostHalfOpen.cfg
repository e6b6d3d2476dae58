SPECIFICATION LinkSpec
CONSTANTS
    PingInterval = 3
    PongTimeout = 2
    SendTimeout = 1
    MaxAnswer = 0
    MaxBusy = 0
    Never = Never
    Initial = 1
    MaxWait = 1
    Jitter = 20
    ResetAfter = 1
    ConnectTimeout = 2
    LastRung = 0
    MaxTroubles = 1
PROPERTY RegistrationReturns
