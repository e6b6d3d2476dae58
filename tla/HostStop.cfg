SPECIFICATION Spec
CONSTANTS
  Devices = {d1}
  Handles = {h1}
  Tasks = {t1}
  None = None
  MaxAttempts = 1
  MaxCommands = 1
  RotateFails = {}
SYMMETRY Symmetry
CHECK_DEADLOCK FALSE
INVARIANT StopReachesSession
