SPECIFICATION Spec
CONSTANTS
  Devices = {d1}
  Handles = {h1, h2}
  Tasks = {t1, t2}
  None = None
  MaxAttempts = 1
  MaxCommands = 2
  RotateFails = {}
SYMMETRY Symmetry
CHECK_DEADLOCK FALSE
INVARIANT RevokedLoopDies
