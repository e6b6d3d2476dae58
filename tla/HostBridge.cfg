SPECIFICATION Spec
CONSTANTS
  Devices = {d1, d2}
  Handles = {h1, h2}
  Tasks = {t1, t2, t3}
  None = None
  MaxAttempts = 1
  MaxCommands = 2
  RotateFails = {"command"}
SYMMETRY Symmetry
CHECK_DEADLOCK FALSE
INVARIANTS GuardHasOwner LinkIsTrue EveryEntryHasLoop
PROPERTIES RefinesPairedAccess EnrolsOnlyWithTheLivePhrase
