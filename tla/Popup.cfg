SPECIFICATION PopupSpec
CONSTANTS
  Devices = {d1, d2}
  None = None
  Lifetime = 1
  MaxStarts = 2
  MaxOpens = 1
  MaxEvents = 2
  Sizes <- MCSizes
CHECK_DEADLOCK FALSE
INVARIANTS KeysDoWhatTheyShow
PROPERTY PaneConverges
