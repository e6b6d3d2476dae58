SPECIFICATION PopupSpec
CONSTANTS
  Devices = {d1, d2}
  None = None
  Lifetime = 1
  MaxStarts = 1
  MaxOpens = 1
  MaxEvents = 0
  Sizes <- MCFlat
CHECK_DEADLOCK FALSE
PROPERTY SelectionIsDrawn
