SPECIFICATION Spec
CONSTANTS
  Devices = {d1, d2}
  KeyFaults = {}
  MaxKeys = 3
  MaxEnrols = 3
  MaxStarts = 3
  MaxTouches = 1
SYMMETRY DeviceSymmetry
INVARIANTS StoreMatchesDisk RevokedStaysRevoked HostKeyIsTheOne
CHECK_DEADLOCK FALSE
