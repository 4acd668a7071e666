SPECIFICATION Spec
CONSTANTS
  Items = 3
  Dispatchable = {1, 3}
  Worker = {w1, w2, w3}
  None = None
  MaxInFlight = 1
  MaxStarts = 2
  MaxFaults = 1
CHECK_DEADLOCK FALSE

INVARIANTS
  LogTellsPath
PROPERTIES
  SettledForGood
  PendingSettles
