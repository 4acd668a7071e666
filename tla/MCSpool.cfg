SPECIFICATION MCSpec
CONSTANTS
  Thread = {t1, t2, t3}
  Directed = {t1}
  Host = {h1, h2}
  Reader = {r1, r2}
  None = None
  PageLimit = 2
  MaxClock = 3
  MaxFaults = 2
  Standby = h2
  ShortClock = 2
  LateFaults = 1
  ReadFaults = 0
  Surplus = t3
  CrowdFaults = 1
CHECK_DEADLOCK FALSE
INVARIANTS
  
  DuplicatesNeedFaults
  PrintedBeforeAck
PROPERTIES
  ActivityArrives
