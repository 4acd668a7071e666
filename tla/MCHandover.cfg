SPECIFICATION HSpec
CONSTANTS
  Call = {c1, c2, c3}
  Action = {a1, a2}
  Response = {r1, r2}
  Sup = {s1, s2}
  None = None
  MaxRuns = 3
SYMMETRY HSymmetry
CHECK_DEADLOCK FALSE
INVARIANTS
  TakeoverOnly
  Reachable
