SPECIFICATION Spec
CONSTANTS
  a1 = a1
  a2 = a2
  p1 = p1
  p2 = p2
  Actor = {a1, a2}
  Proc = {p1, p2}
  ActorOf <- Shared
  Fact = {f1, f2}
  None = None
  MaxAttempts = 2
  MaxEdits = 4
SYMMETRY Symmetry
CHECK_DEADLOCK FALSE
INVARIANTS
  AckedPublished
