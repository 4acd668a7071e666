SPECIFICATION Spec
CONSTANTS
  Call = {c1, c2, c3}
  Action = {a1, a2}
  Response = {r1, r2}
  None = None
  MaxRuns = 3
SYMMETRY Symmetry
CHECK_DEADLOCK FALSE
INVARIANTS
  SingleFlight
  AnswersAreRecorded
PROPERTIES
  ImplementsForgeAction
