SPECIFICATION Spec
CONSTANTS
  Comments = 2
  Value = {a, b}
  None = None
  Translated = {"labels"}
  Polled = {"push"}
SYMMETRY Symmetry

INVARIANTS
  HistoryStaysQuiet
  LaterCommentsDispatched
  ChangesDispatched
