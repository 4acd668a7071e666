SPECIFICATION MCSpec
CONSTANTS
  None = None
  Proc = {x1, x2, x3}
  Session = {y1, y2}
  MaxVersion = 3
  MaxArtifacts = 1
  Agent = {a1, a2}
  Client = {a1, a2}
  AgentOf <- SessionAgentOf
  MaxAttempts = 2
  MaxEdits = 4
SYMMETRY Symmetry
CHECK_DEADLOCK FALSE
INVARIANTS
  RunRowsTrue
  NoBlindOverwrite
  AckedPublished
PROPERTIES
  EndStopsServing
  SignalsOwnSession
  CapturedBeforeChange
  ReportedIsCommitted
