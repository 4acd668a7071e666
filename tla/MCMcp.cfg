SPECIFICATION Spec
CONSTANTS
  Dir <- D
  Above <- A
  Toplevel <- T
  Unborn = {"new"}
  Base <- B
  Parsed <- P
  WikiHome <- W
  Name = {"ada", "bob", "wt-bob"}
  Harness = {"claude", "codex"}
  None = None
  Slash = "/"
  Configs <- C
  Environments <- E
CHECK_DEADLOCK FALSE
INVARIANTS
  GateAgrees
  OneActorActs
