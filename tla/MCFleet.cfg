SPECIFICATION FleetSpec
CONSTANTS
  None = None
  Proc = {"p1", "p2", "p3"}
  Actor = {"ada"}
  CommandOf <- FleetCommand
  SlugOf <- FleetSlug
  Tree = {"ada", "bob"}
  Change = {"edit", "nested", "other"}
  Nested = {"nested"}
  HomeOf <- FleetHome
  HasEmail = TRUE
  WikiTree = {"ada"}
  MaxCommits = 1
CHECK_DEADLOCK FALSE
INVARIANTS
  StaysHome
  StanzasKept
  EditsKept
  CompleteMeansReady
