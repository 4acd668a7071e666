SPECIFICATION ToolsSpec
CONSTANTS
  Unset = Unset
  RunOptions <- ToolsRunOptions
  Servers = {"s", "q"}
  Issues = {"7", "8"}
  IsPull = {"8"}
  TitleOf <- ToolsTitleOf
  MaxSpans = 2
  Run = {"r1", "r2"}
  ReviewOptions <- ToolsReviewOptions
  Second = {1, 2}
  Slug <- ToolsSlug
  Artifact <- ToolsArtifact
  Corpus <- ToolsCorpus
  Evidence = {"line"}
  RepoLabels = {"risk/phase-inversion", "risk/hollow-validation", "risk/speculative"}
  MaxRuns = 1
  Extraction = {"x", "y"}
  Item = {"open", "say", "again"}
  IssueOf <- ToolsIssueOf
  Opening = {"open"}
  Text = {"t", "u"}
  Milestone <- ToolsMilestone
  Given <- ToolsGiven
  Window <- ToolsWindow
  MaxTime = 1
  MaxIssue = 3
  Pull = {"p", "q"}
  User = {"u", "w"}
  ClosesOf <- ToolsClosesOf
  MentionsOf <- ToolsMentionsOf
  NamesOf <- ToolsNamesOf
  Labelled = {2}
  Bodies <- ToolsBodies
  Scopes <- ToolsScopes
  MaxChanges = 2
CHECK_DEADLOCK FALSE
INVARIANTS
  VerdictTrue
  TracesFresh
  GrantsAsAsked
  ManifestTrue
  NeverSilentlyTrusted
  Reproducible
  SnapshotTrue
PROPERTIES
  TimeoutBounds
