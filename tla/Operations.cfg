SPECIFICATION Spec
CONSTANTS
  Sessions <- MCSessions
  a = a
  b = b
  Items = {a, b}
  DependsOn <- MCDependsOn
  Controllers = {"operator", "batch"}
  OperatorActions = {"narrow", "pause", "resume", "cancel"}
  MaxControls = 1
  Workspaces <- MCWorkspaces
  Privileged <- MCPrivileged
  MaxCycles = 2
  Selected = {"parent"}
  Contents = {1, 2}
  MaxAttempts <- MCAttempts
  Operator = {"block", "ready"}
  Reports <- MCReports
  Refs = {1, 2, 3}
  InputLists = {{1, 2, 3}, {1, 2}, {2}, {3}}
  MaxEdits = 3
  TableRows = {"k1", "k2"}
  Written <- MCWritten
  MaxRewrites = 2
  facade = facade
  inner = inner
  leaf = leaf
  ext = ext
  InTree = {facade, inner, leaf}
  Outside = {ext}
  Facade = facade
  AllowedImporters = {facade, inner, leaf}
  ForbiddenImports = {ext}
  SourceFiles = {"source", "anchor"}
  Anchored = {"anchor"}
  InterfaceLines = {"base", "addition"}
  AdditionLines = {"addition"}
  MaxChanges = 2
  Files <- MCFiles
  Form <- MCForm
  Section <- MCSection
  Trees <- MCTrees
  SharedSymbols = {"retry"}
  Fixtures = {"fixture_mbt"}
  TermAllowlist = {}
  MaxCommits = 1
  Programs <- MCPrograms
  MaxSoaks = 2
  MaxSoakCycles = 2
INVARIANTS
  TypeOK EvidenceBound ExecutionsWithinBudget JournalHonest ReceiptCurrent WorksheetsKeepIntent
  ExpansionSound PublishedFromOneSource GraphVerdict DriftReported LayersContained SoakHonest
PROPERTIES RunsSettle PauseQuiesces
CHECK_DEADLOCK FALSE
