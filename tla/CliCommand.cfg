CONSTANTS
  Names <- Paths
  Canonical <- Leads
  Links = {"link", "sub/away"}
  Tree <- MCTree
  Components <- Parts
  Globs <- Patterns
  Outside = {"model"}
  Identifiers = {"merge"}
  CodesOf <- Codes
  Below <- Bases
  None = "none"
  ModelNames = {"model"}
  Stdin = "-"
  NoFile <- Gone
  Disks <- AllDisks
  Commands <- Lines
  EditTexts <- Writes
  Budget = 3
SPECIFICATION Spec
CHECK_DEADLOCK FALSE
INVARIANTS
  HighestLayerRules
  VerdictMatchesFiles
  PreviewIsWrite
  RefusalExplained
PROPERTIES
  SafeToWrite
