SPECIFICATION GrammarBehaviour
CONSTANTS
  Table <- Step
  Final <- Terminal
  Vocab <- MCVocab
  MaxDepth = 2
  SpecBytes = {"a", " "}
  NoFrame = "none"
  BoundaryByte = " "
  MaxStates = 2
  MaxRulesPerState = 2
  MaxTotalRules = 3
  MaxFrames = 2
  Specs <- MCSpecs
  MaxSpecDepth = 2
  Bottom = "none"
  Q <- States
  Gamma <- Frames
  Sigma <- Bytes
  Delta <- Step
  Ambients <- FixedAmbients
  MaxScratch = 2
INVARIANTS
  MaskIsExact
  CompileIsJust
  ProbePredicts
PROPERTIES
  EveryPrefixCompletes
CHECK_DEADLOCK FALSE
