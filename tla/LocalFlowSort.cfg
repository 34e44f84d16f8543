SPECIFICATION Spec
CONSTANTS
  Parts = {"flow"}
  MaxGeneralizationDepth = 3
  PathOrder <- MCPathOrder
  IntrinsicScalars = {"Integer", "String", "Boolean"}
  Declarations <- MCDeclarations
  Bases <- MCBases
  Names = {"x", "y", "z"}
  MaxDeclarations = 3
  MaxSources = 3
  Variables = {"p", "q"}
  Classes = {"A", "Z"}
  Columns <- MCColumns
  Functions = {"sort"}
  ParameterLists <- SortParameterLists
  MaxNodes = 6
  MaxLambdas = 2
  MaxNesting = 4
  QueryGraphs <- MCQueryGraphs
  QueryClasses = {"A", "B", "Q"}
  NavNames = {"name", "pals"}
  FilterBodies <- MCFilterBodies
  MapBodies <- MCMapBodies
  ColumnSpecs <- MCColumnSpecs
  Selections <- MCSelections
  SortLists <- MCSortLists
  JoinCalls <- MCJoinCalls
  MaxLinks = 5
  MaxNormalizationSteps = 9
  MaxRelationalDepth = 4
  Databases <- MCDatabases
  ValueOrder <- MCValueOrder
  Unemittable = {"c d"}
  MaxRecursionDepth = 3
  MaxUnaryOperators = 2
  MaxRetroactiveWraps = 2
  Drafts <- MCDrafts
  MaxParseDepth = 3
  DomainDrafts <- MCDomainDrafts
INVARIANT NothingDeclaredIsReported
CHECK_DEADLOCK FALSE
