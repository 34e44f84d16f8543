SPECIFICATION MCSpec
CONSTANTS
  Table <- Step
  Final <- Terminal
  Schema <- MCSchema
  Spelling <- MCSpelling
  Queries <- MCQueries
  MaxToken = 3
  MaxStrays = 1
  Names <- CachedNames
  Typed <- TypedBytes
  Lists = {"vars"}
  Rules = {"RefVar"}
  ListOf <- RuleLists
  Distinct = {"vars"}
  MaxNames = 2
  Fill <- NextBytes
INVARIANTS
  QueriesAreAdmitted
  NeverStuck
  TrackerInStep
  MaskIsFresh
CHECK_DEADLOCK FALSE
