SPECIFICATION DocumentsBehaviour
CONSTANTS
  u1 = u1
  u2 = u2
  NoUri = NoUri
  Reject = Reject
  Absent = Absent
  NoVersion = NoVersion
  Uris <- TwoUris
  Texts <- TwoTexts
  Changes <- TwoChanges
  Settings <- OneSetting
  MaxVersion = 2
  MaxRevision = 3
  MaxBatch = 2
  MaxSnapshots = 1
  Nothing = Nothing
  Chars <- FiveChars
  Newline = "newline"
  Utf8Len <- Bytes5
  Utf16Len <- Units5
  MaxLen = 3
  Files <- TwoFiles
  Source <- FileTexts
  Boundary <- FileBoundaries
  Fixes <- AllFixes
  OtherSource <- ChangedText
  MaxFixes = 3
INVARIANTS
  InSync
  CurrentMeansUnchanged
  PublishedIsCurrent
  ChangesAreUnitSplices
  FixEditReconstructs
  OutputIsMeaning
  PlanIsOrderIndependent
CHECK_DEADLOCK FALSE
