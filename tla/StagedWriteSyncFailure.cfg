CONSTANTS
  Parts = {"write"}
  f1 = f1
  f2 = f2
  f3 = f3
  e1 = e1
  e2 = e2
  N = 2
  Files <- TwoFiles
  Edits <- OneEdit
  MaxEdits = 1
  MaxFaults = 1
  SyncFaults = TRUE
  a = a
  Odd = Odd
  None = None
  Ids <- OneId
  Messages <- Ending
  MaxMessages = 1
  PoolSize = 1
  WriteFaults = TRUE
SPECIFICATION PartSpec
CHECK_DEADLOCK FALSE
INVARIANTS
  HandledFailureRestores
