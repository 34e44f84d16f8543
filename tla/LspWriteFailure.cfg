CONSTANTS
  Parts = {"server"}
  f1 = f1
  f2 = f2
  f3 = f3
  e1 = e1
  e2 = e2
  N = 1
  Files <- TwoFiles
  Edits <- OneEdit
  MaxEdits = 0
  MaxFaults = 1
  SyncFaults = FALSE
  a = a
  Odd = Odd
  None = None
  Ids <- OneId
  Messages <- Ending
  MaxMessages = 3
  PoolSize = 1
  WriteFaults = TRUE
SPECIFICATION PartSpec
CHECK_DEADLOCK FALSE
PROPERTY
  SessionEnds
