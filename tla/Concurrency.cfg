CONSTANTS
  Parts = {"write", "server"}
  f1 = f1
  f2 = f2
  f3 = f3
  e1 = e1
  e2 = e2
  N = 3
  Files <- ThreeFiles
  Edits <- TwoEdits
  MaxEdits = 2
  MaxFaults = 1
  SyncFaults = FALSE
  a = a
  Odd = Odd
  None = None
  Ids <- OneId
  Messages <- Racing
  MaxMessages = 4
  PoolSize = 2
  WriteFaults = TRUE
SPECIFICATION PartSpec
CHECK_DEADLOCK FALSE
INVARIANTS
  NoLostEdit
  HandledFailureRestores
  LeftoversAreNamed
  AtMostOneReply
  CancelHonoured
PROPERTIES
  CrashSafe
  RunEnds
  NoStaleResult
  ImplementsService
