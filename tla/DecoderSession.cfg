SPECIFICATION Spec
CONSTANTS
  Sessions = {s1, s2}
  MaxOffset = 3
  None = "none"
  Bytes <- MCBytes
  States <- MCStates
  Frames <- MCFrames
  Start = "value"
  Step <- MCStep
  Terminal <- MCTerminal
  Vocab <- MCVocab
  Grammar = "lists"
SYMMETRY Alike
INVARIANTS
  PublishedMaskIsExact
  SessionsReplay
