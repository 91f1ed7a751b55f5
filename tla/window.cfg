SPECIFICATION FairSpec
CONSTANTS
  w1 = w1
  w2 = w2
  p1 = p1
  p2 = p2
  Conn <- TwoWindows
  Host <- TwoWindows
  Leaf <- OneLeaf
  DefaultLeaf = 1
  InFrames <- NoFrames
  IsWorker = FALSE
  Freedom <- WindowFreedom
  Window = 1
  ReadBuf = 2
  SockCap = 2
  MaxBytes = 2
  MaxSends = 2
INVARIANTS
  TypeOK
  ExitKept
  ExitLast
PROPERTIES
  OutputShown
  ExitLearned
