SPECIFICATION Spec
CONSTANTS
  w1 = w1
  w2 = w2
  p1 = p1
  p2 = p2
  Conn <- TwoWindows
  Host <- TwoWindows
  Leaf <- OneLeaf
  DefaultLeaf = 1
  InFrames <- NoFrames
  IsWorker = FALSE
  Freedom <- TypeOverlap
  Window = 2
  ReadBuf = 2
  SockCap = 2
  MaxBytes = 0
  MaxSends = 3
INVARIANTS
  InputAttributed
