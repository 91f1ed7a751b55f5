SPECIFICATION Spec
CONSTANTS
  w1 = w1
  w2 = w2
  p1 = p1
  p2 = p2
  Conn <- OneWindow
  Host <- OneWindow
  Leaf <- OneLeaf
  DefaultLeaf = 1
  InFrames <- NoFrames
  IsWorker = FALSE
  Freedom <- ClockFreedom
  Window = 2
  ReadBuf = 2
  SockCap = 2
  MaxBytes = 0
  MaxSends = 2
INVARIANTS
  LeaseHeld
