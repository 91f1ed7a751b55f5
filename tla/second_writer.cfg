SPECIFICATION Spec
CONSTANTS
  w1 = w1
  w2 = w2
  p1 = p1
  p2 = p2
  Conn <- WindowAndPeer
  Host <- OneWindow
  Leaf <- OneLeaf
  DefaultLeaf = 1
  InFrames <- ObserveThenWrite
  IsWorker = FALSE
  Freedom <- ReattachFreedom
  Window = 2
  ReadBuf = 2
  SockCap = 2
  MaxBytes = 1
  MaxSends = 2
INVARIANTS
  OneWriter
