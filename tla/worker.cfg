SPECIFICATION FairSpec
CONSTANTS
  w1 = w1
  w2 = w2
  p1 = p1
  p2 = p2
  Conn <- WindowAndPeer
  Host <- OneWindow
  Leaf <- OneLeaf
  DefaultLeaf = 1
  InFrames <- WorkerFrames
  IsWorker = TRUE
  Freedom <- WorkerFreedom
  Window = 1
  ReadBuf = 2
  SockCap = 2
  MaxBytes = 2
  MaxSends = 2
INVARIANTS
  ExitLast
  WriterUnbroken
PROPERTIES
  DrainIndependent
