SPECIFICATION Spec
CONSTANTS
  w1 = w1
  w2 = w2
  p1 = p1
  p2 = p2
  Conn <- TwoPeers
  Host <- NoHosts
  Leaf <- TwoLeaves
  DefaultLeaf = 1
  InFrames <- ClaimFrames
  IsWorker = FALSE
  Freedom <- ClaimFreedom
  Window = 2
  ReadBuf = 2
  SockCap = 0
  MaxBytes = 0
  MaxSends = 2
SYMMETRY PeerSymmetry
INVARIANTS
  ClaimInv
  AttachInv
  ObserverNeverWrites
