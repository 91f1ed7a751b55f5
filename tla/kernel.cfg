SPECIFICATION KernelSpec
CONSTANTS
  Byte <- MCByte
  Cap = 3
  MaxChunk = 4
  MaxLog = 7
  Kind <- MCKind
  IdMax = 3
  AnyMove = FALSE
  MaxLeaves = 2
INVARIANTS
  RingTypeOK
  Suffix
  RecoveryExact
  TypeOK
  TreeInv
  EventInv
PROPERTIES
  EvictionOnly
  CloseExact
  StableNodes
