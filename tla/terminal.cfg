SPECIFICATION Spec
CONSTANTS
  MaxParams = 3
  MaxInter = 2
  MaxOsc = 4
  GraphemeMax = 2
  ReplyCap = 12
  Wide <- MCWide
  Mark <- MCMark
  Palette <- MCPalette
  First <- MCFirst
  Chunks <- MCChunks
  InsertChunks <- MCInsertChunks
  Sizes <- MCSizes
  Cols = 4
  Rows = 3
  MaxHistory = 2
  MaxFeeds = 3
  MaxHostOps = 1
  Probes <- MCProbes
INVARIANTS
  TypeOK
  MirrorShows
  PairsIntact
  PendingAtMargin
  CheckpointExact
  RepaintExact
PROPERTY AltKeepsPrimary
CHECK_DEADLOCK FALSE
