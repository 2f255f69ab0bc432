SPECIFICATION LiveFairSpec
CONSTANTS
  a = a
  b = b
  none = none
  Pieces = {1, 2}
  Chunks = {1}
  Peers = {a, b}
  NoPeer = none
  Files = {1, 2}
  PaddingFiles = {}
  FilePieces <- MCFilePieces
  PieceLen <- MCPieceLen
  Bytes <- MCBytes
  FileBytes <- MCFileBytes
  PeerHas <- MCPeerHas
  SoftRecover = {TRUE, FALSE}
  MaxAttempts = 2
  Budgets <- FinishBudgets
PROPERTIES
  DownloadFinishes
CHECK_DEADLOCK FALSE
