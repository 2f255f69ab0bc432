SPECIFICATION LiveSpec
CONSTANTS
  a = a
  b = b
  none = none
  Pieces = {1, 2}
  Chunks = {1, 2}
  Peers = {a, b}
  NoPeer = none
  Files = {1, 2}
  PaddingFiles = {}
  FilePieces <- MCFilePieces
  PieceLen <- MCPieceLen
  Bytes <- MCBytes
  FileBytes <- MCFileBytes
  PeerHas <- MCPeerHas
  SoftRecover = {FALSE}
  MaxAttempts = 2
  Budgets <- ReadErrorBudgets
INVARIANTS
  NoPieceForgotten
CHECK_DEADLOCK FALSE
