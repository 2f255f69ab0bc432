SPECIFICATION TrackerSpec
CONSTANTS
  a = a
  b = b
  none = none
  Pieces = {1, 2, 3}
  Chunks = {1, 2}
  Peers = {a, b}
  NoPeer = none
  Files = {1, 2, 3}
  PaddingFiles = {3}
  FilePieces <- MCFilePieces
  PieceLen <- MCPieceLen
  Bytes <- MCBytes
INVARIANTS
  TrackerTypeOK
  HaveNotQueued
  HnsInSync
