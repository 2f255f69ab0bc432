--------------------------- MODULE MCPieceTracker ---------------------------
(* PieceTracker with three pieces of unequal length: file 1 covers pieces  *)
(* 1 and 2, file 2 covers 2 and 3 (piece 2 is shared), file 3 is padding.  *)
EXTENDS PieceTracker, FiniteSetsExt

CONSTANTS a, b, none

MCFilePieces == [f \in {1, 2, 3} |-> CASE f = 1 -> {1, 2}
                                       [] f = 2 -> {2, 3}
                                       [] f = 3 -> {3}]
MCPieceLen == [p \in {1, 2, 3} |-> IF p = 3 THEN 1 ELSE 2]
MCBytes(S) == MapThenSumSet(LAMBDA p : MCPieceLen[p], S)
=============================================================================
