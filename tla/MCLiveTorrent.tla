---------------------------- MODULE MCLiveTorrent ----------------------------
(* Instances of LiveTorrent: two pieces and two peers that have both; file *)
(* 1 covers piece 1, file 2 covers both.  The budgets say which events of  *)
(* the environment may happen, once each unless stated.                    *)
EXTENDS LiveTorrent, FiniteSetsExt

CONSTANTS a, b, none

MCFilePieces == [f \in {1, 2} |-> IF f = 1 THEN {1} ELSE {1, 2}]
MCPieceLen == [p \in {1, 2} |-> 1]
MCBytes(S) == Cardinality(S)
MCFileBytes(f, S) == Cardinality(S)
MCPeerHas == [q \in {a, b} |-> {1, 2}]

Allow(es) == [e \in Events |-> IF e \in es THEN 1 ELSE 0]


(* Peers and disks fail.                                                   *)
FaultBudgets == {Allow({"die", "bad_data", "steal"}),
                 Allow({"die", "write_error", "read_error", "steal"})}

(* The user steps in, and disks fill up.                                   *)
UserBudgets == {Allow({"die", "select", "open_stream"}),
                Allow({"write_error", "disk_full", "pause", "manual_reset"})}

(* Everything that can go wrong and must not keep a download from ending.  *)
FinishBudgets == {Allow({"die", "bad_data", "write_error", "steal"})}

ReadErrorBudgets == {Allow({"read_error"})}
StreamBudgets == {Allow({"bad_data", "open_stream"})}
=============================================================================
