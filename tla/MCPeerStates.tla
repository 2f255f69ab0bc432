---------------------------- MODULE MCPeerStates ----------------------------
(* Instances of PeerStates: two addresses, three task slots, two permits.  *)
EXTENDS PeerStates, FiniteSetsExt

CONSTANTS x, y, z

MCBlockLists == {{}, {y}}

Times(n, es) == [e \in Events |-> IF e \in es THEN n ELSE 0]
Plus(f, g) == [e \in Events |-> f[e] + g[e]]

(* Dialled peers fail, finish, are reconnected and exhaust their backoff;  *)
(* incoming and dialled connections meet; a stream is opened; incoming     *)
(* peers tell where they listen; the torrent stops.                        *)
TableBudgets ==
  {Plus(Times(1, {"add", "finish", "reselect", "exhaust"}), Times(2, {"connect"})),
   Times(1, {"add", "connect", "incoming", "finish", "exhaust"}),
   Plus(Times(1, {"connect", "die"}), Times(2, {"add", "incoming"})),
   Times(1, {"incoming", "ext", "finish", "open_stream"}),
   Plus(Times(1, {"finish", "open_stream", "die"}), Times(2, {"add"})),
   Plus(Times(1, {"ext", "die", "finish", "reselect", "stop"}), Times(2, {"incoming"}))}

(* A seeder is reconnected while its old connection still shuts down.      *)
ReconnectBudgets ==
  {Plus(Times(1, {"add", "finish", "reselect"}), Times(2, {"connect"}))}

(* An incoming peer is reconnected at the address it listens on.           *)
RetryBudgets == {Times(1, {"incoming", "ext", "finish", "reselect"})}
=============================================================================
