-------------------------- MODULE MCManagedTorrent --------------------------
(* Instances of ManagedTorrent: two torrents, one of them complete.        *)
EXTENDS ManagedTorrent

Lim(down, up, active) ==
  [max_downloads |-> down, max_uploads |-> up, max_active |-> active, ignore_slow |-> FALSE]

Times(n, es) == [e \in Events |-> IF e \in es THEN n ELSE 0]

QueueOrder == <<2, 1>>
TwoLimits == {None, Lim(None, None, 1)}

(* What the users and the disk do, in each case in every order.            *)
LifeBudgets ==
  {Times(1, {"pause", "unpause", "fatal"}),
   Times(1, {"pause", "unpause", "check_fails"}),
   Times(1, {"pause", "unpause", "limits"}),
   Times(1, {"pause", "recheck"}),
   Times(1, {"recheck", "limits"}),
   Times(1, {"recheck", "fatal"})}

(* Just a pause. *)
PauseBudgets == {Times(1, {"pause"})}
=============================================================================
