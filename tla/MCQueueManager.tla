--------------------------- MODULE MCQueueManager ---------------------------
(* Instances of QueueManager: three torrents, slots of two ticks.        *)
EXTENDS QueueManager

Lim(down, up, active, slow, rot) ==
  [max_downloads |-> down, max_uploads |-> up, max_active |-> active,
   ignore_slow |-> slow, rotation |-> rot]

Times(n, es) == [e \in Events |-> IF e \in es THEN n ELSE 0]

(* One or two seeding slots and one download, without a total; rotation    *)
(* off with a total that bites and slow torrents exempt.                   *)
SlotLimits == {Lim(1, 1, None, TRUE, TRUE), Lim(1, 2, None, FALSE, TRUE),
               Lim(1, 2, 2, TRUE, FALSE)}

(* Three torrents that seed or finish; one that leaves, other limits or    *)
(* another order in between.                                               *)
SlotBudgets ==
  {[Times(3, {"add"}) EXCEPT !["finish"] = 1],
   [Times(3, {"add"}) EXCEPT !["remove"] = 1],
   [Times(3, {"add"}) EXCEPT !["limits"] = 1],
   [Times(2, {"add"}) EXCEPT !["move"] = 1]}
=============================================================================
