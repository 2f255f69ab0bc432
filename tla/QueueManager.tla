---------------------------- MODULE QueueManager ----------------------------
(***************************************************************************)
(* The queue manager over time: queue_tick looks at the torrents that want *)
(* to run, rotates the seeding slots, admits candidates in queue order and *)
(* holds or starts them.  Here a tick is one step (module ManagedTorrent   *)
(* splits it and lets users act inside it); what is added is time, seeding *)
(* and slow torrents, changing limits and the user's moves.                *)
(*                                                                         *)
(* Instants are kept relative to the current tick, which is 0: a tick      *)
(* shifts the stored ones by -1, down to a bound that is past what         *)
(* rotate_seeds compares them with.                                        *)
(***************************************************************************)
EXTENDS TorrentQueue

CONSTANTS
  Torrents,    \* torrent ids
  LimitSets,   \* queue limits, and whether rotation is on, in the preferences
  SlotLen,     \* queue_seed_rotation_secs, in ticks
  IdleGrace,   \* grace, in ticks
  MaxAge,      \* bound on how long a slot_since or waiting_since lies back
  Budgets      \* how often users and torrents change what the tick sees

Events == {"add", "finish", "remove", "move", "limits"}

VARIABLES
  order,       \* TorrentQueue::order
  wanting,     \* torrents that are live or held: the candidates
  running,     \* the live ones
  admitted,    \* TorrentQueue::admitted, as the last tick left it
  seeding,     \* the finished ones
  st,          \* TorrentQueue::rotation
  limits,      \* queue_limits, with the field rotation
  last,        \* the last step and its inputs
  clock,       \* turns over with every tick
  budget

vars == <<order, wanting, running, admitted, seeding, st, limits, last, clock, budget>>

Spend(e) == budget[e] > 0 /\ budget' = [budget EXCEPT ![e] = @ - 1]

NoRotation == [slot_since |-> <<>>, waiting_since |-> <<>>, last_upload |-> <<>>]

Step(what) == [step |-> what, slow |-> {}, sel |-> {}]

QueueInit ==
  /\ order = <<>>
  /\ wanting = {}
  /\ running = {}
  /\ admitted = {}
  /\ seeding = {}
  /\ st = NoRotation
  /\ limits \in LimitSets
  /\ last = Step("none")
  /\ clock = 0
  /\ budget \in Budgets

-----------------------------------------------------------------------------
(* A torrent is added or unpaused: queue_should_hold holds it, unless the  *)
(* last tick admitted it.                                                  *)
Wants(i) ==
  /\ i \notin wanting
  /\ Spend("add")
  /\ wanting' = wanting \cup {i}
  /\ running' = running \cup ({i} \cap admitted)
  /\ \E done \in BOOLEAN : seeding' = IF done THEN seeding \cup {i} ELSE seeding
  /\ last' = Step("other")
  /\ UNCHANGED <<order, admitted, st, limits, clock>>

(* A running download has all its pieces. *)
Completes(i) ==
  /\ i \in running \ seeding
  /\ Spend("finish")
  /\ seeding' = seeding \cup {i}
  /\ last' = Step("other")
  /\ UNCHANGED <<order, wanting, running, admitted, st, limits, clock>>

(* The user pauses a torrent, or it stops with an error. *)
Leaves(i) ==
  /\ i \in wanting
  /\ Spend("remove")
  /\ wanting' = wanting \ {i}
  /\ running' = running \ {i}
  /\ last' = Step("other")
  /\ UNCHANGED <<order, admitted, seeding, st, limits, clock>>

(* queue_move *)
Move(sel, mv) ==
  /\ Spend("move")
  /\ order' = ApplyMove(Sync(order, Torrents), sel, mv)
  /\ last' = [Step("move") EXCEPT !.sel = sel]
  /\ UNCHANGED <<wanting, running, admitted, seeding, st, limits, clock>>

SetLimits(l) ==
  /\ Spend("limits")
  /\ limits' = l
  /\ last' = Step("other")
  /\ UNCHANGED <<order, wanting, running, admitted, seeding, st, clock>>

-----------------------------------------------------------------------------
(* The Instants after one more tick, none further back than its bound. *)
Aged(f, bound) == [i \in DOMAIN f |-> IF f[i] > -bound THEN f[i] - 1 ELSE f[i]]
AgedSt == [slot_since    |-> Aged(st.slot_since, MaxAge),
           waiting_since |-> Aged(st.waiting_since, MaxAge),
           last_upload   |-> Aged(st.last_upload, IdleGrace)]

(* The candidates in queue order, those in slow counted as slow. *)
Candidates(ord, slow) ==
  LET wants(i) == i \in wanting
      ids == SelectSeq(ord, wants)
  IN  [k \in DOMAIN ids |-> [id      |-> ids[k],
                             seeding |-> ids[k] \in seeding,
                             active  |-> ids[k] \in running,
                             slow    |-> ids[k] \in slow]]

SeedCands(uploads) ==
  {[id |-> i, active |-> i \in running, uploading |-> i \in uploads] :
     i \in wanting \cap seeding}

Rotates == limits.rotation /\ limits.max_uploads # None

Rotation(uploads) ==
  IF Rotates
  THEN RotateSeeds(SeedCands(uploads), limits.max_uploads, SlotLen, IdleGrace, AgedSt, 0)
  ELSE [st |-> AgedSt, pick |-> None]

(* queue_tick: uploads are the holders seen uploading, slow the running    *)
(* torrents whose rates were low for SLOW_AFTER (observe_speed).           *)
QueueTick_NeverStarts(uploads, slow) ==
  \E ord \in {Sync(order, Torrents)}, rot \in {Rotation(uploads)} :
    /\ order' = ord
    /\ st' = rot.st
    /\ admitted' = AdmitWith(Candidates(ord, slow), limits, rot.pick)
    /\ running' = running \cap admitted'
    /\ last' = [Step("tick") EXCEPT !.slow = slow]
    /\ clock' = 1 - clock
    /\ UNCHANGED <<wanting, seeding, limits, budget>>

QueueTick(uploads, slow) ==
  \E ord \in {Sync(order, Torrents)}, rot \in {Rotation(uploads)} :
    /\ order' = ord
    /\ st' = rot.st
    /\ admitted' = AdmitWith(Candidates(ord, slow), limits, rot.pick)
    /\ running' = admitted'
    /\ last' = [Step("tick") EXCEPT !.slow = slow]
    /\ clock' = 1 - clock
    /\ UNCHANGED <<wanting, seeding, limits, budget>>

Tick ==
  \E uploads \in SUBSET (running \cap seeding) :
    \E slow \in IF limits.ignore_slow THEN SUBSET (running \ uploads) ELSE {{}} :
      QueueTick(uploads, slow)

QueueNext ==
  \/ \E i \in Torrents : Wants(i) \/ Completes(i) \/ Leaves(i)
  \/ \E sel \in SUBSET Torrents, mv \in {"up", "down", "top", "bottom"} : Move(sel, mv)
  \/ \E l \in LimitSets : SetLimits(l)
  \/ Tick

(* The manager ticks every three seconds at the latest.  Tick is enabled   *)
(* in every state, so this is weak fairness of Tick.                       *)
KeepsTicking == []<><<clock' # clock>>_vars

QueueSpec == QueueInit /\ [][QueueNext]_vars /\ KeepsTicking

-----------------------------------------------------------------------------
(* The queue holds what the manager thinks it holds: it orders known       *)
(* torrents without repetition, only candidates run, and while rotation is *)
(* on nobody waits for MaxAge, so the bound hides no order.                *)
QueueTypeOK ==
  /\ IsInjective(order)
  /\ ToSet(order) \in {{}, Torrents}
  /\ running \subseteq wanting
  /\ wanting \subseteq Torrents
  /\ \A i \in DOMAIN st.waiting_since :
       st.waiting_since[i] \in (IF Rotates THEN 1 - MaxAge ELSE -MaxAge)..0

Downloads == running \ seeding
Seeders == running \cap seeding
Exempted == IF ~limits.ignore_slow THEN {}
            ELSE IF Rotates THEN last.slow \ seeding ELSE last.slow
Counted(S) == Cardinality(S \ Exempted)
Within(n, limit) == limit = None \/ n <= limit
Room(i) == /\ Under(Counted(running), limits.max_active)
           /\ IF i \in seeding THEN Under(Counted(Seeders), limits.max_uploads)
              ELSE Under(Counted(Downloads), limits.max_downloads)

(* "Limits on active downloads / uploads / torrents": after every tick the *)
(* torrents that count are within each limit, whatever happened between    *)
(* ticks (torrent_queue.rs:1, admit_with).                                 *)
LimitsRespected ==
  last.step = "tick" =>
    /\ Within(Counted(Downloads), limits.max_downloads)
    /\ Within(Counted(Seeders), limits.max_uploads)
    /\ Within(Counted(running), limits.max_active)

(* "... and started when a slot frees up": a tick leaves no torrent held   *)
(* that every limit has room for (torrent_queue.rs:3-4).                   *)
NoIdleSlot == last.step = "tick" => \A i \in wanting \ running : ~Room(i)

HeldFor(i) == -st.slot_since[i]
IdleFor(i) == -st.last_upload[i]

(* "A seeder with active leechers is never cut early": a tick stops a      *)
(* seeder it had given a slot only when its slot is used up, it was idle   *)
(* for the grace period, or there are more seeders than slots              *)
(* (rotate_seeds, torrent_queue.rs:124-126).                               *)
NotCutEarly ==
  [][last'.step = "tick" /\ Rotates =>
       \A i \in Seeders \ running' :
         \/ HeldFor(i)' >= SlotLen
         \/ IdleFor(i)' >= IdleGrace
         \/ Cardinality(Seeders) > limits.max_uploads]_vars

(* "Waiting torrents are admitted longest-waiting first": whoever a tick   *)
(* starts waited at least as long as every seeder it leaves waiting        *)
(* (rotate_seeds, torrent_queue.rs:127).                                   *)
LongestWaitingFirst ==
  [][last'.step = "tick" /\ Rotates =>
       \A i \in (running' \ running) \cap seeding :
         \A j \in (wanting \cap seeding) \ (running \cup running') :
           st'.waiting_since[i] <= st'.waiting_since[j]]_vars

(* "Fair round robin over seeding slots": every seeder that keeps waiting  *)
(* gets a slot while rotation is on (rotate_seeds, torrent_queue.rs:121).  *)
EverySeederSeeds ==
  \A i \in Torrents :
    [](i \in wanting \cap seeding => <>(i \in running \/ i \notin wanting \/ ~Rotates))

(* "Multi-select, relative order preserved": moving torrents in the queue  *)
(* keeps the order of the ones moved and of the ones not moved             *)
(* (apply_move, torrent_queue.rs:242).                                     *)
MovesKeepOrder ==
  [][last'.step = "move" =>
       \A S \in {last'.sel, Torrents \ last'.sel} :
         LET in(i) == i \in S
         IN  SelectSeq(order', in) = SelectSeq(Sync(order, Torrents), in)]_vars
=============================================================================
