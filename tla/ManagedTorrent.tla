--------------------------- MODULE ManagedTorrent ---------------------------
(***************************************************************************)
(* The life of the session's torrents: ManagedTorrent's state machine, the *)
(* check task that start spawns for an initializing torrent, the receiver  *)
(* of a live torrent's fatal error, the session's pause, unpause and force *)
(* recheck, and the queue manager that holds and starts torrents meanwhile.*)
(*                                                                         *)
(* A step runs under the torrent's lock (locked).  What happens without it *)
(* is a step of its own: the end of a check before its result is applied,  *)
(* the receiver between the error and stop_with_error, the tick between    *)
(* what it saw and what it does, pause and force_recheck between the flag  *)
(* they read and what they do about it.  Seeding slots do not rotate here  *)
(* (module QueueManager has that) and no torrent is slow.                  *)
(*                                                                         *)
(* raced and firm are history: they tell which of the promises below the   *)
(* code keeps in every order of these steps, and which only without races. *)
(***************************************************************************)
EXTENDS TorrentQueue

CONSTANTS
  Torrents,       \* torrent ids, all in the session
  Order,          \* the queue order
  Seeding,        \* the torrents that have all their pieces
  LimitSets,      \* the queue limits the preferences may hold, None for off
  InitPermits,    \* permits of concurrent_initialize_semaphore
  CheckSlots,     \* bound: check tasks alive at a time
  LiveIds,        \* bound: live incarnations with a task left, per torrent
  InitIds,        \* bound: TorrentStateInitializing objects in use, per torrent
  Budgets         \* how often each event happens

Events == {"pause", "unpause", "recheck", "fatal", "check_fails", "limits"}

VARIABLES
  state,      \* state[t]: the variant of ManagedTorrentState
  paused,     \* paused[t]: ManagedTorrentLocked::paused
  held,       \* held[t]: runtime.queue_held
  init,       \* init[t]: the current TorrentStateInitializing
  inits,      \* inits[t][g]: its flags, and whether its files were taken
  files,      \* files[t]: whether the Paused or Live state owns the files
  check,      \* check[k]: a check task
  live,       \* live[t]: the incarnation the Live state holds, 0 if none
  token,      \* token[t]: incarnations whose tasks are not cancelled
  receiver,   \* receiver[t][l]: the fatal error receiver of incarnation l
  calls,      \* pause and force_recheck calls between two of their steps
  limits,     \* Preferences::queue_limits
  admitted,   \* TorrentQueue::admitted
  tick,       \* the queue manager's pass
  raced,      \* raced[t]: start met a check of the same object still running
  firm,       \* firm[t]: the user paused it while it ran; not unpaused since
  budget

core == <<state, paused, held, files, live, token, receiver>>
checking == <<init, inits, check, raced>>
queueing == <<limits, admitted, tick>>
users == <<calls, firm>>
vars == <<core, checking, queueing, users, budget>>

Spend(e) == budget[e] > 0 /\ budget' = [budget EXCEPT ![e] = @ - 1]

NoCheck == [t |-> 0, g |-> 0, start_paused |-> FALSE, pc |-> "none", result |-> "none"]
NewInit == [pause_requested |-> FALSE, check_running |-> FALSE, taken |-> FALSE]
NoTick == [pc |-> "idle", todo |-> {}, cands |-> {}, limits |-> None]

Checks(t, g) == {k \in CheckSlots : check[k].pc # "none" /\ check[k].t = t /\ check[k].g = g}

-----------------------------------------------------------------------------
(* queue_should_hold *)
ShouldHold(t) == limits # None /\ t \notin admitted

FreeInit(t) == {g \in InitIds \ {init[t]} : Checks(t, g) = {}}
FreeLive(t) == {l \in LiveIds : l \notin token[t] /\ receiver[t][l] = "none"}
FreeCheck == {k \in CheckSlots : check[k].pc = "none"}
Least(S) == CHOOSE x \in S : \A y \in S : x <= y

(* live.pause(): its tasks, the waiting receiver among them, are cancelled. *)
CancelLive(t) ==
  /\ token' = [token EXCEPT ![t] = @ \ {live[t]}]
  /\ receiver' = IF receiver[t][live[t]] = "waiting"
                 THEN [receiver EXCEPT ![t][live[t]] = "none"] ELSE receiver
  /\ live' = [live EXCEPT ![t] = 0]

(* _start of a Paused torrent whose storage has its files (f), with the    *)
(* flag paused at p: leave it, hold it, or make it live.                   *)
StartPaused(t, start_paused, p, f) ==
  IF start_paused \/ ShouldHold(t)
  THEN /\ state' = [state EXCEPT ![t] = "paused"]
       /\ paused' = [paused EXCEPT ![t] = IF start_paused THEN p ELSE TRUE]
       /\ held' = [held EXCEPT ![t] = IF start_paused THEN @ ELSE TRUE]
       /\ files' = [files EXCEPT ![t] = f]
       /\ UNCHANGED <<live, token, receiver>>
  ELSE LET l == Least(FreeLive(t))
       IN  /\ FreeLive(t) # {}
           /\ state' = [state EXCEPT ![t] = "live"]
           /\ paused' = [paused EXCEPT ![t] = p]
           /\ held' = [held EXCEPT ![t] = FALSE]
           /\ files' = [files EXCEPT ![t] = f]
           /\ live' = [live EXCEPT ![t] = l]
           /\ token' = [token EXCEPT ![t] = @ \cup {l}]
           /\ receiver' = [receiver EXCEPT ![t][l] = "waiting"]

(* _start of an Initializing torrent whose object g has the fields o: a    *)
(* second check of the same object is not started, and this call's         *)
(* start_paused is dropped.                                                *)
StartInitializing(t, start_paused, g, o) ==
  /\ inits' = [inits EXCEPT ![t][g] =
       [o EXCEPT !.pause_requested = FALSE, !.check_running = TRUE]]
  /\ IF o.check_running THEN UNCHANGED check
     ELSE /\ FreeCheck # {}
          /\ check' = [check EXCEPT ![Least(FreeCheck)] =
               [t |-> t, g |-> g, start_paused |-> start_paused,
                pc |-> "queued", result |-> "none"]]

(* ManagedTorrent::start.  A live torrent answers with an error, but only  *)
(* after the flag was set.                                                 *)
Start(t, start_paused) ==
  \/ /\ state[t] = "live"
     /\ paused' = [paused EXCEPT ![t] = start_paused]
     /\ UNCHANGED <<state, held, files, live, token, receiver, checking>>
  \/ /\ state[t] = "initializing"
     /\ paused' = [paused EXCEPT ![t] = start_paused]
     /\ StartInitializing(t, start_paused, init[t], inits[t][init[t]])
     /\ raced' = [raced EXCEPT ![t] = @ \/ Checks(t, init[t]) # {}]
     /\ UNCHANGED <<state, held, files, live, token, receiver, init>>
  \/ /\ state[t] = "paused"
     /\ StartPaused(t, start_paused, start_paused, files[t])
     /\ UNCHANGED checking
  \/ /\ state[t] = "error"
     /\ FreeInit(t) # {}
     /\ paused' = [paused EXCEPT ![t] = start_paused]
     /\ state' = [state EXCEPT ![t] = "initializing"]
     /\ init' = [init EXCEPT ![t] = Least(FreeInit(t))]
     /\ StartInitializing(t, start_paused, Least(FreeInit(t)), NewInit)
     /\ UNCHANGED <<held, files, live, token, receiver, raced>>

(* ManagedTorrent::pause *)
PauseTorrent(t) ==
  \/ /\ state[t] = "live"
     /\ CancelLive(t)
     /\ state' = [state EXCEPT ![t] = "paused"]
     /\ paused' = [paused EXCEPT ![t] = TRUE]
     /\ UNCHANGED <<files, inits>>
  \/ /\ state[t] = "initializing"
     /\ paused' = [paused EXCEPT ![t] = TRUE]
     /\ inits' = [inits EXCEPT ![t][init[t]].pause_requested = TRUE]
     /\ UNCHANGED <<state, files, live, token, receiver>>

Pausable(t) == state[t] \in {"live", "initializing"}

(* The session adds the torrents, some of them paused, and starts them.    *)
TorrentsInit ==
  \E add_paused \in SUBSET Torrents :
    /\ state = [t \in Torrents |-> "initializing"]
    /\ paused = [t \in Torrents |-> t \in add_paused]
    /\ held = [t \in Torrents |-> FALSE]
    /\ init = [t \in Torrents |-> Least(InitIds)]
    /\ inits = [t \in Torrents |->
         [g \in InitIds |-> [NewInit EXCEPT !.check_running = (g = init[t])]]]
    /\ files = [t \in Torrents |-> TRUE]
    /\ check = [k \in CheckSlots |-> IF k \in Torrents
         THEN [NoCheck EXCEPT !.t = k, !.g = init[k], !.pc = "queued",
                         !.start_paused = k \in add_paused]
         ELSE NoCheck]
    /\ live = [t \in Torrents |-> 0]
    /\ token = [t \in Torrents |-> {}]
    /\ receiver = [t \in Torrents |-> [l \in LiveIds |-> "none"]]
    /\ calls = {}
    /\ limits \in LimitSets
    /\ admitted = {}
    /\ tick = NoTick
    /\ raced = [t \in Torrents |-> FALSE]
    /\ firm = [t \in Torrents |-> FALSE]
    /\ budget \in Budgets

-----------------------------------------------------------------------------
(* The check task.  A permit is held from CheckBegins to the task's end.   *)
SetCheck(k, pc, result) == check' = [check EXCEPT ![k].pc = pc, ![k].result = result]

CheckBegins_DropPermit(k) ==
  /\ check[k].pc = "queued"
  /\ SetCheck(k, "checking", "none")
  /\ UNCHANGED <<core, init, inits, raced, queueing, users, budget>>

CheckBegins(k) ==
  /\ check[k].pc = "queued"
  /\ Cardinality({j \in CheckSlots : check[j].pc \notin {"none", "queued"}}) < InitPermits
  /\ SetCheck(k, "checking", "none")
  /\ UNCHANGED <<core, init, inits, raced, queueing, users, budget>>

(* initial_check looks at the pause request before every piece; the        *)
(* fastresume path does not, nor does what follows the last piece.         *)
CheckSeesPause(k) ==
  /\ check[k].pc = "checking"
  /\ inits[check[k].t][check[k].g].pause_requested
  /\ SetCheck(k, "checked", "err")
  /\ UNCHANGED <<core, init, inits, raced, queueing, users, budget>>

(* The check ends well and takes the files out of the object; a second     *)
(* check of the object finds none.                                         *)
CheckSucceeds(k) ==
  LET t == check[k].t  g == check[k].g
  IN  /\ check[k].pc = "checking"
      /\ SetCheck(k, "checked", IF inits[t][g].taken THEN "no_files" ELSE "ok")
      /\ inits' = [inits EXCEPT ![t][g].taken = TRUE]
      /\ UNCHANGED <<core, init, raced, queueing, users, budget>>

CheckFails(k) ==
  /\ check[k].pc = "checking"
  /\ Spend("check_fails")
  /\ SetCheck(k, "checked", "err")
  /\ UNCHANGED <<core, init, inits, raced, queueing, users>>

FinishCheck_KeepRunning(k) ==
  /\ check[k].pc = "checked"
  /\ check' = [check EXCEPT ![k].pc = "finished"]
  /\ UNCHANGED <<core, init, inits, raced, queueing, users, budget>>

FinishCheck(k) ==
  /\ check[k].pc = "checked"
  /\ check' = [check EXCEPT ![k].pc = "finished"]
  /\ inits' = [inits EXCEPT ![check[k].t][check[k].g].check_running = FALSE]
  /\ UNCHANGED <<core, init, raced, queueing, users, budget>>

(* The torrent leaves the initializing state with the start_paused of the  *)
(* call that spawned the task.                                             *)
AppliesOk(k) ==
  LET t == check[k].t
  IN  /\ check[k].result \in {"ok", "no_files"}
      /\ IF state[t] = "initializing"
         THEN StartPaused(t, check[k].start_paused, paused[t], check[k].result = "ok")
         ELSE UNCHANGED core

(* A failed check whose pause is still wanted leaves the torrent as it is; *)
(* otherwise the state is overwritten, whatever it is now.                 *)
AppliesErr(k) ==
  LET t == check[k].t
  IN  /\ check[k].result = "err"
      /\ IF inits[t][check[k].g].pause_requested THEN UNCHANGED core
         ELSE /\ state' = [state EXCEPT ![t] = "error"]
              /\ live' = [live EXCEPT ![t] = 0]
              /\ UNCHANGED <<paused, held, files, token, receiver>>

CheckApplies(k) ==
  /\ check[k].pc = "finished"
  /\ AppliesOk(k) \/ AppliesErr(k)
  /\ check' = [check EXCEPT ![k] = NoCheck]
  /\ UNCHANGED <<init, inits, raced, queueing, users, budget>>

CheckStep ==
  \E k \in CheckSlots : \/ CheckBegins(k) \/ CheckSeesPause(k) \/ CheckSucceeds(k)
                        \/ CheckFails(k) \/ FinishCheck(k) \/ CheckApplies(k)

-----------------------------------------------------------------------------
(* on_fatal_error of an incarnation that was not paused *)
FatalError(t, l) ==
  /\ l \in token[t] /\ receiver[t][l] = "waiting"
  /\ Spend("fatal")
  /\ receiver' = [receiver EXCEPT ![t][l] = "sent"]
  /\ UNCHANGED <<state, paused, held, files, live, token, checking, queueing, users>>

(* The receiver's select: a cancelled receiver whose error has arrived may *)
(* take either branch.                                                     *)
ReceiverWakes(t, l) ==
  /\ receiver[t][l] = "sent"
  /\ \E next \in {"got"} \cup (IF l \in token[t] THEN {} ELSE {"none"}) :
       receiver' = [receiver EXCEPT ![t][l] = next]
  /\ UNCHANGED <<state, paused, held, files, live, token, checking, queueing, users, budget>>

(* stop_with_error: whatever is live now is stopped.  Only its own         *)
(* receiver can still be waiting or have been sent an error.               *)
StopWithError_KeepTasks(t, l) ==
  /\ receiver[t][l] = "got"
  /\ state' = [state EXCEPT ![t] = "error"]
  /\ receiver' = [receiver EXCEPT ![t][l] = "none"]
  /\ live' = [live EXCEPT ![t] = 0]
  /\ UNCHANGED <<paused, held, files, token, checking, queueing, users, budget>>

StopWithError(t, l) ==
  /\ receiver[t][l] = "got"
  /\ state' = [state EXCEPT ![t] = "error"]
  /\ receiver' = [receiver EXCEPT ![t] = [m \in LiveIds |->
        IF m = l \/ (m = live[t] /\ @[m] = "waiting") THEN "none" ELSE @[m]]]
  /\ token' = [token EXCEPT ![t] = @ \ {live[t]}]
  /\ live' = [live EXCEPT ![t] = 0]
  /\ UNCHANGED <<paused, held, files, checking, queueing, users, budget>>

ReceiverStep == \E t \in Torrents, l \in LiveIds : ReceiverWakes(t, l) \/ StopWithError(t, l)

-----------------------------------------------------------------------------
(* Session::pause reads queue_held, then either clears it or pauses the    *)
(* torrent (an error if it does not run).                                  *)
PauseBegins(t) ==
  /\ Spend("pause")
  /\ calls' = calls \cup {[op |-> "pause", t |-> t, flag |-> held[t]]}
  /\ UNCHANGED <<core, checking, queueing, firm>>

Undisturbed(c) ==
  /\ tick.pc = "idle"
  /\ \A d \in calls \ {c} : d.t # c.t
  /\ \A g \in InitIds : Checks(c.t, g) = {}

PauseEnds(c) ==
  /\ c.op = "pause"
  /\ \/ /\ c.flag
        /\ held' = [held EXCEPT ![c.t] = FALSE]
        /\ UNCHANGED <<state, paused, files, live, token, receiver, inits, firm>>
     \/ /\ ~c.flag
        /\ PauseTorrent(c.t)
        /\ firm' = [firm EXCEPT ![c.t] = @ \/ (state[c.t] = "live" /\ Undisturbed(c))]
        /\ UNCHANGED held
     \/ /\ ~c.flag /\ ~Pausable(c.t)
        /\ UNCHANGED <<core, inits, firm>>
  /\ calls' = calls \ {c}
  /\ UNCHANGED <<init, check, raced, queueing, budget>>

(* Session::unpause *)
Unpause(t) ==
  /\ Spend("unpause")
  /\ Start(t, FALSE)
  /\ firm' = [firm EXCEPT ![t] = FALSE]
  /\ UNCHANGED <<queueing, calls>>

(* Session::force_recheck: is_paused, prepare_recheck (an error while the  *)
(* torrent is checked), then start or unpause.                             *)
IsPaused(t) == paused[t] /\ ~held[t]

RecheckBegins(t) ==
  /\ Spend("recheck")
  /\ calls' = calls \cup {[op |-> "recheck", t |-> t, flag |-> IsPaused(t)]}
  /\ UNCHANGED <<core, checking, queueing, firm>>

RecheckStops(c) ==
  /\ c.op = "recheck"
  /\ IF state[c.t] = "initializing"
     THEN calls' = calls \ {c} /\ UNCHANGED core
     ELSE /\ calls' = (calls \ {c}) \cup {[c EXCEPT !.op = "restart"]}
          /\ IF state[c.t] = "live" THEN CancelLive(c.t) ELSE UNCHANGED <<live, token, receiver>>
          /\ state' = [state EXCEPT ![c.t] = "error"]
          /\ UNCHANGED <<paused, held, files>>
  /\ UNCHANGED <<checking, queueing, firm, budget>>

RecheckStarts(c) ==
  /\ c.op = "restart"
  /\ Start(c.t, c.flag)
  /\ calls' = calls \ {c}
  /\ UNCHANGED <<queueing, firm, budget>>

CallStep == \E c \in calls : PauseEnds(c) \/ RecheckStops(c) \/ RecheckStarts(c)

SetLimits(l) ==
  /\ Spend("limits")
  /\ limits' = l
  /\ UNCHANGED <<core, checking, admitted, tick, users>>

-----------------------------------------------------------------------------
(* queue_tick.  tick.todo are the torrents its current loop has not        *)
(* reached; cands what its first loop saw.                                 *)
TickBegins ==
  /\ tick.pc = "idle"
  /\ tick' = [pc     |-> IF limits = None THEN "release" ELSE "collect",
              todo   |-> Torrents,
              cands  |-> {},
              limits |-> limits]
  /\ UNCHANGED <<core, checking, limits, admitted, users, budget>>

After(t) == IF tick.todo = {t} THEN NoTick ELSE [tick EXCEPT !.todo = @ \ {t}]

(* Queueing is off: what is still held is started. *)
TickReleases(t) ==
  /\ tick.pc = "release" /\ t \in tick.todo
  /\ IF held[t] THEN Start(t, FALSE) /\ admitted' = admitted \cup {t}
     ELSE UNCHANGED <<core, checking, admitted>>
  /\ tick' = After(t)
  /\ UNCHANGED <<limits, users, budget>>

Candidate_AnyPaused(t) == state[t] \in {"live", "paused"}

Candidate(t) == state[t] = "live" \/ (state[t] = "paused" /\ held[t])

TickCollects(t) ==
  /\ tick.pc = "collect" /\ t \in tick.todo
  /\ tick' = [tick EXCEPT !.todo = @ \ {t},
                          !.cands = IF Candidate(t)
                                    THEN @ \cup {[id |-> t, seeding |-> t \in Seeding,
                                                  active |-> state[t] = "live", slow |-> FALSE]}
                                    ELSE @]
  /\ UNCHANGED <<core, checking, limits, admitted, users, budget>>

Ordered(cands) ==
  LET in(t) == t \in Ids(cands)
      ids == SelectSeq(Order, in)
  IN  [k \in DOMAIN ids |-> CHOOSE c \in cands : c.id = ids[k]]

TickAdmits ==
  /\ tick.pc = "collect" /\ tick.todo = {}
  /\ admitted' = AdmitWith(Ordered(tick.cands), tick.limits, None)
  /\ tick' = IF tick.cands = {} THEN NoTick
             ELSE [tick EXCEPT !.pc = "apply", !.todo = Ids(tick.cands)]
  /\ UNCHANGED <<core, checking, limits, users, budget>>

(* The second loop, in queue order. *)
NextUp(t, pc) ==
  /\ tick.pc = pc /\ t \in tick.todo
  /\ \A i, j \in DOMAIN Order : Order[i] = t /\ Order[j] \in tick.todo => i <= j

Active(t) == \E c \in tick.cands : c.id = t /\ c.active

TickHolds(t) ==
  /\ NextUp(t, "apply") /\ Active(t) /\ t \notin admitted
  /\ held' = [held EXCEPT ![t] = TRUE]
  /\ tick' = [tick EXCEPT !.pc = "pause"]
  /\ UNCHANGED <<state, paused, files, live, token, receiver, checking, limits, admitted,
                 users, budget>>

TickPauses(t) ==
  /\ NextUp(t, "pause")
  /\ \/ PauseTorrent(t) /\ UNCHANGED held
     \/ /\ ~Pausable(t)
        /\ held' = [held EXCEPT ![t] = FALSE]
        /\ UNCHANGED <<state, paused, files, live, token, receiver, inits>>
  /\ tick' = IF tick.todo = {t} THEN NoTick
             ELSE [tick EXCEPT !.pc = "apply", !.todo = @ \ {t}]
  /\ UNCHANGED <<init, check, raced, limits, admitted, users, budget>>

TickStarts_Never(t) ==
  /\ NextUp(t, "apply") /\ ~Active(t) /\ t \in admitted
  /\ tick' = After(t)
  /\ UNCHANGED <<core, checking, limits, admitted, users, budget>>

TickStarts(t) ==
  /\ NextUp(t, "apply") /\ ~Active(t) /\ t \in admitted
  /\ Start(t, FALSE)
  /\ tick' = After(t)
  /\ UNCHANGED <<limits, admitted, users, budget>>

TickLeaves(t) ==
  /\ NextUp(t, "apply") /\ (Active(t) <=> t \in admitted)
  /\ tick' = After(t)
  /\ UNCHANGED <<core, checking, limits, admitted, users, budget>>

TickStep ==
  \/ TickBegins
  \/ TickAdmits
  \/ \E t \in Torrents : \/ TickReleases(t) \/ TickCollects(t) \/ TickHolds(t)
                         \/ TickPauses(t) \/ TickStarts(t) \/ TickLeaves(t)

-----------------------------------------------------------------------------
TorrentsNext ==
  \/ CheckStep
  \/ ReceiverStep
  \/ TickStep
  \/ CallStep
  \/ \E t \in Torrents : PauseBegins(t) \/ Unpause(t) \/ RecheckBegins(t)
  \/ \E t \in Torrents, l \in LiveIds : FatalError(t, l)
  \/ \E l \in LimitSets : SetLimits(l)

(* Spawned tasks run, a call that began goes on, and the manager ticks at  *)
(* least every three seconds.                                              *)
TorrentsSpec ==
  /\ TorrentsInit /\ [][TorrentsNext]_vars
  /\ WF_vars(CheckStep) /\ WF_vars(ReceiverStep) /\ WF_vars(TickStep) /\ WF_vars(CallStep)

-----------------------------------------------------------------------------
(* The types, and that a live state is one incarnation.                    *)
TorrentsTypeOK ==
  /\ state \in [Torrents -> {"initializing", "paused", "live", "error"}]
  /\ \A t \in Torrents : /\ init[t] \in InitIds
                         /\ live[t] \in LiveIds \cup {0}
                         /\ (live[t] # 0 <=> state[t] = "live")
                         /\ token[t] \subseteq LiveIds
  /\ Cardinality({k \in CheckSlots : check[k].pc \notin {"none", "queued"}}) <= InitPermits

(* "live -> paused", "live -> error" (torrent_state/mod.rs:58-66): when a  *)
(* torrent is not live, no task of an incarnation of it is left running,   *)
(* and a live or paused one owns its files.  Unless start met a check of   *)
(* the same object that was still ending (raced).                          *)
OneIncarnation ==
  \A t \in Torrents : ~raced[t] =>
    /\ token[t] = (IF state[t] = "live" THEN {live[t]} ELSE {})
    /\ files[t]

(* A torrent the user paused while it was live stays stopped, and is not   *)
(* taken up by the queue, until the user unpauses it; ticks, checks,       *)
(* rechecks and late errors in between notwithstanding (Session::pause,    *)
(* "This should change only on unpause", torrent_state/mod.rs:101-104).    *)
FirmPauseHolds ==
  \A t \in Torrents : firm[t] => state[t] # "live" /\ ~held[t]

(* "The torrent might not be in "paused" state technically, but the        *)
(* intention might be for it to stay paused" (torrent_state/mod.rs:        *)
(* 101-103): a torrent that is_paused reports as paused by the user does   *)
(* not run.                                                                *)
PausedStaysStopped ==
  \A t \in Torrents : IsPaused(t) => state[t] # "live"

Live == {t \in Torrents : state[t] = "live"}
Held == {t \in Torrents : state[t] = "paused" /\ held[t]}
Of(S, t) == {u \in S : u \in Seeding <=> t \in Seeding}
ClassLimit(t) == IF t \in Seeding THEN limits.max_uploads ELSE limits.max_downloads
Settled ==
  IF limits = None THEN Held = {}
  ELSE /\ \A t \in Live : /\ Under(Cardinality(Live) - 1, limits.max_active)
                          /\ Under(Cardinality(Of(Live, t)) - 1, ClassLimit(t))
       /\ \A t \in Held : \/ ~Under(Cardinality(Live), limits.max_active)
                          \/ ~Under(Cardinality(Of(Live, t)), ClassLimit(t))

(* "Torrents over the limits are held in queue order and started when a    *)
(* slot frees up" (torrent_queue.rs:3-4): once the users are done, the     *)
(* live torrents are within the limits and whatever is held has no room,   *)
(* although starts, pauses, errors and checks fell into the ticks.         *)
QueueSettles == <>[]Settled

(* A check that nobody asked to pause ends, and the torrent leaves the     *)
(* initializing state (ManagedTorrent::start, the check task).             *)
ChecksEnd ==
  <>[](\A t \in Torrents :
         state[t] = "initializing" => inits[t][init[t]].pause_requested)
=============================================================================
