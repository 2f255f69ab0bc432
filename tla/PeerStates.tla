----------------------------- MODULE PeerStates -----------------------------
(***************************************************************************)
(* The peer table of one live torrent (PeerStates, a DashMap from address  *)
(* to Peer) and the tasks that work on it: the peer adder, one connection  *)
(* task per accepted or dialled connection, the tasks that sleep out a     *)
(* backoff, and the sweeps that disconnect or reconnect peers when the     *)
(* torrent finishes or needs data again.                                   *)
(*                                                                         *)
(* The table is keyed by address, so a task that is late acts on whatever  *)
(* state the address has by then.  An entry is locked only for the length  *)
(* of one table operation; each such operation is one action.              *)
(***************************************************************************)
EXTENDS Integers, Sequences, FiniteSets

CONSTANTS
  Addrs,       \* peer addresses
  BlockLists,  \* the sets of addresses the adder may have to skip
  Tasks,       \* slots for connection tasks
  None,        \* no address, no task
  PeerLimit,   \* permits of peer_semaphore
  Budgets      \* sets of environment events, see Events

Events == {"add", "incoming", "connect", "die", "ext", "exhaust",
           "finish", "reselect", "open_stream", "stop"}

ASSUME PeersAssumption ==
  /\ None \notin Addrs \cup Tasks
  /\ BlockLists \subseteq SUBSET Addrs
  /\ PeerLimit \in Nat \ {0}
  /\ Budgets \subseteq [Events -> Nat]

VARIABLES
  state,            \* state[a]: the name of a's PeerState, "none" if not in the table
  owner,            \* owner[a]: the task whose channel the Connecting/Live state holds
  full,             \* full[a]: the bitfield of the live peer a covers the torrent
  seeder,           \* seeder[a]: the cached flag
  outgoing_address, \* Peer::outgoing_address, None if unknown
  connected_out,    \* connected_out[a]: outgoing_connections > 0
  live_outgoing,    \* live_outgoing_peers, what PEX announces
  stats,            \* the aggregate counters; the session's are changed with them
  task,             \* the connection tasks
  permits,          \* free permits of peer_semaphore
  peer_queue,       \* the channel the adder reads
  adder,            \* the address the adder waits for a permit with, or None
  waiters,          \* waiters[a]: tasks sleeping out a backoff for a
  finished,         \* is_finished_and_no_active_streams
  sweeps,           \* addresses the disconnect and reconnect sweeps still visit
  stream_opening,   \* a stream is open but not yet registered
  disable_upload,   \* the torrent's option
  blocked,          \* ipv6 and port 0 addresses, the blocklist, outside the allowlist
  bugs,             \* the "bug" errors the code has reported
  usurped,          \* history: addresses whose connection lost its entry to another actor
  budget            \* how often each environment event may still happen

entryVars == <<state, owner, full, seeder, outgoing_address, connected_out,
               live_outgoing, stats>>
envVars == <<finished, sweeps, stream_opening, disable_upload, blocked, budget>>
queueVars == <<peer_queue, adder, waiters>>
taskVars == <<task, permits, bugs, usurped>>
peersVars == <<entryVars, envVars, queueVars, taskVars>>

States == {"queued", "connecting", "live", "dead", "not_needed"}
Counters == States \cup {"live_seeders"}

NoTask == [pc |-> "idle", addr |-> None, incoming |-> FALSE, fresh |-> TRUE,
           error |-> FALSE, told |-> FALSE]

Spend(e) == budget[e] > 0 /\ budget' = [budget EXCEPT ![e] = @ - 1]

-----------------------------------------------------------------------------
(* AggregatePeerStatsAtomic::inc and dec: what one peer adds to a counter. *)
Counts(c, s, seed) == IF c = s \/ (c = "live_seeders" /\ s = "live" /\ seed) THEN 1 ELSE 0

(* Peer::set_state, and drop_peer, destroy and the insertions for "none":  *)
(* the counters, the set PEX announces and the state itself.               *)
Moved(a, new) ==
  [c \in Counters |-> stats[c] - Counts(c, state[a], seeder[a]) + Counts(c, new, FALSE)]

(* set_state: the old state's address leaves the PEX set, a live one that  *)
(* was ever dialled enters it.                                             *)
PexAfter_Keep(a, new) ==
  live_outgoing \cup (IF new = "live" /\ connected_out[a] THEN {outgoing_address[a]} ELSE {})

PexAfter(a, new) ==
  (live_outgoing \ (IF state[a] = "live" THEN {outgoing_address[a]} ELSE {}))
    \cup (IF new = "live" /\ connected_out[a] THEN {outgoing_address[a]} ELSE {})

SetState(a, new, who) ==
  /\ state' = [state EXCEPT ![a] = new]
  /\ owner' = [owner EXCEPT ![a] = who]
  /\ full' = [full EXCEPT ![a] = FALSE]
  /\ seeder' = [seeder EXCEPT ![a] = FALSE]
  /\ stats' = Moved(a, new)
  /\ live_outgoing' = PexAfter(a, new) \ {None}
  /\ UNCHANGED <<outgoing_address, connected_out>>

(* Actor t (or None) takes the entry of a away from the connection it has. *)
Usurps(t, a) == usurped' = IF state[a] \in {"connecting", "live"} /\ owner[a] # t
                           THEN usurped \cup {a} ELSE usurped

(* A vacant entry is filled.                                               *)
Insert(a, new, who, out) ==
  /\ state' = [state EXCEPT ![a] = new]
  /\ owner' = [owner EXCEPT ![a] = who]
  /\ stats' = Moved(a, new)
  /\ outgoing_address' = [outgoing_address EXCEPT ![a] = out]
  /\ UNCHANGED <<full, seeder, connected_out, live_outgoing>>

(* drop_peer.  The handlers of the entry keep counters nobody reads.       *)
Remove_Uncounted(a) ==
  /\ state' = [state EXCEPT ![a] = "none"]
  /\ owner' = [owner EXCEPT ![a] = None]
  /\ full' = [full EXCEPT ![a] = FALSE]
  /\ seeder' = [seeder EXCEPT ![a] = FALSE]
  /\ outgoing_address' = [outgoing_address EXCEPT ![a] = None]
  /\ connected_out' = [connected_out EXCEPT ![a] = FALSE]
  /\ UNCHANGED <<live_outgoing, stats>>

Remove(a) ==
  /\ state' = [state EXCEPT ![a] = "none"]
  /\ owner' = [owner EXCEPT ![a] = None]
  /\ full' = [full EXCEPT ![a] = FALSE]
  /\ seeder' = [seeder EXCEPT ![a] = FALSE]
  /\ outgoing_address' = [outgoing_address EXCEPT ![a] = None]
  /\ connected_out' = [connected_out EXCEPT ![a] = FALSE]
  /\ stats' = Moved(a, "none")
  /\ UNCHANGED live_outgoing

-----------------------------------------------------------------------------
PeersInit ==
  /\ state = [a \in Addrs |-> "none"]
  /\ owner = [a \in Addrs |-> None]
  /\ full = [a \in Addrs |-> FALSE]
  /\ seeder = [a \in Addrs |-> FALSE]
  /\ outgoing_address = [a \in Addrs |-> None]
  /\ connected_out = [a \in Addrs |-> FALSE]
  /\ live_outgoing = {}
  /\ stats = [c \in Counters |-> 0]
  /\ task = [t \in Tasks |-> NoTask]
  /\ permits = PeerLimit
  /\ peer_queue = <<>>
  /\ adder = None
  /\ waiters = [a \in Addrs |-> 0]
  /\ finished = FALSE
  /\ sweeps = [disconnect |-> {}, reconnect |-> {}]
  /\ stream_opening = FALSE
  /\ disable_upload \in BOOLEAN
  /\ blocked \in BlockLists
  /\ bugs = {}
  /\ usurped = {}
  /\ budget \in Budgets

-----------------------------------------------------------------------------
(* add_peer_if_not_seen: trackers, DHT, PEX and the API report an address. *)
AddPeer(a) ==
  /\ Spend("add")
  /\ state[a] = "none"
  /\ Insert(a, "queued", None, a)
  /\ peer_queue' = Append(peer_queue, a)
  /\ UNCHANGED <<taskVars, adder, waiters, finished, sweeps, stream_opening, disable_upload,
                 blocked>>

(* task_peer_adder, until it has an address it wants to dial.              *)
AdderSkips ==
  /\ ~(disable_upload /\ finished)
  /\ Head(peer_queue) \in blocked
  /\ UNCHANGED <<entryVars, adder, usurped>>

AdderNotNeeded ==
  /\ disable_upload /\ finished
  /\ IF state[Head(peer_queue)] = "none" THEN UNCHANGED entryVars
     ELSE SetState(Head(peer_queue), "not_needed", None)
  /\ Usurps(None, Head(peer_queue))
  /\ UNCHANGED adder

AdderWants ==
  /\ ~(disable_upload /\ finished)
  /\ Head(peer_queue) \notin blocked
  /\ adder' = Head(peer_queue)
  /\ UNCHANGED <<entryVars, usurped>>

AdderReceives ==
  /\ adder = None
  /\ peer_queue # <<>>
  /\ AdderNotNeeded \/ AdderSkips \/ AdderWants
  /\ peer_queue' = Tail(peer_queue)
  /\ UNCHANGED <<task, permits, bugs, waiters, envVars>>

(* A permit is taken with the task's slot.                                 *)
Start(t, a, incoming, pc) ==
  /\ task[t].pc = "idle"
  /\ task' = [task EXCEPT ![t] = [NoTask EXCEPT !.pc = pc, !.addr = a, !.incoming = incoming]]

AdderSpawns_NoPermit(t) ==
  /\ adder # None
  /\ Start(t, adder, FALSE, "spawned")
  /\ permits' = permits - 1
  /\ adder' = None
  /\ UNCHANGED <<entryVars, envVars, peer_queue, waiters, bugs, usurped>>

AdderSpawns(t) ==
  /\ adder # None
  /\ permits > 0
  /\ Start(t, adder, FALSE, "spawned")
  /\ permits' = permits - 1
  /\ adder' = None
  /\ UNCHANGED <<entryVars, envVars, peer_queue, waiters, bugs, usurped>>

-----------------------------------------------------------------------------
(* The task is over and its permit is dropped.                             *)
Ends(t) ==
  /\ task' = [task EXCEPT ![t] = NoTask]
  /\ permits' = permits + 1

Goto(t, pc) == task' = [task EXCEPT ![t].pc = pc] /\ UNCHANGED permits

(* mark_peer_connecting, the first thing task_manage_outgoing_peer does;   *)
(* on an error the task returns at once.                                   *)
MarkConnecting(t) ==
  LET a == task[t].addr IN
  /\ task[t].pc = "spawned"
  /\ \/ /\ state[a] \in {"queued", "not_needed"}
        /\ SetState(a, "connecting", t)
        /\ Goto(t, "connecting")
        /\ UNCHANGED bugs
     \/ /\ state[a] = "none"
        /\ bugs' = bugs \cup {"peer_not_found"}
        /\ Ends(t)
        /\ UNCHANGED entryVars
     \/ /\ state[a] \in {"connecting", "live", "dead"}
        /\ bugs' = bugs \cup {"invalid_peer_state"}
        /\ Ends(t)
        /\ UNCHANGED entryVars
  /\ UNCHANGED <<envVars, queueVars, usurped>>

(* on_connected *)
OnConnected(t) ==
  LET a == task[t].addr IN
  /\ task[t].pc = "connecting"
  /\ Spend("connect")
  /\ Goto(t, "handshake")
  /\ connected_out' = IF task[t].fresh THEN [connected_out EXCEPT ![a] = TRUE] ELSE connected_out
  /\ UNCHANGED <<state, owner, full, seeder, outgoing_address, live_outgoing, stats, bugs, usurped,
                 queueVars, finished, sweeps, stream_opening, disable_upload, blocked>>

(* on_handshake -> set_peer_live -> connecting_to_live                     *)
OnHandshake(t) ==
  LET a == task[t].addr IN
  /\ task[t].pc = "handshake"
  /\ IF state[a] = "connecting" THEN SetState(a, "live", owner[a]) ELSE UNCHANGED entryVars
  /\ Goto(t, "live")
  /\ UNCHANGED <<bugs, usurped, envVars, queueVars>>

(* add_incoming_peer; without a permit, and for a peer that is already     *)
(* active, the connection is refused and nothing changes.                  *)
MayAccept_Active(a) == permits > 0

MayAccept(a) == permits > 0 /\ state[a] \notin {"connecting", "live"}

AddIncomingPeer(t, a) ==
  /\ Spend("incoming")
  /\ MayAccept(a)
  /\ IF state[a] = "none" THEN Insert(a, "live", t, None) ELSE SetState(a, "live", t)
  /\ Start(t, a, TRUE, "handshake")
  /\ permits' = permits - 1
  /\ UNCHANGED <<bugs, usurped, queueVars, finished, sweeps, stream_opening, disable_upload,
                 blocked>>

(* on_bitfield and on_have: update_seeder_flag.                            *)
OnBitfield(t, f) ==
  LET a == task[t].addr IN
  /\ task[t].pc = "live"
  /\ state[a] = "live"
  /\ full' = [full EXCEPT ![a] = f]
  /\ seeder' = [seeder EXCEPT ![a] = f]
  /\ stats' = [stats EXCEPT !["live_seeders"] =
                 @ - Counts("live_seeders", "live", seeder[a])
                   + Counts("live_seeders", "live", f)]
  /\ UNCHANGED <<state, owner, outgoing_address, connected_out, live_outgoing,
                 taskVars, envVars, queueVars>>

(* on_extended_handshake of an incoming peer names the port it listens on. *)
OnExtendedHandshake(t, out) ==
  LET a == task[t].addr IN
  /\ task[t].pc = "live" /\ task[t].incoming
  /\ state[a] # "none"
  /\ Spend("ext")
  /\ outgoing_address' = [outgoing_address EXCEPT ![a] = out]
  /\ UNCHANGED <<state, owner, full, seeder, connected_out, live_outgoing, stats,
                 taskVars, queueVars, finished, sweeps, stream_opening, disable_upload, blocked>>

-----------------------------------------------------------------------------
(* The select! of a connection task is over, with or without an error.     *)
Dies(t, error) == /\ task' = [task EXCEPT ![t].pc = "dying", ![t].error = error]
                  /\ UNCHANGED permits

(* Dialling fails or times out.                                            *)
ConnectFails(t) ==
  /\ task[t].pc = "connecting"
  /\ Dies(t, TRUE)
  /\ UNCHANGED <<entryVars, envVars, queueVars, bugs, usurped>>

(* The handshake or the established connection breaks.                     *)
ConnectionBreaks(t) ==
  /\ task[t].pc \in {"handshake", "live"}
  /\ Spend("die")
  /\ Dies(t, TRUE)
  /\ UNCHANGED <<entryVars, queueVars, bugs, usurped, finished, sweeps, stream_opening,
                 disable_upload, blocked>>

(* The writer reads the Disconnect the sweep sent.                         *)
ReadsDisconnect(t) ==
  /\ task[t].pc = "live" /\ task[t].told
  /\ Dies(t, TRUE)
  /\ UNCHANGED <<entryVars, envVars, queueVars, bugs, usurped>>

(* task_peer_chunk_requester: finished, and the peer wants nothing.  The   *)
(* requester or the writer that reads its Disconnect ends the select!.     *)
RequesterDisconnects(t) ==
  LET a == task[t].addr IN
  /\ task[t].pc = "live"
  /\ finished
  /\ state[a] = "live" /\ full[a]
  /\ \E error \in BOOLEAN : Dies(t, error)
  /\ UNCHANGED <<entryVars, envVars, queueVars, bugs, usurped>>

(* on_peer_died, up to where it lets go of the table entry.  backoff.next  *)
(* is None once the peer has failed for too long ("exhaust").              *)
Died(t, a) ==
  /\ state[a] \in {"connecting", "live"}
  /\ UNCHANGED bugs
  /\ IF ~task[t].error \/ finished
     THEN SetState(a, "not_needed", None) /\ Ends(t) /\ UNCHANGED <<waiters, budget>>
     ELSE /\ SetState(a, "dead", None)
          /\ \/ task[t].incoming /\ Ends(t) /\ UNCHANGED <<waiters, budget>>
             \/ /\ ~task[t].incoming
                /\ waiters' = [waiters EXCEPT ![a] = @ + 1]
                /\ Ends(t)
                /\ UNCHANGED budget
             \/ /\ ~task[t].incoming
                /\ Spend("exhaust")
                /\ Goto(t, "dropping")
                /\ UNCHANGED waiters

DiedNotNeeded(t, a) ==
  /\ state[a] = "not_needed"
  /\ Ends(t)
  /\ UNCHANGED <<entryVars, bugs, waiters, budget>>

DiedInWrongState(t, a) ==
  /\ state[a] \in {"queued", "dead"}
  /\ SetState(a, "queued", None)
  /\ bugs' = bugs \cup {"wrong_state"}
  /\ Goto(t, "dropping")
  /\ UNCHANGED <<waiters, budget>>

DiedNotInTable(t, a) ==
  /\ state[a] = "none"
  /\ bugs' = bugs \cup {"not_in_table"}
  /\ Ends(t)
  /\ UNCHANGED <<entryVars, waiters, budget>>

OnPeerDied(t) ==
  LET a == task[t].addr IN
  /\ task[t].pc = "dying"
  /\ Died(t, a) \/ DiedNotNeeded(t, a) \/ DiedInWrongState(t, a) \/ DiedNotInTable(t, a)
  /\ Usurps(t, a)
  /\ UNCHANGED <<peer_queue, adder, finished, sweeps, stream_opening, disable_upload, blocked>>

(* drop_peer, after the entry was let go of.                               *)
DropPeer(t) ==
  LET a == task[t].addr IN
  /\ task[t].pc = "dropping"
  /\ IF state[a] = "none" THEN UNCHANGED entryVars ELSE Remove(a)
  /\ task' = [u \in Tasks |->
                IF u = t THEN NoTask
                ELSE IF task[u].addr = a THEN [task[u] EXCEPT !.fresh = FALSE] ELSE task[u]]
  /\ permits' = permits + 1
  /\ Usurps(t, a)
  /\ UNCHANGED <<bugs, envVars, queueVars>>

(* wait_for_peer: the backoff is over.                                     *)
WaitOver_NoSend(a) ==
  /\ waiters[a] > 0
  /\ waiters' = [waiters EXCEPT ![a] = @ - 1]
  /\ IF state[a] = "dead" THEN SetState(a, "queued", None) ELSE UNCHANGED entryVars
  /\ UNCHANGED <<peer_queue, taskVars, adder, envVars>>

WaitOver(a) ==
  /\ waiters[a] > 0
  /\ waiters' = [waiters EXCEPT ![a] = @ - 1]
  /\ IF state[a] = "dead"
     THEN SetState(a, "queued", None) /\ peer_queue' = Append(peer_queue, a)
     ELSE UNCHANGED <<entryVars, peer_queue>>
  /\ UNCHANGED <<taskVars, adder, envVars>>

-----------------------------------------------------------------------------
(* on_piece_completed of the last needed piece.                            *)
Finish ==
  /\ ~finished
  /\ Spend("finish")
  /\ finished' = TRUE
  /\ sweeps' = [sweeps EXCEPT !.disconnect = Addrs]
  /\ UNCHANGED <<entryVars, taskVars, queueVars, stream_opening, disable_upload, blocked>>

(* disconnect_all_peers_that_have_full_torrent visits an entry.            *)
DisconnectFullPeer(a) ==
  /\ a \in sweeps.disconnect
  /\ sweeps' = [sweeps EXCEPT !.disconnect = @ \ {a}]
  /\ IF state[a] = "live" /\ full[a]
     THEN /\ SetState(a, "not_needed", None)
          /\ task' = [task EXCEPT ![owner[a]].told = TRUE]
     ELSE UNCHANGED <<entryVars, task>>
  /\ UNCHANGED <<queueVars, permits, bugs, usurped, finished, stream_opening, disable_upload,
                 blocked,
                 budget>>

(* update_only_files selects something that is missing ...                 *)
Reselect ==
  /\ finished
  /\ Spend("reselect")
  /\ finished' = FALSE
  /\ sweeps' = [sweeps EXCEPT !.reconnect = Addrs]
  /\ UNCHANGED <<entryVars, taskVars, queueVars, stream_opening, disable_upload, blocked>>

(* ... or ManagedTorrent::stream opens an unfinished file: it reconnects   *)
(* the peers first and registers the stream afterwards.                    *)
OpenStream ==
  /\ finished
  /\ Spend("open_stream")
  /\ stream_opening' = TRUE
  /\ sweeps' = [sweeps EXCEPT !.reconnect = Addrs]
  /\ UNCHANGED <<entryVars, taskVars, queueVars, finished, disable_upload, blocked>>

RegisterStream ==
  /\ stream_opening
  /\ sweeps.reconnect = {}
  /\ stream_opening' = FALSE
  /\ finished' = FALSE
  /\ UNCHANGED <<entryVars, taskVars, queueVars, sweeps, disable_upload, blocked, budget>>

(* reconnect_all_not_needed_peers -> reconnect_not_needed_peer             *)
ReconnectPeer(a) ==
  /\ a \in sweeps.reconnect
  /\ sweeps' = [sweeps EXCEPT !.reconnect = @ \ {a}]
  /\ LET out == outgoing_address[a] IN
     IF state[a] = "not_needed" /\ out # None
     THEN /\ peer_queue' = Append(peer_queue, out)
          /\ IF out = a THEN SetState(a, "queued", None) ELSE UNCHANGED entryVars
     ELSE UNCHANGED <<peer_queue, entryVars>>
  /\ UNCHANGED <<taskVars, adder, waiters, finished, stream_opening, disable_upload, blocked,
                 budget>>

(* The torrent is paused: its tasks are cancelled and PeerStates::drop     *)
(* destroys the table.                                                     *)
Stop ==
  /\ Spend("stop")
  /\ state' = [a \in Addrs |-> "none"]
  /\ owner' = [a \in Addrs |-> None]
  /\ full' = [a \in Addrs |-> FALSE]
  /\ seeder' = [a \in Addrs |-> FALSE]
  /\ outgoing_address' = [a \in Addrs |-> None]
  /\ connected_out' = [a \in Addrs |-> FALSE]
  /\ live_outgoing' = live_outgoing \
       {outgoing_address[a] : a \in {b \in Addrs : state[b] = "live"}}
  /\ stats' = [c \in Counters |-> stats[c] -
                 Cardinality({a \in Addrs : Counts(c, state[a], seeder[a]) = 1})]
  /\ task' = [t \in Tasks |-> NoTask]
  /\ permits' = PeerLimit
  /\ peer_queue' = <<>>
  /\ adder' = None
  /\ waiters' = [a \in Addrs |-> 0]
  /\ sweeps' = [disconnect |-> {}, reconnect |-> {}]
  /\ stream_opening' = FALSE
  /\ usurped' = {}
  /\ UNCHANGED <<finished, disable_upload, blocked, bugs>>

-----------------------------------------------------------------------------
AdderStep == AdderReceives \/ \E t \in Tasks : AdderSpawns(t)

ConnectionStep(t) ==
  \/ MarkConnecting(t)
  \/ OnConnected(t)
  \/ OnHandshake(t)
  \/ ConnectFails(t)
  \/ ConnectionBreaks(t)
  \/ ReadsDisconnect(t)
  \/ RequesterDisconnects(t)
  \/ OnPeerDied(t)
  \/ DropPeer(t)

SweepStep(a) == DisconnectFullPeer(a) \/ ReconnectPeer(a)

PeersEnvironment ==
  \/ \E a \in Addrs : AddPeer(a)
  \/ \E t \in Tasks, a \in Addrs : AddIncomingPeer(t, a)
  \/ \E t \in Tasks, f \in BOOLEAN : OnBitfield(t, f)
  \/ \E t \in Tasks, a \in Addrs : OnExtendedHandshake(t, a)
  \/ Finish \/ Reselect \/ OpenStream \/ Stop

PeersNext ==
  \/ AdderStep
  \/ \E t \in Tasks : ConnectionStep(t)
  \/ \E a \in Addrs : WaitOver(a) \/ SweepStep(a)
  \/ RegisterStream
  \/ PeersEnvironment

PeersSpec == PeersInit /\ [][PeersNext]_peersVars

-----------------------------------------------------------------------------
(* The types of the table, the counters and the tasks.                     *)
PeersTypeOK ==
  /\ state \in [Addrs -> States \cup {"none"}]
  /\ owner \in [Addrs -> Tasks \cup {None}]
  /\ full \in [Addrs -> BOOLEAN] /\ seeder \in [Addrs -> BOOLEAN]
  /\ outgoing_address \in [Addrs -> Addrs \cup {None}]
  /\ connected_out \in [Addrs -> BOOLEAN]
  /\ live_outgoing \subseteq Addrs
  /\ stats \in [Counters -> 0 .. Cardinality(Addrs)]
  /\ permits \in 0 .. PeerLimit
  /\ adder \in Addrs \cup {None}
  /\ \A t \in Tasks : task[t].pc \in {"idle", "spawned", "connecting", "handshake",
                                      "live", "dying", "dropping"}

(* The aggregate counters are those of the table, the seeders by their     *)
(* bitfields: every transition, drop and flag change is counted exactly    *)
(* once, whichever of the overlapping tasks makes it ("keeping the         *)
(* aggregate seeder counters in sync", update_seeder_flag).                *)
StatsMatchTable ==
  \A c \in Counters :
    stats[c] = Cardinality({a \in Addrs : Counts(c, state[a], full[a]) = 1})

(* A connecting or live entry belongs to exactly one running connection,   *)
(* and a running connection has the entry of its address unless it was     *)
(* told to disconnect or the entry was taken from it by one of the steps   *)
(* Usurps marks: no other order of incoming connections, retries, sweeps   *)
(* and deaths leaves two connections to one peer, or a connection that     *)
(* works on without an entry (incoming_connection, on_peer_died).          *)
Running(t) == task[t].pc \in {"connecting", "handshake", "live"}

ConnectionHasEntry ==
  \A a \in Addrs \ usurped :
    /\ state[a] \in {"connecting", "live"} =>
         /\ owner[a] # None
         /\ task[owner[a]].addr = a
         /\ task[owner[a]].pc \notin {"idle", "spawned", "dropping"}
    /\ \A t \in Tasks : task[t].addr = a /\ Running(t) /\ ~task[t].told => owner[a] = t

(* "Will be tried to be connected as soon as possible": a queued peer that *)
(* the adder does not skip is in the adder's channel, in its hands, or a   *)
(* task is about to dial it; no order of retries, sweeps and incoming      *)
(* connections strands it.                                                 *)
QueuedIsTried ==
  \A a \in Addrs \ blocked : state[a] = "queued" =>
    \/ \E i \in DOMAIN peer_queue : peer_queue[i] = a
    \/ adder = a
    \/ \E t \in Tasks : task[t].addr = a /\ task[t].pc \in {"spawned", "dropping"}

(* live_outgoing_peers "keeps track of live addresses we connected to, for *)
(* PEX": PEX announces no peer that is gone and omits none that is live,   *)
(* unless another entry claims the same outgoing address.                  *)
PexExact ==
  \A a \in Addrs \ usurped : (\A b \in Addrs \ {a} : outgoing_address[b] # a) =>
    (a \in live_outgoing <=> state[a] = "live" /\ connected_out[a] /\ outgoing_address[a] = a)

(* on_peer_died never finds its peer queued or dead: the code calls that   *)
(* "bug: peer was in a wrong state" and forgets the peer.                  *)
DiesInItsOwnState == "wrong_state" \notin bugs

(* An address the adder dials is in the table (Error::BugPeerNotFound).    *)
DialledIsKnown == "peer_not_found" \notin bugs
=============================================================================
