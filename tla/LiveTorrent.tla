----------------------------- MODULE LiveTorrent -----------------------------
(***************************************************************************)
(* The download path of a live torrent (torrent_state/live/mod.rs): peer   *)
(* tasks that acquire pieces, request and receive chunks, write them to    *)
(* disk and verify completed pieces, against stealing, dying peers, I/O    *)
(* errors with soft recovery, a full disk, file selection, streams, pause  *)
(* and resume.  Code between two lock acquisitions is one action, so a     *)
(* received chunk (write_to_disk) takes up to six actions and anything     *)
(* may happen in between.                                                  *)
(*                                                                         *)
(* Budgets are the scenarios of the environment: a behaviour draws one,    *)
(* and its entry for event e bounds how often e may happen.                *)
(* One address has at most one peer task here; two overlapping tasks of    *)
(* one address are the subject of module PeerStates.                       *)
(***************************************************************************)
EXTENDS PieceTracker, FiniteSets

CONSTANTS
  PeerHas,       \* PeerHas[a]: the bitfield of peer a
  SoftRecover,   \* values preference soft_recover_on_io_error may have when read
  MaxAttempts,   \* BackoffConfig::max_attempts
  Budgets,       \* scenarios: how often each event may happen
  FileBytes(_,_) \* FileBytes(f, S): the bytes of f in the pieces of S

Events == {"die", "bad_data", "write_error", "read_error", "disk_full", "steal",
           "select", "open_stream", "manual_reset", "pause"}

(* Who requeues held-back pieces: the recovery scheduler task after a      *)
(* backoff or a full disk, and "Fix errors" on a live or a paused torrent. *)
Requeuers == {"due", "disk", "manual_live", "manual_paused"}

ASSUME LiveAssumption ==
  /\ Chunks \subseteq Int
  /\ Files \subseteq Int
  /\ PeerHas \in [Peers -> SUBSET Pieces]
  /\ SoftRecover \subseteq BOOLEAN
  /\ MaxAttempts \in Nat \ {0}
  /\ Budgets \subseteq [Events -> Nat]
  /\ \A f \in Files, S \in SUBSET Pieces : FileBytes(f, S) \in Nat

VARIABLES
  mode,           \* "live", "paused", "failing" after a fatal error, then "error"
  conn,           \* conn[a]: "live", "not_needed", or "idle": queued, dead,
                  \* connecting, or forgotten until it is discovered again
  task,           \* task[a]: the task of a's connection is running
  rq,             \* rq[a]: what a's chunk requester is doing
  reqs,           \* reqs[a]: LivePeerState::inflight_requests
  job,            \* job[a]: where a's write_to_disk is
  seasoned,       \* peers with an average_piece_download_time
  disk,           \* disk[p]: the chunks of p whose bytes on disk are right
  damage,         \* DamageTracker: attempts, pending, gave_up, disk_held
  sched,          \* sched[r]: pieces recovery actor r took out of the
                  \* DamageTracker and has not requeued yet
  streams,        \* streamed_file_ids
  per_file_bytes, \* ChunkTracker::per_file_bytes
  budget

liveVars == <<mode, conn, task, rq, reqs, job, seasoned, disk, damage, sched,
              streams, per_file_bytes, budget>>
vars == <<ptVars, liveVars>>

Running == mode \in {"live", "failing"}
Spend(e) == budget[e] > 0 /\ budget' = [budget EXCEPT ![e] = @ - 1]
Idle == [pc |-> "idle"]
Acquiring == [pc |-> "acquire"]

(* The per-piece lock is held (shared) from the ownership check until the  *)
(* chunk is marked or the error path is done; stealing needs it exclusive. *)
LockHeld(p) == \E a \in Peers : /\ job[a].pc \in {"write", "mark", "hold", "defer"}
                                /\ job[a].piece = p
                                /\ job[a].locked

HeldBack == damage.pending \cup damage.gave_up \cup damage.disk_held

StreamPieces == UNION {FilePieces[f] : f \in streams}

(* has_active_streams_unfinished_files *)
ActiveStreams == \E f \in streams : ~(FilePieces[f] \subseteq have)

LiveInit ==
  /\ TrackerInit
  /\ have = {}
  /\ mode = "live"
  /\ conn = [a \in Peers |-> "live"]
  /\ task = [a \in Peers |-> TRUE]
  /\ rq = [a \in Peers |-> Acquiring]
  /\ reqs = [a \in Peers |-> {}]
  /\ job = [a \in Peers |-> Idle]
  /\ seasoned = {}
  /\ disk = [p \in Pieces |-> {}]
  /\ damage = [attempts |-> [p \in Pieces |-> 0], pending |-> {}, gave_up |-> {},
               disk_held |-> {}]
  /\ sched = [r \in Requeuers |-> {}]
  /\ streams = {}
  /\ per_file_bytes = [f \in Files |-> 0]
  /\ budget \in Budgets

-----------------------------------------------------------------------------
(* task_peer_chunk_requester and acquire_next_piece.                       *)

(* The requester and the connection share one task (select!), so the       *)
(* requester stands still while the task is inside write_to_disk.          *)
RequesterRuns(a) == Running /\ task[a] /\ job[a].pc \in {"idle", "check"}

(* The requester asks for pieces only while something is needed and the    *)
(* disk is not full.                                                       *)
CanAcquire(a) ==
  /\ RequesterRuns(a)
  /\ conn[a] = "live"
  /\ rq[a] = Acquiring
  /\ ~(Finished /\ ~ActiveStreams)
  /\ damage.disk_held = {}

StartRequesting(a, p) == rq' = [rq EXCEPT ![a] = [pc |-> "request", piece |-> p, left |-> Chunks]]

AcquireUnchanged == UNCHANGED <<mode, conn, task, reqs, job, seasoned, disk, damage, sched,
                                streams, per_file_bytes>>

(* The priority pieces of the streams this peer could take now.            *)
PriorityFor(a) == {p \in (StreamPieces \cap PeerHas[a]) \ have : ~IsInflight(p)}

AcquirePriority(a) ==
  /\ CanAcquire(a)
  /\ \E p \in PriorityFor(a) : ReservePriority(a, p, StreamPieces) /\ StartRequesting(a, p)
  /\ AcquireUnchanged /\ UNCHANGED budget

AcquireQueued(a) ==
  /\ CanAcquire(a)
  /\ PriorityFor(a) = {}
  /\ \E p \in queue \cap PeerHas[a] : ReserveQueued(a, p) /\ StartRequesting(a, p)
  /\ AcquireUnchanged /\ UNCHANGED budget

(* can_steal: try_write on the per-piece lock *)
CanSteal_IgnoreLock(p) == IsInflight(p)
CanSteal(p) == ~LockHeld(p)

AcquireSteal(a) ==
  /\ CanAcquire(a)
  /\ Spend("steal")
  /\ a \in seasoned
  /\ \E p \in PeerHas[a] :
       /\ CanSteal(p)
       /\ Steal(a, p)
       /\ rq' = [rq EXCEPT ![a] = [pc |-> "cancel", piece |-> p, from |-> inflight[p]]]
  /\ AcquireUnchanged

(* on_steal, after both locks are released: cancel the old owner's requests. *)
OnSteal(a) ==
  /\ rq[a].pc = "cancel"
  /\ reqs' = [reqs EXCEPT ![rq[a].from] = {r \in @ : r[1] # rq[a].piece}]
  /\ StartRequesting(a, rq[a].piece)
  /\ UNCHANGED <<ptVars, mode, conn, task, job, seasoned, disk, damage, sched, streams,
                 per_file_bytes, budget>>

(* The requester goes through the chunks in order and does not look again  *)
(* at who owns the piece.                                                  *)
RequestChunk(a) ==
  /\ RequesterRuns(a)
  /\ conn[a] = "live"
  /\ rq[a].pc = "request"
  /\ LET c == CHOOSE c \in rq[a].left : \A d \in rq[a].left : c <= d
         left == rq[a].left \ {c}
     IN  /\ reqs' = [reqs EXCEPT ![a] = @ \cup {<<rq[a].piece, c>>}]
         /\ rq' = [rq EXCEPT ![a] = IF left = {} THEN Acquiring ELSE [@ EXCEPT !.left = left]]
  /\ UNCHANGED <<ptVars, mode, conn, task, job, seasoned, disk, damage, sched, streams,
                 per_file_bytes, budget>>

-----------------------------------------------------------------------------
(* on_received_piece and write_to_disk, one action per lock section.       *)

JobTo(a, pc) == job' = [job EXCEPT ![a].pc = pc]
JobDone(a) == job' = [job EXCEPT ![a] = Idle]
At(a, pc) == Running /\ job[a].pc = pc /\ rq[a].pc # "cancel"

(* A chunk we asked for arrives, with the right bytes or not.              *)
ReceivePiece(a, ok) ==
  /\ At(a, "idle")
  /\ conn[a] = "live" /\ task[a]
  /\ \E r \in reqs[a] :
       /\ reqs' = [reqs EXCEPT ![a] = @ \ {r}]
       /\ job' = [job EXCEPT ![a] = [pc |-> "check", piece |-> r[1], chunk |-> r[2],
                                     ok |-> ok, locked |-> FALSE]]
  /\ IF ok THEN UNCHANGED budget ELSE Spend("bad_data")
  /\ UNCHANGED <<ptVars, mode, conn, task, rq, seasoned, disk, damage, sched, streams,
                 per_file_bytes>>

JobUnchanged == UNCHANGED <<mode, conn, task, rq, reqs, streams>>

(* "If someone stole the piece by now, ignore it." *)
CheckSteal_NoOwner(a) ==
  /\ At(a, "check")
  /\ IF IsInflight(job[a].piece)
     THEN job' = [job EXCEPT ![a].pc = "write", ![a].locked = TRUE]
     ELSE JobDone(a)
  /\ JobUnchanged
  /\ UNCHANGED <<ptVars, seasoned, disk, damage, sched, per_file_bytes, budget>>

CheckSteal(a) ==
  /\ At(a, "check")
  /\ IF inflight[job[a].piece] = a
     THEN job' = [job EXCEPT ![a].pc = "write", ![a].locked = TRUE]
     ELSE JobDone(a)
  /\ JobUnchanged
  /\ UNCHANGED <<ptVars, seasoned, disk, damage, sched, per_file_bytes, budget>>

(* write_chunk succeeded *)
WriteChunk(a) ==
  /\ At(a, "write")
  /\ disk' = [disk EXCEPT ![job[a].piece] = IF job[a].ok THEN @ \cup {job[a].chunk}
                                            ELSE @ \ {job[a].chunk}]
  /\ JobTo(a, "mark")
  /\ JobUnchanged
  /\ UNCHANGED <<ptVars, seasoned, damage, sched, per_file_bytes, budget>>

(* on_fatal_error; spawn_fatal_errors_receiver stops the torrent later     *)
OnFatalError_Swallowed(a) ==
  /\ JobDone(a)
  /\ UNCHANGED <<ptVars, mode, conn, task, rq, reqs, streams, seasoned, disk, damage, sched,
                 per_file_bytes>>

OnFatalError(a) ==
  /\ mode' = "failing"
  /\ JobTo(a, "die")
  /\ UNCHANGED <<ptVars, conn, task, rq, reqs, streams, seasoned, disk, damage, sched,
                 per_file_bytes>>

(* The disk is full: hold_piece_disk_full up to piece_disk_full            *)
WriteDiskFull(a) ==
  /\ At(a, "write")
  /\ Spend("disk_full")
  /\ \/ /\ TRUE \in SoftRecover
        /\ damage' = [damage EXCEPT !.disk_held = @ \cup {job[a].piece}]
        /\ JobTo(a, "hold")
        /\ JobUnchanged
        /\ UNCHANGED <<ptVars, seasoned, disk, sched, per_file_bytes>>
     \/ FALSE \in SoftRecover /\ OnFatalError(a)

(* Backoff::record_failure *)
RecordFailure_NotPending(p) == damage' = [damage EXCEPT !.attempts[p] = @ + 1]

RecordFailure(p) ==
  LET n == damage.attempts[p] + 1
  IN  damage' = [damage EXCEPT !.attempts[p] = n,
                               !.pending = @ \cup {p},
                               !.gave_up = IF n >= MaxAttempts THEN @ \cup {p} ELSE @]

(* Another write error: soft_recover_piece up to piece_failed              *)
WriteError(a) ==
  /\ At(a, "write")
  /\ Spend("write_error")
  /\ \/ /\ TRUE \in SoftRecover
        /\ RecordFailure(job[a].piece)
        /\ JobTo(a, "defer")
        /\ JobUnchanged
        /\ UNCHANGED <<ptVars, seasoned, disk, sched, per_file_bytes>>
     \/ FALSE \in SoftRecover /\ OnFatalError(a)

(* The second lock section of hold_piece_disk_full (the peer is kept) and  *)
(* of soft_recover_piece (the peer is dropped).                            *)
FinishHold(a) ==
  /\ Running
  /\ job[a].pc \in {"hold", "defer"}
  /\ DeferPiece(job[a].piece)
  /\ IF job[a].pc = "hold" THEN JobDone(a) ELSE JobTo(a, "die")
  /\ JobUnchanged
  /\ UNCHANGED <<seasoned, disk, damage, sched, per_file_bytes, budget>>

(* mark_chunk_downloaded; a piece just completed goes on to the hash check *)
(* unless it had already left the in-flight map.                           *)
MarkChunk(a) ==
  LET p == job[a].piece
      c == job[a].chunk
  IN  /\ At(a, "mark")
      /\ MarkChunkDownloaded(p, c)
      /\ job' = [job EXCEPT ![a] = IF ChunkCompletes(p, c) /\ IsInflight(p)
                                   THEN [@ EXCEPT !.pc = "hash", !.locked = FALSE]
                                   ELSE Idle]
      /\ JobUnchanged
      /\ UNCHANGED <<seasoned, disk, damage, sched, per_file_bytes, budget>>

(* DamageTracker::piece_verified *)
PieceVerified(p) ==
  damage' = [damage EXCEPT !.attempts[p] = 0, !.pending = @ \ {p}, !.gave_up = @ \ {p}]

(* check_piece, holding no lock; a verified piece also resets its backoff  *)
CheckPiece(a) ==
  LET p == job[a].piece
  IN  /\ At(a, "hash")
      /\ IF disk[p] = Chunks THEN PieceVerified(p) /\ JobTo(a, "hash_ok")
         ELSE UNCHANGED damage /\ JobTo(a, "hash_bad")
      /\ JobUnchanged
      /\ UNCHANGED <<ptVars, seasoned, disk, sched, per_file_bytes, budget>>

(* check_piece could not read the piece back *)
CheckPieceReadError(a) ==
  /\ At(a, "hash")
  /\ Spend("read_error")
  /\ \/ TRUE \in SoftRecover /\ RecordFailure(job[a].piece) /\ JobTo(a, "defer")
     \/ FALSE \in SoftRecover /\ UNCHANGED damage /\ JobTo(a, "die")
  /\ JobUnchanged
  /\ UNCHANGED <<ptVars, seasoned, disk, sched, per_file_bytes>>

HashOk(a) ==
  /\ At(a, "hash_ok")
  /\ MarkPieceHashOk(job[a].piece)
  /\ seasoned' = seasoned \cup {a}
  /\ JobTo(a, "completed")
  /\ JobUnchanged
  /\ UNCHANGED <<disk, damage, sched, per_file_bytes, budget>>

HashFailed_Forget(a) ==
  /\ At(a, "hash_bad")
  /\ JobTo(a, "die")
  /\ JobUnchanged
  /\ UNCHANGED <<ptVars, seasoned, disk, damage, sched, per_file_bytes, budget>>

HashFailed(a) ==
  /\ At(a, "hash_bad")
  /\ MarkPieceHashFailed(job[a].piece)
  /\ JobTo(a, "die")
  /\ JobUnchanged
  /\ UNCHANGED <<seasoned, disk, damage, sched, per_file_bytes, budget>>

(* on_piece_completed, under the state lock: per-file byte counts, and     *)
(* whether everything is there.                                            *)
OnPieceCompleted_AllFiles(a) ==
  /\ At(a, "completed")
  /\ per_file_bytes' = [f \in Files |-> per_file_bytes[f] + FileBytes(f, FilePieces[f])]
  /\ IF Finished /\ ~ActiveStreams THEN JobTo(a, "disconnect") ELSE JobDone(a)
  /\ JobUnchanged
  /\ UNCHANGED <<ptVars, seasoned, disk, damage, sched, budget>>

(* The files visited: skip_while and take_while stop at the first file     *)
(* after a covering one that does not cover p, as one of no bytes does not. *)
FilesVisited(p) ==
  {f \in Files : /\ p \in FilePieces[f]
                 /\ \A g, h \in Files : h <= g /\ g <= f /\ p \in FilePieces[h]
                                         => p \in FilePieces[g]}

OnPieceCompleted(a) ==
  /\ At(a, "completed")
  /\ per_file_bytes' = [f \in Files |-> IF f \in FilesVisited(job[a].piece)
                                        THEN per_file_bytes[f] + FileBytes(f, {job[a].piece})
                                        ELSE per_file_bytes[f]]
  /\ IF Finished /\ ~ActiveStreams THEN JobTo(a, "disconnect") ELSE JobDone(a)
  /\ JobUnchanged
  /\ UNCHANGED <<ptVars, seasoned, disk, damage, sched, budget>>

(* disconnect_all_peers_that_have_full_torrent, after the lock is dropped  *)
DisconnectFullPeers(a) ==
  /\ At(a, "disconnect")
  /\ conn' = [b \in Peers |-> IF conn[b] = "live" /\ PeerHas[b] = Pieces
                              THEN "not_needed" ELSE conn[b]]
  /\ JobDone(a)
  /\ UNCHANGED <<ptVars, mode, task, rq, reqs, seasoned, disk, damage, sched, streams,
                 per_file_bytes, budget>>

-----------------------------------------------------------------------------
(* Connections.                                                            *)

(* A task ends: its requester, its requests and its job are gone.          *)
TaskEnds(a) ==
  /\ task' = [task EXCEPT ![a] = FALSE]
  /\ rq' = [rq EXCEPT ![a] = Acquiring]
  /\ reqs' = [reqs EXCEPT ![a] = {}]
  /\ job' = [job EXCEPT ![a] = Idle]

(* on_peer_died: a live peer's pieces are released; a peer that was made   *)
(* "not needed" meanwhile returns early and releases nothing.              *)
OnPeerDied_NoRelease(a, next) ==
  /\ IF conn[a] = "live" THEN conn' = [conn EXCEPT ![a] = next] ELSE UNCHANGED conn
  /\ TaskEnds(a)
  /\ UNCHANGED <<ptVars, mode, seasoned, disk, damage, sched, streams, per_file_bytes>>

OnPeerDied(a, next) ==
  /\ IF conn[a] = "live"
     THEN ReleasePiecesOwnedBy(a) /\ conn' = [conn EXCEPT ![a] = next]
     ELSE UNCHANGED <<ptVars, conn>>
  /\ TaskEnds(a)
  /\ UNCHANGED <<mode, seasoned, disk, damage, sched, streams, per_file_bytes>>

AfterError == IF Finished /\ ~ActiveStreams THEN "not_needed" ELSE "idle"

(* write_to_disk returned an error *)
DieOfJob(a) ==
  /\ At(a, "die") /\ task[a]
  /\ OnPeerDied(a, AfterError)
  /\ UNCHANGED budget

(* The connection breaks: only between jobs, or before one has a thread.   *)
ConnectionLost(a) ==
  /\ Running /\ task[a] /\ conn[a] = "live"
  /\ job[a].pc \in {"idle", "check"} /\ rq[a].pc # "cancel"
  /\ Spend("die")
  /\ OnPeerDied(a, AfterError)

(* Nothing left to do with a seeder, or it was told to disconnect.         *)
Disconnect(a) ==
  /\ At(a, "idle") /\ task[a]
  /\ \/ conn[a] # "live"
     \/ rq[a] = Acquiring /\ Finished /\ ~ActiveStreams /\ PeerHas[a] = Pieces
  /\ OnPeerDied(a, "not_needed")
  /\ UNCHANGED budget

Connect(a) ==
  /\ Running /\ conn[a] = "idle" /\ ~task[a]
  /\ conn' = [conn EXCEPT ![a] = "live"]
  /\ task' = [task EXCEPT ![a] = TRUE]
  /\ UNCHANGED <<ptVars, mode, rq, reqs, job, seasoned, disk, damage, sched, streams,
                 per_file_bytes, budget>>

(* reconnect_all_not_needed_peers *)
Reconnected == [a \in Peers |-> IF conn[a] = "not_needed" THEN "idle" ELSE conn[a]]

-----------------------------------------------------------------------------
(* Recovery: pieces leave the DamageTracker under its lock, and are        *)
(* requeued later under the state lock.                                    *)

RecoveryUnchanged == UNCHANGED <<mode, task, rq, reqs, job, seasoned, disk, streams,
                                 per_file_bytes>>

SchedulerFree == Running /\ sched["due"] = {} /\ sched["disk"] = {}

(* requeue_due_pieces, up to take_due.  A backoff is at least a second     *)
(* long, so it does not elapse inside soft_recover_piece.                  *)
TakeDuePieces ==
  /\ SchedulerFree
  /\ LET due == {p \in damage.pending \ damage.gave_up :
                   \A a \in Peers : job[a].pc = "defer" => job[a].piece # p}
     IN  /\ due # {}
         /\ damage' = [damage EXCEPT !.pending = @ \ due]
         /\ sched' = [sched EXCEPT !["due"] = due]
  /\ UNCHANGED <<ptVars, conn, budget>> /\ RecoveryUnchanged

(* check_disk_space found enough room, up to clear_disk_full *)
ClearDiskFull ==
  /\ SchedulerFree
  /\ damage.disk_held # {}
  /\ damage' = [damage EXCEPT !.disk_held = {}]
  /\ sched' = [sched EXCEPT !["disk"] = damage.disk_held]
  /\ UNCHANGED <<ptVars, conn, budget>> /\ RecoveryUnchanged

(* manual_recovery_reset, up to DamageTracker::manual_reset *)
ManualReset ==
  /\ mode # "error"
  /\ LET r == IF mode = "paused" THEN "manual_paused" ELSE "manual_live"
     IN  sched[r] = {} /\ sched' = [sched EXCEPT ![r] = HeldBack]
  /\ damage' = [attempts |-> [p \in Pieces |-> 0], pending |-> {}, gave_up |-> {},
                disk_held |-> {}]
  /\ Spend("manual_reset")
  /\ UNCHANGED <<ptVars, conn>> /\ RecoveryUnchanged

(* requeue_pieces, and after a full disk the reconnect that follows it     *)
Requeue(r) ==
  /\ sched[r] # {}
  /\ IF r = "manual_paused" THEN mode = "paused" ELSE Running
  /\ RequeuePieces(sched[r])
  /\ conn' = IF r = "disk" THEN Reconnected ELSE conn
  /\ sched' = [sched EXCEPT ![r] = {}]
  /\ UNCHANGED <<damage, budget>> /\ RecoveryUnchanged

-----------------------------------------------------------------------------
(* The user: file selection, streams, pause, resume.                       *)

(* TorrentStateLive::update_only_files; TorrentStatePaused has no peers    *)
SelectFiles(files) ==
  /\ mode # "error"
  /\ Spend("select")
  /\ UpdateOnlyFiles(files)
  /\ conn' = IF hns'.needed_bytes # 0 THEN Reconnected ELSE conn
  /\ UNCHANGED <<damage, sched>> /\ RecoveryUnchanged

(* ManagedTorrent::stream: reconnect if the file is not finished, insert   *)
OpenStream(f) ==
  /\ mode # "error"
  /\ f \notin streams
  /\ Spend("open_stream")
  /\ conn' = IF FilePieces[f] \subseteq have THEN conn ELSE Reconnected
  /\ streams' = streams \cup {f}
  /\ UNCHANGED <<ptVars, mode, task, rq, reqs, job, seasoned, disk, damage, sched,
                 per_file_bytes>>

CloseStream(f) ==
  /\ f \in streams
  /\ streams' = streams \ {f}
  /\ UNCHANGED <<ptVars, mode, conn, task, rq, reqs, job, seasoned, disk, damage, sched,
                 per_file_bytes, budget>>

(* Every task of the live torrent is cancelled; a thread still inside      *)
(* write_to_disk or requeue_pieces finds the piece tracker gone.           *)
StopTasks ==
  /\ conn' = [a \in Peers |-> "idle"]
  /\ task' = [a \in Peers |-> FALSE]
  /\ rq' = [a \in Peers |-> Acquiring]
  /\ reqs' = [a \in Peers |-> {}]
  /\ job' = [a \in Peers |-> Idle]
  /\ seasoned' = {}
  /\ sched' = [r \in Requeuers |-> IF r = "manual_paused" THEN sched[r] ELSE {}]

(* TorrentStateLive::pause *)
Pause_KeepInflight ==
  /\ mode = "live"
  /\ Spend("pause")
  /\ mode' = "paused"
  /\ inflight' = [p \in Pieces |-> NoPeer]
  /\ StopTasks
  /\ UNCHANGED <<have, queue, selected, chunk_status, hns, disk, damage, streams,
                 per_file_bytes>>

Pause ==
  /\ mode = "live"
  /\ Spend("pause")
  /\ mode' = "paused"
  /\ IntoChunks
  /\ StopTasks
  /\ UNCHANGED <<disk, damage, streams, per_file_bytes>>

(* TorrentStateLive::new over the paused torrent's chunk tracker *)
Resume ==
  /\ mode = "paused"
  /\ mode' = "live"
  /\ sched' = [sched EXCEPT !["manual_paused"] = {}]
  /\ UNCHANGED <<ptVars, conn, task, rq, reqs, job, seasoned, disk, damage, streams,
                 per_file_bytes, budget>>

(* stop_with_error: pause, and forget the piece tracker                    *)
StopWithError ==
  /\ mode = "failing"
  /\ mode' = "error"
  /\ IntoChunks
  /\ StopTasks
  /\ UNCHANGED <<disk, damage, streams, per_file_bytes, budget>>

-----------------------------------------------------------------------------
(* What a peer task does by itself, with no fault of the environment.      *)
PeerStep(a) ==
  \/ AcquirePriority(a) \/ AcquireQueued(a) \/ OnSteal(a) \/ RequestChunk(a)
  \/ ReceivePiece(a, TRUE)
  \/ CheckSteal(a) \/ WriteChunk(a) \/ FinishHold(a) \/ MarkChunk(a)
  \/ CheckPiece(a) \/ HashOk(a) \/ HashFailed(a)
  \/ OnPieceCompleted(a) \/ DisconnectFullPeers(a)
  \/ DieOfJob(a) \/ Disconnect(a) \/ Connect(a)

SchedulerStep == TakeDuePieces \/ ClearDiskFull \/ Requeue("due") \/ Requeue("disk")
ManualStep == Requeue("manual_live") \/ Requeue("manual_paused")

Environment ==
  \/ \E a \in Peers : \/ AcquireSteal(a) \/ ReceivePiece(a, FALSE)
                      \/ WriteDiskFull(a) \/ WriteError(a) \/ CheckPieceReadError(a)
                      \/ ConnectionLost(a)
  \/ \E fs \in SUBSET Files : SelectFiles(fs)
  \/ \E f \in Files : OpenStream(f) \/ CloseStream(f)
  \/ ManualReset
  \/ Pause

LiveNext ==
  \/ \E a \in Peers : PeerStep(a)
  \/ SchedulerStep
  \/ ManualStep
  \/ Environment
  \/ Resume
  \/ StopWithError

LiveSpec == LiveInit /\ [][LiveNext]_vars

(* The tasks of a live torrent are scheduled by tokio and never starve; a  *)
(* connected peer answers what it was asked, a lost peer can be reached    *)
(* again, a full disk gets room, and the user resumes a paused torrent.    *)
LiveFairness ==
  /\ \A a \in Peers : WF_vars(PeerStep(a))
  /\ WF_vars(SchedulerStep)
  /\ WF_vars(ManualStep)
  /\ WF_vars(Resume)
  /\ WF_vars(StopWithError)

LiveFairSpec == LiveSpec /\ LiveFairness
-----------------------------------------------------------------------------
JobPcs == {"check", "write", "hold", "defer", "mark", "hash", "hash_ok", "hash_bad",
           "completed", "disconnect", "die"}
JobType == {Idle} \cup [pc : JobPcs, piece : Pieces, chunk : Chunks, ok : BOOLEAN,
                        locked : BOOLEAN]
RqType == {Acquiring} \cup [pc : {"cancel"}, piece : Pieces, from : Peers]
                      \cup [pc : {"request"}, piece : Pieces, left : SUBSET Chunks]

(* The types of the live torrent's state.                                  *)
LiveTypeOK ==
  /\ TrackerTypeOK
  /\ mode \in {"live", "failing", "paused", "error"}
  /\ conn \in [Peers -> {"idle", "live", "not_needed"}]
  /\ task \in [Peers -> BOOLEAN]
  /\ rq \in [Peers -> RqType]
  /\ reqs \in [Peers -> SUBSET (Pieces \X Chunks)]
  /\ job \in [Peers -> JobType]
  /\ seasoned \in SUBSET Peers
  /\ disk \in [Pieces -> SUBSET Chunks]
  /\ damage \in [attempts : [Pieces -> Nat], pending : SUBSET Pieces,
                 gave_up : SUBSET Pieces, disk_held : SUBSET Pieces]
  /\ sched \in [Requeuers -> SUBSET Pieces]
  /\ streams \in SUBSET Files
  /\ per_file_bytes \in [Files -> Nat]
  /\ budget \in [Events -> Nat]

-----------------------------------------------------------------------------
(* Pieces some thread is working on between two lock sections: being       *)
(* hash-checked, or about to be put in or out of the queue.                *)
Worked == {job[a].piece : a \in {b \in Peers :
             job[b].pc \in {"hash", "hash_ok", "hash_bad", "hold", "defer"}}}
          \cup UNION {sched[r] : r \in Requeuers}

(* No piece is forgotten: while the torrent is not stopped by an error, a  *)
(* selected piece we do not have is queued, in flight, being verified or   *)
(* requeued, or held back by the recovery backoff, which requeues it.      *)
NoPieceForgotten ==
  mode # "error" =>
    \A p \in selected \ have : p \in queue \/ IsInflight(p) \/ p \in Worked \/ p \in HeldBack

(* "A piece is never in multiple states simultaneously" (STATE.md): a      *)
(* piece is not two of have, queued and in flight.                         *)
PieceStatesDisjoint ==
  /\ HaveNotQueued
  /\ \A p \in Pieces : IsInflight(p) => p \notin queue \cup have

(* "We can proceed writing knowing that the piece is ours now and will     *)
(* still be by the time the write is finished" (write_to_disk).            *)
WriterOwnsPiece ==
  \A a \in Peers : job[a].pc \in {"write", "mark"} => inflight[job[a].piece] = a

(* "Have" means downloaded and verified: the bytes of a piece we have are  *)
(* right on disk, also after late writes of other peers.                   *)
HaveIsVerified == \A p \in have : disk[p] = Chunks

(* A piece is verified by one task at a time, and not after we have it.    *)
OneVerifier ==
  \A a, b \in Peers :
    /\ job[a].pc \in {"hash", "hash_ok", "hash_bad"}
    /\ job[b].pc \in {"hash", "hash_ok", "hash_bad"}
    /\ job[a].piece = job[b].piece
    => a = b /\ job[a].piece \notin have

(* "Pieces are properly requeued when a peer dies": a piece in flight      *)
(* belongs to a peer whose task is running, which releases it as it ends.  *)
InflightOwnerConnected ==
  \A p \in Pieces : IsInflight(p) => task[inflight[p]]

(* "Pieces currently held back ... are not in the queue" (the DamageTracker, *)
(* once the write path that recorded the failure has deferred the piece):  *)
(* no peer is handed a piece before its backoff elapsed.                   *)
HeldBackNotQueued ==
  \A p \in HeldBack :
    (\A a \in Peers : job[a].pc \in {"hold", "defer"} => job[a].piece # p)
      => p \notin queue /\ ~IsInflight(p)

(* "How many bytes do we have per each file": the count is that of the     *)
(* verified pieces, less those whose on_piece_completed is still to run.   *)
(* It holds for torrents in which every file has bytes, see FilesVisited.  *)
Uncounted == {job[a].piece : a \in {b \in Peers : job[b].pc = "completed"}}
FileBytesExact ==
  mode # "error" =>
    \A f \in Files : per_file_bytes[f] = FileBytes(f, (have \ Uncounted) \cap FilePieces[f])

(* The download finishes: once the environment has done its worst, every   *)
(* selected piece is there for good, unless the torrent stopped with an    *)
(* error or a piece was given up and waits for "Fix errors".               *)
DownloadFinishes == <>[](Finished \/ mode = "error" \/ damage.gave_up # {})
=============================================================================
