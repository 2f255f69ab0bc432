---------------------------- MODULE PieceTracker ----------------------------
(***************************************************************************)
(* The piece bookkeeping of one live torrent: ChunkTracker (which pieces   *)
(* we have, which are queued, which chunks of a piece were written, the    *)
(* byte totals) wrapped by PieceTracker (which peer a piece is in flight   *)
(* with).  Every call runs under the torrent's state lock, so every call   *)
(* is one action here.  Next lets the callers (peer tasks, the recovery    *)
(* scheduler, the API) make these calls in any order at all; module        *)
(* LiveTorrent adds the order in which the live code makes them.           *)
(***************************************************************************)
EXTENDS Integers

CONSTANTS
  Pieces,        \* valid piece indices
  Chunks,        \* chunk positions of a piece
  Peers,         \* peer handles (socket addresses)
  NoPeer,        \* "no entry in the in-flight map"
  Files,         \* file indices
  PaddingFiles,  \* files with the padding attribute, never selected
  FilePieces,    \* FilePieces[f]: the pieces FileInfo::piece_range covers
  PieceLen,      \* PieceLen[p]: Lengths::piece_length
  Bytes(_)       \* Bytes(S): the sum of PieceLen over S, see calc_hns

ASSUME ConstantsAssumption ==
  /\ NoPeer \notin Peers
  /\ Chunks # {}
  /\ PaddingFiles \subseteq Files
  /\ FilePieces \in [Files -> SUBSET Pieces]
  /\ PieceLen \in [Pieces -> Nat \ {0}]

(* What calc_hns relies on: summing lengths piece by piece.                *)
ASSUME BytesAssumption ==
  /\ \A S \in SUBSET Pieces : Bytes(S) \in Nat
  /\ \A S \in SUBSET Pieces : \A p \in Pieces \ S :
       Bytes(S \cup {p}) = Bytes(S) + PieceLen[p]

VARIABLES
  have,          \* pieces downloaded and verified
  queue,         \* ChunkTracker::queue_pieces
  selected,      \* pieces of the selected files
  chunk_status,  \* chunk_status[p]: the chunks of p marked downloaded
  hns,           \* the cached HaveNeededSelected byte totals
  inflight       \* inflight[p]: the peer p is in flight with, or NoPeer

ptVars == <<have, queue, selected, chunk_status, hns, inflight>>

-----------------------------------------------------------------------------
(* compute_selected_pieces *)
SelectedPieces(files) == UNION {FilePieces[f] : f \in files \ PaddingFiles}

(* calc_hns *)
CalcHns(h, s) == [have_bytes     |-> Bytes(h),
                  needed_bytes   |-> Bytes(s \ h),
                  selected_bytes |-> Bytes(s)]

(* HaveNeededSelected::finished *)
Finished == hns.needed_bytes = 0

IsInflight(p) == inflight[p] # NoPeer

OwnedBy(peer) == {p \in Pieces : inflight[p] = peer}

(* mark_piece_broken_if_not_have, for every piece of S: a piece we do not  *)
(* have is queued and its chunks are forgotten; one we have is left alone. *)
QueueWithBroken(S) == queue \cup (S \ have)
ChunksWithBroken(S) ==
  [p \in Pieces |-> IF p \in S \ have THEN {} ELSE chunk_status[p]]

MarkBroken(S) ==
  /\ queue' = QueueWithBroken(S)
  /\ chunk_status' = ChunksWithBroken(S)

-----------------------------------------------------------------------------
(* ChunkTracker::new and PieceTracker::new over an arbitrary bitfield and  *)
(* selection.                                                              *)
TrackerInit ==
  /\ have \in SUBSET Pieces
  /\ selected \in {SelectedPieces(fs) : fs \in SUBSET Files}
  /\ queue = selected \ have
  /\ chunk_status = [p \in Pieces |-> IF p \in have THEN Chunks ELSE {}]
  /\ hns = CalcHns(have, selected)
  /\ inflight = [p \in Pieces |-> NoPeer]

(* reserve_piece *)
ReservePiece_KeepQueued(peer, p) ==
  /\ inflight' = [inflight EXCEPT ![p] = peer]
  /\ UNCHANGED <<have, queue, selected, chunk_status, hns>>

ReservePiece(peer, p) ==
  /\ queue' = queue \ {p}
  /\ inflight' = [inflight EXCEPT ![p] = peer]
  /\ UNCHANGED <<have, selected, chunk_status, hns>>

(* acquire_piece, the priority pieces of the streams *)
ReservePriority(peer, p, priority) ==
  /\ p \in priority \ have
  /\ ~IsInflight(p)
  /\ ReservePiece(peer, p)

(* acquire_piece, the queued pieces *)
ReserveQueued(peer, p) ==
  /\ p \in queue
  /\ ReservePiece(peer, p)

(* try_steal: the entry stays in the in-flight map and changes owner.      *)
Steal(peer, p) ==
  /\ inflight[p] \notin {NoPeer, peer}
  /\ inflight' = [inflight EXCEPT ![p] = peer]
  /\ UNCHANGED <<have, queue, selected, chunk_status, hns>>

(* The "mark_chunk_downloaded" section of write_to_disk: marking the last  *)
(* missing chunk also takes the piece out of the in-flight map.            *)
ChunkCompletes(p, c) == chunk_status[p] # Chunks /\ chunk_status[p] \cup {c} = Chunks

MarkChunkDownloaded(p, c) ==
  /\ chunk_status' = [chunk_status EXCEPT ![p] = @ \cup {c}]
  /\ inflight' = IF ChunkCompletes(p, c) THEN [inflight EXCEPT ![p] = NoPeer]
                 ELSE inflight
  /\ UNCHANGED <<have, queue, selected, hns>>

(* mark_piece_downloaded, the totals of a piece we did not have *)
HnsAdding(p) ==
  [have_bytes     |-> hns.have_bytes + PieceLen[p],
   needed_bytes   |-> IF p \in selected THEN hns.needed_bytes - PieceLen[p]
                      ELSE hns.needed_bytes,
   selected_bytes |-> hns.selected_bytes]

(* mark_piece_hash_ok -> mark_piece_downloaded *)
MarkPieceHashOk_NoUnqueue(p) ==
  /\ have' = have \cup {p}
  /\ hns' = IF p \in have THEN hns ELSE HnsAdding(p)
  /\ UNCHANGED <<queue, selected, chunk_status, inflight>>

MarkPieceHashOk(p) ==
  /\ queue' = queue \ {p}
  /\ have' = have \cup {p}
  /\ hns' = IF p \in have THEN hns ELSE HnsAdding(p)
  /\ UNCHANGED <<selected, chunk_status, inflight>>

(* mark_piece_hash_failed *)
MarkPieceHashFailed(p) ==
  /\ MarkBroken({p})
  /\ UNCHANGED <<have, selected, hns, inflight>>

(* defer_piece: out of the in-flight map whoever owns it, and, unless we   *)
(* have it, out of the queue with its chunks forgotten.                    *)
DeferPiece_Requeue(p) ==
  /\ inflight' = [inflight EXCEPT ![p] = NoPeer]
  /\ MarkBroken({p})
  /\ UNCHANGED <<have, selected, hns>>

DeferPiece(p) ==
  /\ inflight' = [inflight EXCEPT ![p] = NoPeer]
  /\ queue' = IF p \in have THEN queue ELSE queue \ {p}
  /\ chunk_status' = ChunksWithBroken({p})
  /\ UNCHANGED <<have, selected, hns>>

(* release_pieces_owned_by *)
ReleasePiecesOwnedBy(peer) ==
  /\ inflight' = [p \in Pieces |-> IF inflight[p] = peer THEN NoPeer ELSE inflight[p]]
  /\ MarkBroken(OwnedBy(peer))
  /\ UNCHANGED <<have, selected, hns>>

(* requeue_pieces: held-back pieces go back to the queue, unless a peer    *)
(* already has them in flight.                                             *)
RequeuePieces(S) ==
  /\ MarkBroken({p \in S : ~IsInflight(p)})
  /\ UNCHANGED <<have, selected, hns, inflight>>

(* update_only_files *)
UpdateOnlyFiles_KeepHns(files) ==
  LET sel == SelectedPieces(files)
      newly == (sel \ selected) \ have
  IN  /\ selected' = sel
      /\ queue' = QueueWithBroken(newly) \cap (sel \cup have)
      /\ chunk_status' = ChunksWithBroken(newly)
      /\ UNCHANGED <<have, inflight, hns>>

UpdateOnlyFiles_NoQueue(files) ==
  LET sel == SelectedPieces(files)
  IN  /\ selected' = sel
      /\ queue' = queue \cap (sel \cup have)
      /\ hns' = CalcHns(have, sel)
      /\ UNCHANGED <<have, chunk_status, inflight>>

UpdateOnlyFiles(files) ==
  LET sel == SelectedPieces(files)
      newly == (sel \ selected) \ have
  IN  /\ selected' = sel
      /\ queue' = QueueWithBroken(newly) \cap (sel \cup have)
      /\ chunk_status' = ChunksWithBroken(newly)
      /\ hns' = CalcHns(have, sel)
      /\ UNCHANGED <<have, inflight>>

(* into_chunks, then PieceTracker::new when the torrent is resumed *)
IntoChunks ==
  /\ MarkBroken({p \in Pieces : IsInflight(p)})
  /\ inflight' = [p \in Pieces |-> NoPeer]
  /\ UNCHANGED <<have, selected, hns>>

(* mark_pieces_missing, called on a paused torrent after a repair *)
MarkPiecesMissing(S) ==
  /\ \A p \in Pieces : ~IsInflight(p)
  /\ have' = have \ S
  /\ chunk_status' = [p \in Pieces |-> IF p \in S THEN {} ELSE chunk_status[p]]
  /\ queue' = queue \cup (S \cap selected)
  /\ hns' = CalcHns(have \ S, selected)
  /\ UNCHANGED <<selected, inflight>>

-----------------------------------------------------------------------------
TrackerNext ==
  \/ \E peer \in Peers, p \in Pieces :
       \/ ReservePriority(peer, p, Pieces)
       \/ ReserveQueued(peer, p)
       \/ Steal(peer, p)
  \/ \E p \in Pieces, c \in Chunks : MarkChunkDownloaded(p, c)
  \/ \E p \in Pieces : MarkPieceHashOk(p)
  \/ \E p \in Pieces : MarkPieceHashFailed(p)
  \/ \E p \in Pieces : DeferPiece(p)
  \/ \E peer \in Peers : ReleasePiecesOwnedBy(peer)
  \/ \E S \in SUBSET Pieces : RequeuePieces(S)
  \/ \E fs \in SUBSET Files : UpdateOnlyFiles(fs)
  \/ IntoChunks
  \/ \E S \in SUBSET Pieces : MarkPiecesMissing(S)

TrackerSpec == TrackerInit /\ [][TrackerNext]_ptVars

-----------------------------------------------------------------------------
(* The types of the tracker's fields.  A byte total outside Nat is a u64   *)
(* that wrapped (mark_piece_downloaded subtracts from needed_bytes).       *)
TrackerTypeOK ==
  /\ have \in SUBSET Pieces
  /\ queue \in SUBSET Pieces
  /\ selected \in SUBSET Pieces
  /\ chunk_status \in [Pieces -> SUBSET Chunks]
  /\ hns \in [have_bytes : Nat, needed_bytes : Nat, selected_bytes : Nat]
  /\ inflight \in [Pieces -> Peers \cup {NoPeer}]

(* "A piece we have is not one a peer should be handed": the queue never   *)
(* offers a verified piece, in whatever order hash results, requeues,      *)
(* selections and repairs are applied (chunk_tracker.rs, the comment in    *)
(* mark_piece_downloaded).                                                 *)
HaveNotQueued == have \cap queue = {}

(* The cached totals "MUST be in sync with the BFs above": the incremental *)
(* updates of mark_piece_downloaded and the recomputations agree, so       *)
(* needed_bytes reaches 0 exactly when every selected piece is there.      *)
HnsInSync == hns = CalcHns(have, selected)
=============================================================================
