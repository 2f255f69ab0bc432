------------------------- MODULE PieceTrackerProofs -------------------------
(***************************************************************************)
(* Proofs about PieceTracker for any set of pieces, files and peers and    *)
(* any piece lengths.  TrackerInv is inductive as it stands: HnsInSync     *)
(* needs the type invariant, and HaveNotQueued needs nothing else.         *)
(***************************************************************************)
EXTENDS PieceTracker, TLAPS

TrackerInv == TrackerTypeOK /\ HaveNotQueued /\ HnsInSync

(* A selection is a set of pieces (compute_selected_pieces).               *)
LEMMA SelectedPiecesType ==
  ASSUME NEW fs \in SUBSET Files
  PROVE  SelectedPieces(fs) \in SUBSET Pieces
BY ConstantsAssumption DEF SelectedPieces

(* calc_hns returns natural byte totals for any bitfields.                 *)
LEMMA CalcHnsType ==
  ASSUME NEW h \in SUBSET Pieces, NEW s \in SUBSET Pieces
  PROVE  CalcHns(h, s) \in [have_bytes : Nat, needed_bytes : Nat, selected_bytes : Nat]
<1>1. Bytes(h) \in Nat /\ Bytes(s) \in Nat /\ Bytes(s \ h) \in Nat
  <2>1. s \ h \in SUBSET Pieces
    OBVIOUS
  <2> QED
    BY <2>1, BytesAssumption
<1> QED
  BY <1>1 DEF CalcHns

(* Adding a piece adds its length to the bytes we have and takes it off    *)
(* the bytes needed, if it was selected.                                   *)
LEMMA BytesAdd ==
  ASSUME NEW h \in SUBSET Pieces, NEW s \in SUBSET Pieces, NEW p \in Pieces \ h
  PROVE  /\ Bytes(h \cup {p}) = Bytes(h) + PieceLen[p]
         /\ Bytes(s \ (h \cup {p})) =
              IF p \in s THEN Bytes(s \ h) - PieceLen[p] ELSE Bytes(s \ h)
<1>1. Bytes(h \cup {p}) = Bytes(h) + PieceLen[p]
  BY BytesAssumption
<1>2. CASE p \in s
  <2> DEFINE rest == s \ (h \cup {p})
  <2>1. rest \in SUBSET Pieces /\ p \in Pieces \ rest /\ rest \cup {p} = s \ h
    BY <1>2
  <2>2. Bytes(s \ h) = Bytes(rest) + PieceLen[p]
    BY <2>1, BytesAssumption
  <2>3. Bytes(rest) \in Nat /\ PieceLen[p] \in Nat
    BY <2>1, BytesAssumption, ConstantsAssumption
  <2>4. Bytes(rest) = Bytes(s \ h) - PieceLen[p]
    BY <2>2, <2>3
  <2> QED
    BY <1>1, <1>2, <2>4
<1>3. CASE p \notin s
  <2>1. s \ (h \cup {p}) = s \ h
    BY <1>3
  <2> QED
    BY <1>1, <1>3, <2>1
<1> QED
  BY <1>2, <1>3

(* A fresh tracker (ChunkTracker::new) satisfies the invariant.            *)
LEMMA TrackerInitInv == TrackerInit => TrackerInv
<1> SUFFICES ASSUME TrackerInit PROVE TrackerInv
  OBVIOUS
<1>1. selected \in SUBSET Pieces /\ have \in SUBSET Pieces
  BY SelectedPiecesType DEF TrackerInit
<1>2. hns \in [have_bytes : Nat, needed_bytes : Nat, selected_bytes : Nat]
  BY <1>1, CalcHnsType DEF TrackerInit
<1>3. TrackerTypeOK
  BY <1>1, <1>2 DEF TrackerInit, TrackerTypeOK
<1> QED
  BY <1>3 DEF TrackerInit, TrackerInv, HaveNotQueued, HnsInSync

(* mark_piece_downloaded keeps the totals in step with the bitfields: its  *)
(* two incremental updates give what calc_hns would recompute.             *)
LEMMA HashOkHns ==
  ASSUME TrackerInv, NEW p \in Pieces, MarkPieceHashOk(p)
  PROVE  hns' = CalcHns(have', selected')
<1> USE DEF TrackerInv, TrackerTypeOK, HnsInSync
<1>1. CASE p \in have
  <2>1. have' = have /\ selected' = selected /\ hns' = hns
    BY <1>1 DEF MarkPieceHashOk
  <2> QED
    BY <2>1
<1>2. CASE p \notin have
  <2>1. have' = have \cup {p} /\ selected' = selected /\ hns' = HnsAdding(p)
    BY <1>2 DEF MarkPieceHashOk
  <2>2. /\ Bytes(have \cup {p}) = Bytes(have) + PieceLen[p]
        /\ Bytes(selected \ (have \cup {p})) =
             IF p \in selected THEN Bytes(selected \ have) - PieceLen[p]
             ELSE Bytes(selected \ have)
    BY <1>2, BytesAdd
  <2> QED
    BY <2>1, <2>2 DEF HnsAdding, CalcHns
<1> QED
  BY <1>1, <1>2

(* Every call of the tracker preserves the invariant.                      *)
LEMMA TrackerNextInv == TrackerInv /\ [TrackerNext]_ptVars => TrackerInv'
<1> SUFFICES ASSUME TrackerInv, [TrackerNext]_ptVars PROVE TrackerInv'
  OBVIOUS
<1> USE DEF TrackerInv, TrackerTypeOK, HaveNotQueued, HnsInSync
<1>1. ASSUME NEW peer \in Peers, NEW p \in Pieces,
             ReservePriority(peer, p, Pieces) \/ ReserveQueued(peer, p)
      PROVE  TrackerInv'
  <2>1. ReservePiece(peer, p)
    BY <1>1 DEF ReservePriority, ReserveQueued
  <2> QED
    BY <2>1 DEF ReservePiece, CalcHns
<1>2. ASSUME NEW peer \in Peers, NEW p \in Pieces, Steal(peer, p)
      PROVE  TrackerInv'
  BY <1>2 DEF Steal, CalcHns
<1>3. ASSUME NEW p \in Pieces, NEW c \in Chunks, MarkChunkDownloaded(p, c)
      PROVE  TrackerInv'
  BY <1>3 DEF MarkChunkDownloaded, CalcHns
<1>4. ASSUME NEW p \in Pieces, MarkPieceHashOk(p)
      PROVE  TrackerInv'
  <2>1. hns' = CalcHns(have', selected')
    BY <1>4, HashOkHns
  <2>2. have' \in SUBSET Pieces /\ selected' \in SUBSET Pieces
    BY <1>4 DEF MarkPieceHashOk
  <2>3. hns' \in [have_bytes : Nat, needed_bytes : Nat, selected_bytes : Nat]
    BY <2>1, <2>2, CalcHnsType
  <2> QED
    BY <1>4, <2>1, <2>2, <2>3 DEF MarkPieceHashOk
<1>5. ASSUME NEW p \in Pieces, MarkPieceHashFailed(p)
      PROVE  TrackerInv'
  BY <1>5 DEF MarkPieceHashFailed, MarkBroken, QueueWithBroken, ChunksWithBroken, CalcHns
<1>6. ASSUME NEW p \in Pieces, DeferPiece(p)
      PROVE  TrackerInv'
  BY <1>6 DEF DeferPiece, ChunksWithBroken, CalcHns
<1>7. ASSUME NEW peer \in Peers, ReleasePiecesOwnedBy(peer)
      PROVE  TrackerInv'
  BY <1>7 DEF ReleasePiecesOwnedBy, OwnedBy, MarkBroken, QueueWithBroken,
              ChunksWithBroken, CalcHns
<1>8. ASSUME NEW S \in SUBSET Pieces, RequeuePieces(S)
      PROVE  TrackerInv'
  BY <1>8 DEF RequeuePieces, MarkBroken, QueueWithBroken, ChunksWithBroken, CalcHns
<1>9. ASSUME NEW fs \in SUBSET Files, UpdateOnlyFiles(fs)
      PROVE  TrackerInv'
  <2>1. selected' \in SUBSET Pieces /\ have' = have
    BY <1>9, SelectedPiecesType DEF UpdateOnlyFiles
  <2>2. hns' = CalcHns(have', selected')
    BY <1>9 DEF UpdateOnlyFiles
  <2>3. hns' \in [have_bytes : Nat, needed_bytes : Nat, selected_bytes : Nat]
    BY <2>1, <2>2, CalcHnsType
  <2>4. /\ queue' \in SUBSET Pieces
        /\ have' \cap queue' = {}
        /\ chunk_status' \in [Pieces -> SUBSET Chunks]
        /\ inflight' \in [Pieces -> Peers \cup {NoPeer}]
    BY <1>9, <2>1 DEF UpdateOnlyFiles, QueueWithBroken, ChunksWithBroken
  <2> QED
    BY <2>1, <2>2, <2>3, <2>4
<1>10. ASSUME IntoChunks
       PROVE  TrackerInv'
  BY <1>10 DEF IntoChunks, MarkBroken, QueueWithBroken, ChunksWithBroken, CalcHns
<1>11. ASSUME NEW S \in SUBSET Pieces, MarkPiecesMissing(S)
       PROVE  TrackerInv'
  <2>1. have' \in SUBSET Pieces /\ selected' \in SUBSET Pieces
    BY <1>11 DEF MarkPiecesMissing
  <2>2. hns' = CalcHns(have', selected')
    BY <1>11 DEF MarkPiecesMissing
  <2>3. hns' \in [have_bytes : Nat, needed_bytes : Nat, selected_bytes : Nat]
    BY <2>1, <2>2, CalcHnsType
  <2> QED
    BY <1>11, <2>1, <2>2, <2>3 DEF MarkPiecesMissing
<1>12. CASE UNCHANGED ptVars
  BY <1>12 DEF ptVars, CalcHns
<1> QED
  BY <1>1, <1>2, <1>3, <1>4, <1>5, <1>6, <1>7, <1>8, <1>9, <1>10, <1>11, <1>12
  DEF TrackerNext

(* The types hold, the queue never offers a piece we have, and the cached  *)
(* totals stay in sync with the bitfields, for every order of the piece    *)
(* tracker's calls.                                                        *)
THEOREM TrackerInvariant == TrackerSpec => []TrackerInv
BY TrackerInitInv, TrackerNextInv, PTL DEF TrackerSpec

(* The part a caller relies on: a verified piece is never handed out from  *)
(* the queue.                                                              *)
THEOREM TrackerHaveNotQueued == TrackerSpec => []HaveNotQueued
<1>1. TrackerInv => HaveNotQueued
  BY DEF TrackerInv
<1> QED
  BY TrackerInvariant, <1>1, PTL

(* The "MUST be in sync" comment on ChunkTracker::hns.                     *)
THEOREM TrackerHnsInSync == TrackerSpec => []HnsInSync
<1>1. TrackerInv => HnsInSync
  BY DEF TrackerInv
<1> QED
  BY TrackerInvariant, <1>1, PTL
=============================================================================
