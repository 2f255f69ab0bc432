---------------------------- MODULE TorrentQueue ----------------------------
(***************************************************************************)
(* The algorithms of the torrent queue, as operators: which candidates may *)
(* run (admit_with), who holds the seeding slots (rotate_seeds), how the   *)
(* order follows the session (sync) and the user's moves (apply_move).     *)
(* Torrents are identified by their id, a natural number.  An Instant is   *)
(* the integer of its tick.                                                *)
(***************************************************************************)
EXTENDS Integers, Sequences, FiniteSets, SequencesExt

CONSTANT None    \* Option::None

-----------------------------------------------------------------------------
(* admit_with.  A candidate is [id, seeding, active, slow], the sequence    *)
(* cands is in queue order; the limits l are                               *)
(* [max_downloads, max_uploads, max_active, ignore_slow].                  *)
Under(n, limit) == limit = None \/ n < limit

Exempt(c, l, seed_pick) ==
  l.ignore_slow /\ c.active /\ c.slow /\ ~(c.seeding /\ seed_pick # None)

(* fits, when the candidates of the set counted were admitted before c *)
Fits_AtLimit(c, l, seed_pick, counted) ==
  LET n == Cardinality({d \in counted : d.seeding = c.seeding})
  IN  /\ IF ~c.seeding THEN l.max_downloads = None \/ n <= l.max_downloads
         ELSE IF seed_pick = None THEN l.max_uploads = None \/ n <= l.max_uploads
         ELSE c.id \in seed_pick
      /\ Under(Cardinality(counted), l.max_active)

Fits(c, l, seed_pick, counted) ==
  LET n == Cardinality({d \in counted : d.seeding = c.seeding})
  IN  /\ IF ~c.seeding THEN Under(n, l.max_downloads)
         ELSE IF seed_pick = None THEN Under(n, l.max_uploads)
         ELSE c.id \in seed_pick
      /\ Under(Cardinality(counted), l.max_active)

(* The pass over cands: one set out is such that each candidate is in it   *)
(* exactly if it is exempt or fits beside the ones admitted before it.     *)
AdmitWith(cands, l, seed_pick) ==
  CHOOSE out \in SUBSET {cands[k].id : k \in DOMAIN cands} :
    \A k \in DOMAIN cands :
      cands[k].id \in out
        <=> \/ Exempt(cands[k], l, seed_pick)
            \/ Fits(cands[k], l, seed_pick,
                    {cands[j] : j \in {i \in 1..k - 1 : /\ cands[i].id \in out
                                                       /\ ~Exempt(cands[i], l, seed_pick)}})

-----------------------------------------------------------------------------
(* rotate_seeds.  Candidates are a set of [id, active, uploading]; st is   *)
(* [slot_since, waiting_since, last_upload], each a function from the ids  *)
(* it has an entry for.                                                    *)
Ids(cands) == {c.id : c \in cands}

Get(f, id, default) == IF id \in DOMAIN f THEN f[id] ELSE default

(* The bookkeeping at the head of rotate_seeds. *)
Observed(cands, st, now) ==
  LET holder == {c.id : c \in {d \in cands : d.active}}
      uploads == {c.id : c \in {d \in cands : d.uploading}}
      slot_since == [i \in holder |-> Get(st.slot_since, i, now)]
  IN  [slot_since    |-> slot_since,
       waiting_since |-> [i \in Ids(cands) \ holder |-> Get(st.waiting_since, i, now)],
       last_upload   |-> [i \in holder |-> IF i \in uploads THEN now
                                           ELSE Get(st.last_upload, i, slot_since[i])]]

(* sort_by_key(|id| (since[id], id)) *)
SortedBy(ids, since) ==
  LET before(i) == {j \in ids : \/ since[j] < since[i]
                                \/ since[j] = since[i] /\ j < i}
  IN  [k \in 1..Cardinality(ids) |-> CHOOSE i \in ids : Cardinality(before(i)) = k - 1]

Expired_Never(st, i, slot_len, now) == FALSE

Expired(st, i, slot_len, now) == now - st.slot_since[i] >= slot_len

Idle(cands, st, i, idle_grace, now) ==
  /\ now - st.last_upload[i] >= idle_grace
  /\ \A c \in cands : c.id = i => ~c.uploading

(* Whom a holder yields to: the n-th releasable holder makes way for the   *)
(* n-th waiting torrent while slots are free; what is free afterwards goes *)
(* to the next ones waiting.                                               *)
Fill_NewestFirst(kept, releasable, waiting, slots) ==
  LET free == slots - Len(kept)
      n == Len(waiting)
  IN  ToSet(kept)
        \cup {waiting[k] : k \in {j \in 1..n : n - j < free}}
        \cup {releasable[k] : k \in (n + 1)..Len(releasable) \cap 1..free}

Fill(kept, releasable, waiting, slots) ==
  LET free == slots - Len(kept)
  IN  ToSet(kept)
        \cup {waiting[k] : k \in 1..Len(waiting) \cap 1..free}
        \cup {releasable[k] : k \in (Len(waiting) + 1)..Len(releasable) \cap 1..free}

RotateSeeds_CutUploading(cands, slots, slot_len, idle_grace, st0, now) ==
  LET st == Observed(cands, st0, now)
      holders == SortedBy(DOMAIN st.slot_since, st.slot_since)
      waiting == SortedBy(DOMAIN st.waiting_since, st.waiting_since)
  IN  [st   |-> st,
       pick |-> IF Cardinality(cands) <= slots THEN Ids(cands)
                ELSE Fill(<<>>, holders, waiting, slots)]

RotateSeeds(cands, slots, slot_len, idle_grace, st0, now) ==
  LET st == Observed(cands, st0, now)
      releases(i) == \/ Expired(st, i, slot_len, now)
                     \/ Idle(cands, st, i, idle_grace, now)
      keeps(i) == ~releases(i)
      holders == SortedBy(DOMAIN st.slot_since, st.slot_since)
      waiting == SortedBy(DOMAIN st.waiting_since, st.waiting_since)
      all == SelectSeq(holders, keeps)
      kept == SubSeq(all, 1, IF Len(all) < slots THEN Len(all) ELSE slots)
      dropped == Reverse(SubSeq(all, Len(kept) + 1, Len(all)))
  IN  [st   |-> st,
       pick |-> IF Cardinality(cands) <= slots THEN Ids(cands)
                ELSE Fill(kept, SelectSeq(holders, releases) \o dropped, waiting, slots)]

-----------------------------------------------------------------------------
(* sync: entries of removed torrents go, new torrents come at the end by   *)
(* id.                                                                     *)
Sync_AppendAll(order, present) ==
  LET old(i) == i \in present
  IN  SelectSeq(order, old) \o SortedBy(present, [i \in present |-> 0])

Sync(order, present) ==
  LET old(i) == i \in present
      kept == SelectSeq(order, old)
      new == present \ ToSet(kept)
  IN  kept \o SortedBy(new, [i \in new |-> 0])

(* apply_move *)
Swap(s, i, j) == [s EXCEPT ![i] = s[j], ![j] = s[i]]

MoveUp_PastSelected(order, sel) ==
  LET step(s, i) == IF s[i] \in sel THEN Swap(s, i - 1, i) ELSE s
  IN  FoldLeft(step, order, [k \in 1..Len(order) - 1 |-> k + 1])

MoveUp(order, sel) ==
  LET step(s, i) == IF s[i] \in sel /\ s[i - 1] \notin sel THEN Swap(s, i - 1, i) ELSE s
  IN  FoldLeft(step, order, [k \in 1..Len(order) - 1 |-> k + 1])

MoveDown(order, sel) ==
  LET step(s, i) == IF s[i] \in sel /\ s[i + 1] \notin sel THEN Swap(s, i, i + 1) ELSE s
  IN  FoldLeft(step, order, [k \in 1..Len(order) - 1 |-> Len(order) - k])

ApplyMove(order, sel, mv) ==
  LET in(i) == i \in sel
      out(i) == i \notin sel
  IN  CASE mv = "up"     -> MoveUp(order, sel)
        [] mv = "down"   -> MoveDown(order, sel)
        [] mv = "top"    -> SelectSeq(order, in) \o SelectSeq(order, out)
        [] mv = "bottom" -> SelectSeq(order, out) \o SelectSeq(order, in)
=============================================================================
