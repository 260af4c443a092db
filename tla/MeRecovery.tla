----------------------------- MODULE MeRecovery -----------------------------
(***************************************************************************)
(* The matching engine with its WAL, its checkpoints and its crashes       *)
(* (rsx-matching/src/wal.rs, checkpoint.rs, recovery.rs, config.rs,        *)
(* cast_loop.rs and rsx-book/src/snapshot.rs).  fan_out gives every record *)
(* the next sequence number, appends it to the WAL buffer and casts it at  *)
(* once; the buffer reaches the disk later.                                *)
(***************************************************************************)
EXTENDS Matching

CONSTANTS MaxCrashes,      \* bound on crashes and shutdowns
          MaxCheckpoints,  \* bound on checkpoints captured
          MaxWal           \* bound on the records of the WAL

VARIABLES wal,       \* records appended: [seq, rec]
          durable,   \* how many of them are on disk
          nextSeq,   \* next sequence number of the writer
          ckpt,      \* the checkpoint on disk, or NoCheckpoint
          queued,    \* checkpoints handed to the writer thread
          captured,  \* checkpoints captured so far
          applied,   \* tick of the applied-config row, or NoTick
          polled,    \* the scheduled config reached this process
          crashes
recoveryVars == <<wal, durable, nextSeq, ckpt, queued, captured, applied, polled, crashes>>
allVars == <<vars, recoveryVars>>

NoTick == 0
NoCheckpoint == [seq |-> 0, book |-> <<>>]

Numbered(events, first) == [i \in DOMAIN events |-> [seq |-> first + i - 1, rec |-> events[i]]]

RecoveryInit ==
  /\ Init
  /\ wal = <<>> /\ durable = 0 /\ nextSeq = 1
  /\ ckpt = NoCheckpoint /\ queued = <<>> /\ captured = 0
  /\ applied = NoTick /\ polled = FALSE /\ crashes = 0

-----------------------------------------------------------------------------
(* The live loop.                                                          *)

\* publish_events: each record of the step through fan_out.
FanOut ==
  /\ Len(wal) < MaxWal
  /\ wal' = wal \o Numbered(out', nextSeq)
  /\ nextSeq' = nextSeq + Len(out')

\* The handlers of Matching; resends matter here after a restart only.
Engine ==
  /\ \/ \E o \in Requests : NewOrder(o)
     \/ crashes > 0 /\ \E oid \in DOMAIN sent : Resend(oid)
     \/ \E oid \in DOMAIN sent : ProcessCancel(oid)
     \/ \E u \in Users : Maintain(u)
  /\ FanOut
  /\ UNCHANGED <<durable, ckpt, queued, captured, applied, polled, crashes>>

\* flush_if_due.
Flush ==
  /\ durable < Len(wal)
  /\ durable' = Len(wal)
  /\ UNCHANGED <<vars, wal, nextSeq, ckpt, queued, captured, applied, polled, crashes>>

\* CheckpointWriter::submit: one being written, one waiting, else dropped.
Submit(checkpoint) ==
  /\ queued' = IF Len(queued) < 2 THEN Append(queued, checkpoint) ELSE queued
  /\ captured' = captured + 1

\* The 10 s checkpoint of the loop, at the writer's last sequence number.
Checkpoint ==
  /\ captured < MaxCheckpoints
  /\ Submit([seq |-> nextSeq - 1, book |-> book])
  /\ UNCHANGED <<vars, wal, durable, nextSeq, ckpt, applied, polled, crashes>>

\* persist_checkpoint on the writer thread; its rename is the commit point.
Persist ==
  /\ queued # <<>>
  /\ ckpt' = Head(queued) /\ queued' = Tail(queued)
  /\ UNCHANGED <<vars, wal, durable, nextSeq, captured, applied, polled, crashes>>

\* apply_due_configs, and the checkpoint it makes due in the same pass.
Configure ==
  /\ ~polled /\ polled' = TRUE
  /\ \E tick \in NewTicks : ApplyConfig(tick)
  /\ FanOut
  /\ Submit([seq |-> nextSeq' - 1, book |-> book'])
  /\ UNCHANGED <<durable, ckpt, applied, crashes>>

\* write_applied_configs of the sidecar, some time after the apply.
WriteApplied ==
  /\ polled /\ applied = NoTick
  /\ \E tick \in NewTicks : applied' = tick
  /\ UNCHANGED <<vars, wal, durable, nextSeq, ckpt, queued, captured, polled, crashes>>

-----------------------------------------------------------------------------
(* Recovery.                                                               *)

\* snapshot::restore: the checkpointed book, relinked slot by slot.
Restored(b) ==
  LET comp == CompressionMap(b.comp.mid, b.tick)
      emptied == [b EXCEPT !.comp = comp, !.asc = PriceAsc(comp), !.levels = <<>>,
                           !.occ = [s \in Sides |-> {}], !.events = <<>>]
      linked == Migrated(b, emptied, SetToSortSeq(DOMAIN b.levels, <))
  IN RefreshBest(RefreshBest(linked, "buy"), "sell")

\* rebuild_order_index_from_book.
IndexOf(b) ==
  [k \in {<<b.orders[h].user, b.orders[h].oid>> : h \in DOMAIN b.orders} |->
     CHOOSE h \in DOMAIN b.orders : <<b.orders[h].user, b.orders[h].oid>> = k]

\* An accepted order executed again.
Executed(matched, idx) == [b |-> matched, idx |-> UpdateOrderIndex(matched.events, idx)]

\* One record of replay_wal_after_snapshot: accepted orders are executed
\* again, cancels repeated, everything else is a side effect of those.
ReplayRecord(state, rec) ==
  LET key == <<rec.user, rec.oid>>
  IN CASE rec.ev = "accepted" ->
            Executed(ProcessNewOrder(state.b, Taker(rec.oid, sent[rec.oid])), state.idx)
       [] rec.ev = "cancelled" /\ key \in DOMAIN state.idx ->
            [b |-> CancelOrder(state.b, state.idx[key]), idx |-> Drop(state.idx, key)]
       [] OTHER -> state

\* The book recover starts from: the checkpoint's, or an empty one on the
\* boot config (the applied row when there is one, else the environment's).
BaseBook(checkpoint, row) ==
  IF checkpoint # NoCheckpoint THEN Restored(checkpoint.book)
  ELSE NewBook(Mid, IF row = NoTick THEN Tick ELSE row, Lot)

\* The records of a log replayed over a base book.
ReplayOver(base, log) ==
  FoldLeft(LAMBDA state, r : ReplayRecord(state, r.rec), [b |-> base, idx |-> IndexOf(base)], log)

\* Book and index that recover rebuilds from a checkpoint and a log.
Replayed(checkpoint, log, row) ==
  ReplayOver(BaseBook(checkpoint, row), SelectSeq(log, LAMBDA r : r.seq > checkpoint.seq))

LastSeq(log) == IF log = <<>> THEN 0 ELSE log[Len(log)].seq

\* Mutant of NextSeq: the checkpoint's coverage is forgotten.
NextSeqFromWal(checkpoint, log) == LastSeq(log) + 1

\* Recovered::next_seq.
NextSeq(checkpoint, log) == AtLeast(LastSeq(log), checkpoint.seq) + 1

Accepted(log) == SelectSeq(log, LAMBDA r : r.rec.ev = "accepted")

\* Mutant of RebuildDedup: only the records after the checkpoint are scanned.
RebuildDedupAfterCheckpoint(checkpoint, log) ==
  LET tail == Accepted(SelectSeq(log, LAMBDA r : r.seq > checkpoint.seq))
  IN [i \in DOMAIN tail |-> tail[i].rec.oid]

\* rebuild_dedup_window: every retained OrderAccepted, oldest first; seed
\* skips a key it holds.
RebuildDedup(checkpoint, log) ==
  FoldLeft(LAMBDA window, r : IF r.rec.oid \in ToSet(window) THEN window
                              ELSE Append(window, r.rec.oid), <<>>, Accepted(log))

\* The recovered book and index take over; a known config version is
\* announced at boot, as the writer's first record.
Start(rebuilt, log, first) ==
  LET announced == IF applied = NoTick THEN <<>> ELSE <<[ev |-> "config", tick |-> applied]>>
  IN /\ book' = rebuilt.b /\ index' = rebuilt.idx
     /\ out' = announced
     /\ wal' = log \o Numbered(announced, first)
     /\ nextSeq' = first + Len(announced)

\* The process starts over from a log and a checkpoint on disk.
Boot(log, checkpoint) ==
  /\ crashes < MaxCrashes /\ crashes' = crashes + 1
  /\ Start(Replayed(checkpoint, log, applied), log, NextSeq(checkpoint, log))
  /\ seen' = RebuildDedup(checkpoint, log)
  /\ durable' = Len(log)
  /\ ckpt' = checkpoint /\ queued' = <<>>
  /\ polled' = (applied # NoTick)
  /\ UNCHANGED <<sent, aged, applied>>

\* A crash at any point, also inside a flush: the disk keeps a prefix of the
\* buffer, cut_torn_tail drops a partial record, and the process restarts.
Crash ==
  /\ \E kept \in durable .. Len(wal) : Boot(SubSeq(wal, 1, kept), ckpt)
  /\ UNCHANGED captured

\* SIGTERM: flush, persist a final checkpoint, exit; then a new start.
Shutdown ==
  /\ captured < MaxCheckpoints /\ captured' = captured + 1
  /\ Boot(wal, [seq |-> nextSeq - 1, book |-> book])

RecoveryNext ==
  Engine \/ Flush \/ Checkpoint \/ Persist \/ Configure \/ WriteApplied \/ Crash \/ Shutdown

RecoverySpec == RecoveryInit /\ [][RecoveryNext]_allVars

-----------------------------------------------------------------------------
\* What a client can tell of a book: the resting orders with their priority,
\* the positions and the best prices.
Visible(b) ==
  [orders |-> {[oid |-> b.orders[h].oid, px |-> b.orders[h].px, qty |-> b.orders[h].qty,
                seq |-> b.orders[h].seq] : h \in DOMAIN b.orders},
   net |-> [u \in Users |-> b.users[u].net],
   best |-> [s \in Sides |-> b.best[s].px]]

\* Replaying the log on top of the checkpoint on disk, or of one still in
\* the writer's queue, gives the live book, although live recenters and user
\* maintenance are not replayed (recover: "regenerates fills deterministically").
ReplayReproducesBook ==
  \A checkpoint \in {ckpt} \union ToSet(queued) :
    Visible(Replayed(checkpoint, wal, applied).b) = Visible(book)

\* Sequence numbers of the log increase strictly, through crashes that leave
\* the checkpoint ahead of the log (recover's next_seq).
WalIncreases == \A i, j \in DOMAIN wal : i < j => wal[i].seq < wal[j].seq

\* The dedup window holds every order the retained log accepted, also those
\* from before the checkpoint (rebuild_dedup_window).
DedupCoversWal == \A i \in DOMAIN wal : wal[i].rec.ev = "accepted" => wal[i].rec.oid \in ToSet(seen)

\* A restart goes on where its log ends, in numbers and in the orders it knows.
RestartContinuesLog == WalIncreases /\ DedupCoversWal

\* A resend does not execute twice: no two resting orders share an order id.
NoDoubleExecution ==
  \A g, h \in Handles : book.orders[g].oid = book.orders[h].oid => g = h

\* Every trade that moved a position of the book is a fill in the log (the
\* ME WAL "retains all fills").
PositionsMatchWal ==
  \A u \in Users :
    LET signed(i) ==
          LET f == wal[i].rec
              qty == IF sent[f.taker].side = "buy" THEN f.qty ELSE -f.qty
          IN (IF sent[f.taker].user = u THEN qty ELSE 0) - (IF sent[f.maker].user = u THEN qty ELSE 0)
    IN book.users[u].net = Sum(signed, {i \in DOMAIN wal : wal[i].rec.ev = "fill"})
=============================================================================
