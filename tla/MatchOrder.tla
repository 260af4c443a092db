----------------------------- MODULE MatchOrder -----------------------------
(***************************************************************************)
(* process_new_order of rsx-book/src/matching.rs and the recentering of    *)
(* rsx-book/src/migration.rs.  A match in progress is the record [b, t] of *)
(* the book and the taker; t.rem is IncomingOrder::remaining_qty.          *)
(***************************************************************************)
EXTENDS Book

Done(oid, user, reason, filled, rem) ==
  [ev |-> "done", oid |-> oid, user |-> user, reason |-> reason,
   filled |-> filled, rem |-> rem]

Failed(oid, user, reason) ==
  [ev |-> "failed", oid |-> oid, user |-> user, reason |-> reason]

IsBudgetSpent(b) == Len(b.events) >= 2 * MaxMakers

IsMatchLimited(b, t) ==
  LET best == b.best[Opposite(t.side)]
  IN IsBudgetSpent(b) /\ best.slot # NoSlot /\ Crosses(t.side, best.px, t.px)

\* One fill of fill_level's loop.
FillMaker(m, h) ==
  LET o == m.b.orders[h]
      qty == AtMost(m.t.rem, o.qty)
      reduced == [m.b EXCEPT !.orders[h].qty = @ - qty,
                             !.levels[o.slot].total = @ - qty]
      filled == ApplyFill(
        Emit(reduced, [ev |-> "fill", handle |-> h, maker |-> o.oid, taker |-> m.t.oid,
                       px |-> o.px, qty |-> qty]),
        m.t.user, o.user, m.t.side, qty)
      done == Release(
        Emit(Unlink(filled, h), Done(o.oid, o.user, "filled", o.orig, 0)), h)
  IN [b |-> IF qty = o.qty THEN done ELSE filled, t |-> [m.t EXCEPT !.rem = @ - qty]]

\* fill_level: makers of the slot within limit, in arrival order.
FillLevel(m, slot, limit) ==
  LET step(n, h) ==
        IF /\ n.t.rem > 0
           /\ ~IsBudgetSpent(n.b)
           /\ n.b.orders[h].side # n.t.side
           /\ Crosses(n.t.side, n.b.orders[h].px, limit)
        THEN FillMaker(n, h) ELSE n
  IN FoldLeft(step, m, Level(m.b, slot).queue)

\* scan_crossing: the makers of the slot that cross the taker's limit.
CrossingMakers(m, slot) ==
  SelectSeq(Level(m.b, slot).queue, LAMBDA h :
    m.b.orders[h].side # m.t.side /\ Crosses(m.t.side, m.b.orders[h].px, m.t.px))

\* Mutant of MatchCompressedSlot: the slot is always walked in arrival order.
MatchCompressedSlotFifo(m, slot) == FillLevel(m, slot, m.t.px)

\* match_compressed_slot: arrival order when the taker takes every crossing
\* maker, else one price at a time, the best first.
MatchCompressedSlot(m, slot) ==
  LET makers == CrossingMakers(m, slot)
      room == AtLeast(MaxMakers - Len(m.b.events) \div 2, 0)
      prices == SetToSortSeq({m.b.orders[h].px : h \in ToSet(makers)},
                             LAMBDA p, q : Better(Opposite(m.t.side), p, q))
  IN IF SumQty(m.b, makers) <= m.t.rem /\ Len(makers) <= room
     THEN FillLevel(m, slot, m.t.px)
     ELSE FoldLeft(LAMBDA n, px : FillLevel(n, slot, px), m, prices)

MatchAtLevel(m, slot) ==
  IF slot < m.b.comp.slots[0] THEN FillLevel(m, slot, m.t.px)
                              ELSE MatchCompressedSlot(m, slot)

\* The match loop of process_new_order: best level by best level, until the
\* taker is done or the best no longer crosses.
RECURSIVE MatchBest(_)
MatchBest(m) ==
  LET side == Opposite(m.t.side)
      goOn(after) == IF after.t.rem = m.t.rem THEN after ELSE MatchBest(after)
  IN IF m.t.rem = 0 \/ m.b.best[side].slot = NoSlot THEN m
     ELSE goOn([MatchAtLevel(m, m.b.best[side].slot) EXCEPT !.b = RefreshBest(@, side)])

-----------------------------------------------------------------------------
(* can_fill_fully: walks the crossing levels in price order, counting      *)
(* quantity and makers; verdict is "open" until the walk returns.          *)

FokOrder(f, o, t) ==
  IF f.verdict # "open" \/ o.side = t.side \/ ~Crosses(t.side, o.px, t.px) THEN f
  ELSE [makers |-> f.makers + 1, total |-> f.total + o.qty,
        verdict |-> IF f.makers + 1 > MaxMakers THEN "no"
                    ELSE IF f.total + o.qty >= t.rem THEN "yes" ELSE "open"]

FokCompressed(f, b, slot, t) ==
  LET walked == FoldLeft(LAMBDA g, h : FokOrder(g, b.orders[h], t), f, Level(b, slot).queue)
      beyond == \A px \in SidePrices(b, Opposite(t.side), slot) : ~Crosses(t.side, px, t.px)
  IN IF walked.verdict = "open" /\ beyond THEN [walked EXCEPT !.verdict = "no"] ELSE walked

FokZoneZero(f, b, slot, t) ==
  LET level == Level(b, slot)
      count == level.count[Opposite(t.side)]
      head == SubSeq(level.queue, 1, MaxMakers - f.makers)
  IN IF ~Crosses(t.side, b.orders[Head(level.queue)].px, t.px) THEN [f EXCEPT !.verdict = "no"]
     ELSE IF f.makers + count > MaxMakers
     THEN [f EXCEPT !.verdict = IF f.total + SumQty(b, head) >= t.rem THEN "yes" ELSE "no"]
     ELSE [makers |-> f.makers + count, total |-> f.total + level.total,
           verdict |-> IF f.total + level.total >= t.rem THEN "yes" ELSE "open"]

CanFillFully(b, t) ==
  LET step(f, slot) ==
        IF f.verdict # "open" THEN f
        ELSE IF slot < b.comp.slots[0] THEN FokZoneZero(f, b, slot, t)
        ELSE FokCompressed(f, b, slot, t)
      start == [makers |-> 0, total |-> 0, verdict |-> "open"]
  IN FoldLeft(step, start, WalkLevels(b, Opposite(t.side))).verdict = "yes"

-----------------------------------------------------------------------------
(* process_new_order.                                                      *)

\* The reduce-only gate: the position does not oppose the order.
ReduceOnlyRefused(b, t) ==
  LET u == b.users[t.user]
  IN ~u.known \/ (IF t.side = "buy" THEN u.net >= 0 ELSE u.net <= 0)

\* A reduce-only order is cut to the position it reduces.
Clamped(b, t) ==
  LET net == b.users[t.user].net
  IN IF t.ro THEN [t EXCEPT !.rem = AtMost(@, IF net < 0 THEN -net ELSE net)] ELSE t

PostOnlyCrosses(b, t) ==
  LET best == b.best[Opposite(t.side)]
  IN best.slot # NoSlot /\ Crosses(t.side, best.px, t.px)

\* Fills are measured against the quantity the order set out to fill.
FilledQty(t, want) == want - t.rem

\* What becomes of the residual once matching stops; want is the quantity
\* the order set out to fill.
Finish(m, want) ==
  LET t == m.t
      done(reason) == Emit(m.b, Done(t.oid, t.user, reason, FilledQty(t, want), t.rem))
      inserted == Emit(InsertResting(m.b, t),
        [ev |-> "inserted", oid |-> t.oid, user |-> t.user, handle |-> NextHandle(m.b)])
  IN IF t.rem = 0 THEN done("filled")
     ELSE IF IsMatchLimited(m.b, t) THEN done("match_limit")
     ELSE CASE t.tif = "IOC" -> done("expired")
            [] t.tif = "FOK" -> Emit(m.b, Failed(t.oid, t.user, "fill_or_kill"))
            [] t.tif = "GTC" -> inserted

ProcessNewOrder(book, order) ==
  LET b == [book EXCEPT !.events = <<>>]
      t == Clamped(b, order)
      refuse(e) == Emit(b, e)
      badTick == order.px <= 0 \/ order.px % b.tick # 0
      badLot == order.qty <= 0 \/ order.qty % b.lot # 0
  IN IF badTick THEN refuse(Failed(t.oid, t.user, "invalid_tick"))
     ELSE IF badLot THEN refuse(Failed(t.oid, t.user, "invalid_lot"))
     ELSE IF t.ro /\ ReduceOnlyRefused(b, t) THEN refuse(Failed(t.oid, t.user, "reduce_only"))
     ELSE IF t.po /\ PostOnlyCrosses(b, t) THEN refuse(Done(t.oid, t.user, "post_only", 0, t.rem))
     ELSE IF t.tif = "FOK" /\ ~CanFillFully(b, t) THEN refuse(Failed(t.oid, t.user, "fill_or_kill"))
     ELSE EmitBboIfMoved(Finish(MatchBest([b |-> b, t |-> t]), t.rem), b)

-----------------------------------------------------------------------------
(* Recentering: recenter_now, guarded as maybe_recenter guards it.         *)

\* migrate_single_level for the old slots in turn, into the emptied book.
Migrated(b, new, slots) ==
  FoldLeft(LAMBDA n, slot : FoldLeft(LAMBDA k, h : Link(k, h, b.orders[h]),
                                     n, Level(b, slot).queue), new, slots)

\* trigger_recenter moves the slot of the new mid first, then
\* complete_migration_eager every other slot from 0 up.
RecenterNow(b, mid) ==
  LET first == PriceToIndex(b.comp, mid)
      slots == <<first>> \o SetToSortSeq(DOMAIN b.levels \ {first}, <)
      comp == CompressionMap(mid, b.tick)
      emptied == [b EXCEPT !.comp = comp, !.asc = PriceAsc(comp), !.levels = <<>>,
                           !.occ = [s \in Sides |-> {}], !.best = [s \in Sides |-> NoBest]]
  IN Migrated(b, emptied, slots)

MaybeRecenter(b) ==
  LET mid == (b.best["buy"].px + b.best["sell"].px) \div 2
      drifted == Distance(b.comp, mid) > b.comp.threshold[0] \div 2
  IN IF (\A s \in Sides : b.best[s].slot # NoSlot) /\ drifted THEN RecenterNow(b, mid) ELSE b
=============================================================================
