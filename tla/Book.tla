-------------------------------- MODULE Book --------------------------------
(***************************************************************************)
(* The order book and its matching algorithm (rsx-book/src/book.rs,        *)
(* matching.rs, migration.rs, user.rs and slab.rs) as operators from a     *)
(* book to the book after the call.  A book is the record                  *)
(*   orders   handle -> resting order, for the handles in use              *)
(*   free     the slab's free list, head first;  bump  slots ever used     *)
(*   levels   slot -> [queue, total, count], for the slots not pristine    *)
(*   occ      side -> slots whose occupancy bit is set                     *)
(*   best     side -> [slot, px] of the best level                         *)
(*   comp     the compression map;  asc  its ranges, price ascending       *)
(*   tick, lot  the live symbol config                                     *)
(*   users    user -> [known, net, orders, idle]                           *)
(*   seq      insertions so far;  events  the event buffer                 *)
(* A level's linked list is the sequence of its handles.                   *)
(***************************************************************************)
EXTENDS OrderRequests, Compression, SequencesExt

CONSTANT Capacity    \* slots of the order slab

Sides == {"buy", "sell"}
Opposite(side) == IF side = "buy" THEN "sell" ELSE "buy"

NoSlot == -1
NoBest == [slot |-> NoSlot, px |-> 0]
EmptyLevel == [queue |-> <<>>, total |-> 0, count |-> [s \in Sides |-> 0]]
UnknownUser == [known |-> FALSE, net |-> 0, orders |-> 0, idle |-> FALSE]

\* Orderbook::new.
NewBook(mid, tick, lot) ==
  [orders |-> <<>>, free |-> <<>>, bump |-> 0,
   levels |-> <<>>, occ |-> [s \in Sides |-> {}], best |-> [s \in Sides |-> NoBest],
   comp |-> CompressionMap(mid, tick), asc |-> PriceAsc(CompressionMap(mid, tick)),
   tick |-> tick, lot |-> lot,
   users |-> [u \in Users |-> UnknownUser], seq |-> 0, events |-> <<>>]

\* A function with one point replaced, or removed.
Put(f, x, v) == [y \in DOMAIN f \union {x} |-> IF y = x THEN v ELSE f[y]]
Drop(f, x) == [y \in DOMAIN f \ {x} |-> f[y]]

Level(b, slot) == IF slot \in DOMAIN b.levels THEN b.levels[slot] ELSE EmptyLevel
WithLevel(b, slot, l) ==
  [b EXCEPT !.levels = IF l = EmptyLevel THEN Drop(@, slot) ELSE Put(@, slot, l)]

Emit(b, e) == [b EXCEPT !.events = Append(@, e)]

\* A price the first argument's side prefers to the other.
Better(side, p, q) == IF side = "buy" THEN p > q ELSE p < q

\* is_crossing, for a maker of the opposite side.
Crosses(takerSide, px, limit) == IF takerSide = "buy" THEN px <= limit ELSE px >= limit

SumQty(b, handles) == FoldLeft(LAMBDA total, h : total + b.orders[h].qty, 0, handles)

-----------------------------------------------------------------------------
(* Users: UserRegistry, its slots abstracted to the user they belong to.   *)

\* get_or_assign.
Assigned(b, u) ==
  [b EXCEPT !.users[u] = IF @.known THEN [@ EXCEPT !.idle = FALSE]
                                    ELSE [UnknownUser EXCEPT !.known = TRUE]]

AddOrder(b, u) == [Assigned(b, u) EXCEPT !.users[u].orders = @ + 1]

RemoveOrder(b, u) ==
  IF b.users[u].known
  THEN [b EXCEPT !.users[u].orders = AtLeast(@ - 1, 0)] ELSE b

ApplyFill(b, taker, maker, side, qty) ==
  LET signed == IF side = "buy" THEN qty ELSE -qty
      afterTaker == [Assigned(b, taker) EXCEPT !.users[taker].net = @ + signed]
  IN [Assigned(afterTaker, maker) EXCEPT !.users[maker].net = @ - signed]

\* maintain_one, at a slot assigned to u; graceOver: RECLAIM_GRACE_NS passed.
MaintainUser(b, u, graceOver) ==
  IF ~b.users[u].known THEN b
  ELSE IF b.users[u].net # 0 \/ b.users[u].orders # 0 THEN [b EXCEPT !.users[u].idle = FALSE]
  ELSE IF ~b.users[u].idle THEN [b EXCEPT !.users[u].idle = TRUE]
  ELSE IF graceOver THEN [b EXCEPT !.users[u] = UnknownUser] ELSE b

-----------------------------------------------------------------------------
(* The best level of a side.                                               *)

SidePrices(b, side, slot) ==
  {b.orders[h].px : h \in {x \in ToSet(Level(b, slot).queue) : b.orders[x].side = side}}

\* bid_top_at and ask_top_at: best price of the side in the slot, and the
\* resting quantity at that price.
TopAt(b, side, slot) ==
  LET level == Level(b, slot)
      px == CHOOSE p \in SidePrices(b, side, slot) :
              \A q \in SidePrices(b, side, slot) : ~Better(side, q, p)
  IN IF slot = NoSlot \/ level.count[side] = 0 THEN [px |-> 0, qty |-> 0]
     ELSE IF slot < b.comp.slots[0]
     THEN [px |-> b.orders[Head(level.queue)].px, qty |-> level.total]
     ELSE [px |-> px, qty |-> SumQty(b, SelectSeq(level.queue, LAMBDA h :
                                b.orders[h].side = side /\ b.orders[h].px = px))]

\* The occupied slots of a side in the order a taker meets them: the ranges
\* of price_asc upwards for sells, downwards for buys.
WalkLevels(b, side) ==
  LET held == SelectSeq(b.asc, LAMBDA r : \E s \in b.occ[side] : InRange(s, r))
      ascending == FlattenSeq([i \in DOMAIN held |->
        SetToSortSeq({s \in b.occ[side] : InRange(s, held[i])}, <)])
  IN IF side = "sell" THEN ascending ELSE Reverse(ascending)

\* scan_next_bid and scan_next_ask.
ScanNext(b, side) ==
  LET walk == WalkLevels(b, side)
  IN IF walk = <<>> THEN NoSlot ELSE Head(walk)

\* refresh_best_bid and refresh_best_ask.
RefreshBest(b, side) ==
  LET slot == ScanNext(b, side)
  IN [b EXCEPT !.best[side] = [slot |-> slot, px |-> TopAt(b, side, slot).px]]

\* current_bbo.
Bbo(b) == [ev |-> "bbo", bid |-> TopAt(b, "buy", b.best["buy"].slot),
                         ask |-> TopAt(b, "sell", b.best["sell"].slot)]

\* The best price can move while its slot stays, so both are compared.
EmitBboIfMoved(b, before) == IF b.best = before.best THEN b ELSE Emit(b, Bbo(b))

-----------------------------------------------------------------------------
(* Resting orders.                                                         *)

\* Links handle h, holding order o, at the tail of its slot: the common part
\* of insert_resting and migrate_single_level.
Link(b, h, o) ==
  LET slot == PriceToIndex(b.comp, o.px)
      level == Level(b, slot)
      linked == WithLevel(b, slot,
        [queue |-> Append(level.queue, h), total |-> level.total + o.qty,
         count |-> [level.count EXCEPT ![o.side] = @ + 1]])
      best == b.best[o.side]
  IN [linked EXCEPT
        !.orders = Put(@, h, [o EXCEPT !.slot = slot]),
        !.occ[o.side] = IF level.count[o.side] = 0 THEN @ \union {slot} ELSE @,
        !.best[o.side] = IF best.slot = NoSlot \/ Better(o.side, o.px, best.px)
                         THEN [slot |-> slot, px |-> o.px] ELSE @]

\* Slab::alloc; the caller bounds the number of resting orders.
NextHandle(b) == IF b.free = <<>> THEN b.bump ELSE Head(b.free)

Alloc(b) == IF b.free = <<>> THEN [b EXCEPT !.bump = @ + 1]
                             ELSE [b EXCEPT !.free = Tail(@)]

\* insert_resting, for the residual of taker t.
InsertResting(b, t) ==
  LET o == [oid |-> t.oid, user |-> t.user, side |-> t.side, px |-> t.px, qty |-> t.rem,
            orig |-> t.rem, ro |-> t.ro, slot |-> NoSlot, seq |-> b.seq + 1]
  IN AddOrder([Link(Alloc(b), NextHandle(b), o) EXCEPT !.seq = @ + 1], t.user)

\* unlink_order, but for the occupancy bits.
Unqueued(b, h) ==
  LET o == b.orders[h]
      level == Level(b, o.slot)
  IN WithLevel(b, o.slot, [queue |-> SelectSeq(level.queue, LAMBDA x : x # h),
                           total |-> level.total - o.qty,
                           count |-> [level.count EXCEPT ![o.side] = AtLeast(@ - 1, 0)]])

\* Mutant of Unlink: the occupancy bit stays set.
UnlinkKeepsBit(b, h) == Unqueued(b, h)

\* unlink_order: the side's occupancy bit goes with its last order.
Unlink(b, h) ==
  LET slot == b.orders[h].slot
      side == b.orders[h].side
      unlinked == Unqueued(b, h)
  IN [unlinked EXCEPT !.occ[side] =
        IF Level(unlinked, slot).count[side] = 0 THEN @ \ {slot} ELSE @]

\* set_active(false), Slab::free and remove_order.
Release(b, h) ==
  RemoveOrder([b EXCEPT !.orders = Drop(@, h), !.free = <<h>> \o @], b.orders[h].user)

\* Mutant of CancelOrder: the best level is recomputed only if its slot emptied.
CancelOrderStaleBest(b, h) ==
  LET o == b.orders[h]
      unlinked == Unlink(b, h)
      refreshed == IF o.slot = b.best[o.side].slot /\ Level(unlinked, o.slot) = EmptyLevel
                   THEN RefreshBest(unlinked, o.side) ELSE unlinked
  IN Release(refreshed, h)

\* cancel_order.
CancelOrder(b, h) ==
  LET o == b.orders[h]
      unlinked == Unlink(b, h)
      refreshed == IF o.slot = b.best[o.side].slot THEN RefreshBest(unlinked, o.side)
                                                   ELSE unlinked
  IN Release(refreshed, h)

\* order_matches: a handle in use by exactly that order.
OrderMatches(b, h, user, oid) ==
  h \in DOMAIN b.orders /\ b.orders[h].user = user /\ b.orders[h].oid = oid
=============================================================================
