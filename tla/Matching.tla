------------------------------ MODULE Matching ------------------------------
(***************************************************************************)
(* The matching engine's handlers over the book: process_order and         *)
(* process_cancel (rsx-matching/src/order.rs, cancel.rs), the dedup window *)
(* (dedup.rs), the order index (wal.rs), and the idle and configuration    *)
(* steps of the loop.  An order request is identified by its arrival       *)
(* number, which stands for the globally unique order id of the gateway.   *)
(***************************************************************************)
EXTENDS MatchOrder

CONSTANTS MaxOrders,      \* bound on distinct order requests
          MaxEvictions,   \* bound on dedup keys that age out
          Mid, Tick, Lot, \* the book the engine boots with
          NewTicks        \* tick sizes a scheduled config may apply

ASSUME MatchingAssumption ==
  /\ MaxOrders + MaxEvictions <= Capacity
  /\ Mid \in Nat \ {0} /\ Tick \in Nat \ {0} /\ Lot \in Nat \ {0}

VARIABLES book,     \* the order book
          index,    \* (user, oid) -> handle: order_index
          seen,     \* the dedup window: its keys, oldest first
          sent,     \* the requests issued so far, by oid
          out,      \* records the last step wrote to the WAL and cast
          aged      \* number of keys evicted from the window so far
vars == <<book, index, seen, sent, out, aged>>

Init ==
  /\ book = NewBook(Mid, Tick, Lot)
  /\ index = <<>> /\ seen = <<>> /\ sent = <<>> /\ out = <<>> /\ aged = 0

Taker(oid, o) ==
  [oid |-> oid, user |-> o.user, side |-> o.side, px |-> o.px, qty |-> o.qty,
   rem |-> o.qty, tif |-> o.tif, ro |-> o.ro, po |-> o.po]

\* update_order_index.
UpdateOrderIndex(events, idx) ==
  FoldLeft(LAMBDA i, e : CASE e.ev = "inserted" -> Put(i, <<e.user, e.oid>>, e.handle)
                           [] e.ev = "done" -> Drop(i, <<e.user, e.oid>>)
                           [] OTHER -> i, idx, events)

\* publish_events, update_order_index and maybe_recenter, after a match.
Settle(oid, matched) ==
  /\ out' = <<[ev |-> "accepted", oid |-> oid]>> \o matched.events
  /\ index' = UpdateOrderIndex(matched.events, index)
  /\ book' = MaybeRecenter(matched)

\* process_order behind its dedup gate: OrderAccepted, match, publish, index,
\* recenter; a duplicate is only refused.
ProcessOrder(oid, o) ==
  IF oid \in ToSet(seen)
  THEN /\ out' = <<Failed(oid, o.user, "duplicate")>>
       /\ UNCHANGED <<book, index, seen>>
  ELSE /\ seen' = Append(seen, oid)
       /\ Settle(oid, ProcessNewOrder(book, Taker(oid, o)))

NewOrder(o) ==
  /\ Len(sent) < MaxOrders
  /\ sent' = Append(sent, o)
  /\ ProcessOrder(Len(sent) + 1, o)
  /\ UNCHANGED aged

\* A client or the transport delivers a request again.
Resend(oid) ==
  /\ aged < MaxEvictions \/ oid \in ToSet(seen)
  /\ ProcessOrder(oid, sent[oid])
  /\ UNCHANGED <<sent, aged>>

\* What process_cancel publishes of the book after cancel_order.
Cancelled(b, oid, user, rem) ==
  [b EXCEPT !.events = <<[ev |-> "cancelled", oid |-> oid, user |-> user, rem |-> rem],
                         Done(oid, user, "user_cancel", 0, rem)>>]

Publish(b) ==
  /\ book' = b
  /\ out' = b.events
  /\ index' = UpdateOrderIndex(b.events, index)

\* process_cancel, for an order the index knows; a miss only logs.
ProcessCancel(oid) ==
  LET user == sent[oid].user
      h == index[<<user, oid>>]
      rem == book.orders[h].qty
  IN /\ <<user, oid>> \in DOMAIN index
     /\ OrderMatches(book, h, user, oid)
     /\ Publish(EmitBboIfMoved(Cancelled(CancelOrder(book, h), oid, user, rem), book))
     /\ UNCHANGED <<seen, sent, aged>>

\* maintain_users, in an idle iteration of the loop.
Maintain(u) ==
  /\ \E graceOver \in BOOLEAN : book' = MaintainUser(book, u, graceOver)
  /\ out' = <<>>
  /\ UNCHANGED <<index, seen, sent, aged>>

\* maybe_cleanup: the oldest key leaves the dedup window after an hour.
Evict ==
  /\ aged < MaxEvictions /\ seen # <<>>
  /\ seen' = Tail(seen) /\ aged' = aged + 1
  /\ out' = <<>>
  /\ UNCHANGED <<book, index, sent>>

\* apply_due_configs: update_config swaps the tick and leaves the levels.
ApplyConfig(tick) ==
  /\ tick # book.tick
  /\ book' = [book EXCEPT !.tick = tick]
  /\ out' = <<[ev |-> "config", tick |-> tick]>>
  /\ UNCHANGED <<index, seen, sent, aged>>

Next ==
  \/ \E o \in Requests : NewOrder(o)
  \/ \E oid \in DOMAIN sent : Resend(oid)
  \/ \E oid \in DOMAIN sent : ProcessCancel(oid)
  \/ \E u \in Users : Maintain(u)
  \/ Evict
  \/ \E tick \in NewTicks : ApplyConfig(tick)

Spec == Init /\ [][Next]_vars

-----------------------------------------------------------------------------
Handles == DOMAIN book.orders
OnSide(side) == {h \in Handles : book.orders[h].side = side}
Sum(f(_), S) == FoldLeft(LAMBDA x, y : x + f(y), 0, SetToSeq(S))

TypeOK ==
  /\ Handles \subseteq 0 .. Capacity - 1
  /\ \A h \in Handles : /\ book.orders[h].qty \in 1 .. book.orders[h].orig
                        /\ book.orders[h].oid \in DOMAIN sent
  /\ DOMAIN book.levels \subseteq 0 .. TotalSlots(book.comp) - 1
  /\ ToSet(seen) \subseteq DOMAIN sent
  /\ \A k \in DOMAIN index : index[k] \in 0 .. Capacity - 1

\* Every incremental count agrees with the resting orders after any mix of
\* matches, cancels and recenters: each order is queued once, in the slot of
\* its price; a level's total, its per-side counts and both occupancy bits
\* are those of its queue (unlink_order, fill_level, migrate_single_level).
LevelsMatchOrders ==
  /\ \A slot \in DOMAIN book.levels :
       LET level == book.levels[slot]
           held == {h \in Handles : book.orders[h].slot = slot}
       IN /\ ToSet(level.queue) = held /\ Len(level.queue) = Cardinality(held)
          /\ level.total = Sum(LAMBDA h : book.orders[h].qty, held)
          /\ \A s \in Sides : level.count[s] = Cardinality(held \intersect OnSide(s))
  /\ \A h \in Handles : /\ book.orders[h].slot = PriceToIndex(book.comp, book.orders[h].px)
                        /\ book.orders[h].slot \in DOMAIN book.levels
  /\ \A s \in Sides : book.occ[s] = {book.orders[h].slot : h \in OnSide(s)}

\* The maintained best bid and ask are the true best prices and point at the
\* slot that holds them, in compressed slots and after recenters too.
BestIsBest ==
  \A s \in Sides :
    IF OnSide(s) = {} THEN book.best[s] = NoBest
    ELSE \E h \in OnSide(s) :
           /\ book.best[s] = [slot |-> book.orders[h].slot, px |-> book.orders[h].px]
           /\ \A g \in OnSide(s) : ~Better(s, book.orders[g].px, book.orders[h].px)

\* The slab leaks no handle and hands none out twice: every slot ever used
\* holds one resting order or is once on the free list (slab.rs invariant 8).
SlabNoLeak ==
  /\ Handles \union ToSet(book.free) = 0 .. book.bump - 1
  /\ Handles \intersect ToSet(book.free) = {}
  /\ Len(book.free) = Cardinality(ToSet(book.free))

\* A key of the index points at a live slot of that very order (what
\* process_cancel relies on), also when a request was executed again after
\* its dedup key aged out.  Until then every resting order has its key, so
\* it can be cancelled (update_order_index).
IndexMatchesBook ==
  LET key(h) == <<book.orders[h].user, book.orders[h].oid>>
  IN /\ \A k \in DOMAIN index : index[k] \in Handles /\ key(index[k]) = k
     /\ aged = 0 => \A h \in Handles : key(h) \in DOMAIN index /\ index[key(h)] = h

\* Positions are zero-sum and a user's order count is what rests for it,
\* also across the reclaiming of idle users by maintain_one.
UsersMatchBook ==
  /\ Sum(LAMBDA u : book.users[u].net, Users) = 0
  /\ \A u \in Users :
       LET mine == {h \in Handles : book.orders[h].user = u}
       IN book.users[u].orders = Cardinality(mine)

\* All that the engine keeps beside the resting orders agrees with them:
\* levels and occupancy, the slab, the cancel index, and the users.
BookAgrees == LevelsMatchOrders /\ SlabNoLeak /\ IndexMatchesBook /\ UsersMatchBook

\* A handled request is answered by exactly one of OrderFailed, OrderDone and
\* OrderInserted, after all of its fills, whose quantities the Done reports;
\* a maker's Done follows its last fill (process_new_order invariants 1 and 2).
OneCompletion ==
  LET oid == out[1].oid
      ends == {i \in DOMAIN out : out[i].ev \in {"done", "failed", "inserted"} /\ out[i].oid = oid}
      fills == {i \in DOMAIN out : out[i].ev = "fill"}
  IN out # <<>> /\ out[1].ev = "accepted" =>
       /\ Cardinality(ends) = 1
       /\ \A i \in ends, j \in fills : j < i
       /\ \A i \in ends : out[i].ev = "done" =>
            out[i].filled = Sum(LAMBDA j : out[j].qty, fills)
       /\ \A i \in ends : out[i].ev = "failed" => fills = {}
       /\ \A j \in fills : Cardinality({i \in DOMAIN out :
            i < j /\ out[i].ev = "done" /\ out[i].oid = out[j].maker}) = 0

\* A fill-or-kill order trades in full or not at all (can_fill_fully decides
\* what the match loop will do).
FokAllOrNothing ==
  LET oid == out[1].oid
  IN out # <<>> /\ out[1].ev = "accepted" /\ sent[oid].tif = "FOK" =>
       \/ \A i \in DOMAIN out : out[i].ev # "fill"
       \/ \E i \in DOMAIN out : out[i].ev = "done" /\ out[i].oid = oid /\ out[i].rem = 0

\* Orders of one price stay queued in arrival order, through recenters too
\* (ARCHITECTURE invariant 3).
FifoWithinPrice ==
  \A slot \in DOMAIN book.levels :
    LET queue == book.levels[slot].queue
    IN \A i, j \in DOMAIN queue :
         i < j /\ book.orders[queue[i]].px = book.orders[queue[j]].px
           => book.orders[queue[i]].seq < book.orders[queue[j]].seq

RestingOrder(h) ==
  [oid |-> book.orders[h].oid, user |-> book.orders[h].user, side |-> book.orders[h].side,
   px |-> book.orders[h].px, qty |-> book.orders[h].qty, ro |-> book.orders[h].ro,
   seq |-> book.orders[h].seq]

Abstract == INSTANCE AbstractBook WITH
  Oids <- 1 .. MaxOrders,
  resting <- {RestingOrder(h) : h \in Handles},
  net <- [u \in Users |-> book.users[u].net],
  clock <- book.seq

\* No bid rests at or above an ask (ARCHITECTURE invariant 6): the property
\* proved of the abstract book, here of the engine's own.
NotCrossed == Abstract!NotCrossed

\* The engine implements the abstract price-time book: every execution takes
\* the makers in strict priority, whatever slots they share, and recenters,
\* maintenance and refusals change nothing.
ImplementsAbstract == Abstract!Spec
=============================================================================
