---------------------------- MODULE RiskTrading -----------------------------
(***************************************************************************)
(* The live loop of a risk shard: the records of the matching engine, the  *)
(* gateway's orders and cancels and the mark prices are applied as they    *)
(* arrive, and each pass ends with the tick and the drain of the two       *)
(* rings.  What the shard writes to Postgres, and what becomes of it when  *)
(* the shard dies, is in RiskRecovery.                                     *)
(***************************************************************************)
EXTENDS RiskAccounts

CONSTANTS
  Requests,     \* [ids -> order]: the orders the gateway forwards, in that order
  Cancellable,  \* the orders among them their users may cancel
  Marks,        \* the mark prices that arrive
  Bbos,         \* the best bids and offers that arrive
  RingCap,      \* capacity of the command ring and of the response ring
  FirstLiqId,   \* ids of liquidation orders count up from here
  MaxTime,      \* seconds
  MaxPrices,    \* marks and BBOs that arrive
  MaxFails      \* commands that reach neither the log nor the wire

VARIABLES
  shard,        \* the shard's memory
  ring,         \* commands for the engine, in this pass
  resp,         \* responses for the gateway, in this pass: how many
  me,           \* the engine
  log,          \* its records the shard has not read
  todo,         \* gateway orders that have not arrived
  now,
  prices,       \* price updates so far
  fails,        \* failed sends so far
  nextId,       \* id of the next liquidation order
  fees,         \* fees the users paid
  spared,       \* orders let in during their user's liquidation, or whose
                \* cancel was not sent
  stale         \* users whose margin changed behind their last check

vars == <<shard, ring, resp, me, log, todo, now, prices, fails, nextId, fees, spared, stale>>

Init ==
  /\ shard = NewShard
  /\ ring = <<>> /\ resp = 0
  /\ me = [book |-> <<>>, pos |-> [u \in Users |-> 0], seq |-> 0]
  /\ log = <<>>
  /\ todo = DOMAIN Requests
  /\ now = 0 /\ prices = 0 /\ fails = 0
  /\ nextId = FirstLiqId
  /\ fees = 0 /\ spared = {} /\ stale = {}

-----------------------------------------------------------------------------
(* The matching engine: price-time priority, reduce-only orders clamped to *)
(* the position, immediate orders done at once.                            *)

Fill(m, o, r, qty) ==
  [type |-> "fill", seq |-> m.seq + 1, taker |-> o.user, maker |-> r.user,
   side |-> o.side, price |-> r.price, qty |-> qty]
End(type, o) == [type |-> type, id |-> o.id, user |-> o.user]

Crosses(o, r) ==
  /\ o.side # r.side
  /\ IF o.side = "buy" THEN o.price >= r.price ELSE o.price <= r.price

\* One resting order r against what is left of o.  A step of a match is
\* [m, left, out].
MatchOne(a, o, r) ==
  LET qty == Min({a.left, r.qty})
      signed == IF o.side = "buy" THEN qty ELSE -qty
  IN IF a.left = 0 \/ ~Crosses(o, r)
     THEN [a EXCEPT !.m.book = Append(@, r)]
     ELSE [m |-> [a.m EXCEPT !.seq = @ + 1,
                             !.pos = [u \in Users |->
                                @[u] + (IF u = o.user THEN signed ELSE 0)
                                     - (IF u = r.user THEN signed ELSE 0)],
                             !.book = IF r.qty = qty THEN @
                                      ELSE Append(@, [r EXCEPT !.qty = @ - qty])],
           left |-> a.left - qty,
           out |-> a.out \o <<Fill(a.m, o, r, qty)>>
                         \o (IF r.qty = qty THEN <<End("done", r)>> ELSE <<>>)]

MeOrder(m, o) ==
  LET held == IF o.side = "sell" THEN m.pos[o.user] ELSE -m.pos[o.user]
      qty == IF o.reduceOnly THEN Max({0, Min({o.qty, held})}) ELSE o.qty
      start == [m |-> [m EXCEPT !.book = <<>>], left |-> qty, out |-> <<>>]
      end == FoldLeft(LAMBDA a, r : MatchOne(a, o, r), start, m.book)
  IN IF qty = 0 THEN [m |-> m, out |-> <<End("failed", o)>>]
     ELSE IF end.left > 0 /\ o.rests
     THEN [m |-> [end.m EXCEPT !.book = Append(@, [o EXCEPT !.qty = end.left])],
           out |-> end.out]
     ELSE [m |-> end.m, out |-> Append(end.out, End("done", o))]

MeCancel(m, id) ==
  LET found == SelectSeq(m.book, LAMBDA r : r.id = id)
  IN [m |-> [m EXCEPT !.book = SelectSeq(@, LAMBDA r : r.id # id)],
      out |-> [i \in DOMAIN found |-> End("done", found[i])]]

-----------------------------------------------------------------------------
(* The pass: records, orders and prices                                    *)

\* A record of the engine's log is applied; an end of an order releases its
\* reservation.
ApplyRecord ==
  /\ log # <<>>
  /\ log' = Tail(log)
  /\ LET rec == Head(log)
     IN \/ /\ rec.type = "fill"
           /\ shard' = ProcessFill(shard, rec, now)
           /\ fees' = fees + CalculateFee(rec.qty, rec.price, TakerBps)
                           + CalculateFee(rec.qty, rec.price, MakerBps)
           /\ stale' = stale \ {rec.taker, rec.maker}
        \/ /\ rec.type \in {"done", "failed"}
           /\ shard' = ReleaseFrozenForOrder(shard, rec.user, rec.id)
           /\ UNCHANGED <<fees, stale>>
  /\ UNCHANGED <<ring, resp, me, todo, now, prices, fails, nextId, spared>>

\* The loop stops reading the gateway's socket while a ring is full.
Room == Len(ring) < RingCap /\ resp < RingCap

Order(o) == [kind |-> "order", id |-> o.id, order |-> o]
Cancel(id) == [kind |-> "cancel", id |-> id]

InLiquidation(u) == \E i \in DOMAIN shard.active : shard.active[i].user = u

ProcessOrder(id) ==
  LET gate == Gate(shard, Requests[id])
  IN /\ Room
     /\ id \in todo /\ \A other \in todo : id <= other
     /\ todo' = todo \ {id}
     /\ shard' = gate.shard
     /\ ring' = IF gate.ok THEN Append(ring, Order(Requests[id])) ELSE ring
     /\ resp' = resp + 1
     /\ spared' = IF gate.ok /\ InLiquidation(Requests[id].user)
                  THEN spared \union {id} ELSE spared
     /\ UNCHANGED <<me, log, now, prices, fails, nextId, fees, stale>>

\* A cancel is passed on.
ProcessCancel(id) ==
  /\ Room
  /\ id \in Cancellable \ todo
  /\ ~Contains(ring, Cancel(id))
  /\ \E i \in DOMAIN me.book : me.book[i].id = id
  /\ ring' = Append(ring, Cancel(id))
  /\ UNCHANGED <<shard, resp, me, log, todo, now, prices, fails, nextId, fees, spared, stale>>

PriceArrives == prices < MaxPrices /\ prices' = prices + 1

\* No margin is checked on a mark.
MarkArrives(price) ==
  /\ PriceArrives
  /\ shard.mark # price
  /\ shard' = UpdateMark(shard, price)
  /\ stale' = Users
  /\ UNCHANGED <<ring, resp, me, log, todo, now, fails, nextId, fees, spared>>

\* The latest BBO waits for the tick.
StashBbo(bbo) ==
  /\ PriceArrives
  /\ shard' = [shard EXCEPT !.stashed = bbo]
  /\ UNCHANGED <<ring, resp, me, log, todo, now, fails, nextId, fees, spared, stale>>

-----------------------------------------------------------------------------
(* The pass: tick                                                          *)

\* A tick in progress: [shard, ring, resp, id, full], full once it was
\* abandoned on a full ring.
HasRoom(t) == Len(t.ring) < RingCap /\ t.resp < RingCap

DrainPendingCancels(t) ==
  FoldLeft(LAMBDA a, id :
             IF Len(a.ring) >= RingCap
             THEN [a EXCEPT !.shard.cancels = Append(@, id)]
             ELSE IF id \in DOMAIN a.shard.frozen
             THEN [a EXCEPT !.ring = Append(@, Cancel(id))]
             ELSE a,
           [t EXCEPT !.shard.cancels = <<>>], t.shard.cancels)

\* One liquidation order.  On a full ring the tick is given up, with this
\* order and the ones behind it.
PlaceRound(t, e) ==
  LET order == LiqToOrder(t.shard, e, t.id)
      gate == Gate(t.shard, order)
  IN IF t.full \/ ~HasRoom(t) THEN [t EXCEPT !.full = TRUE]
     ELSE IF ~gate.ok THEN [t EXCEPT !.shard = gate.shard]
     ELSE [t EXCEPT !.shard = gate.shard, !.ring = Append(@, Order(order)),
                    !.resp = @ + 1, !.id = @ + 1]

\* One socialized loss; its notice is dropped when the ring is full.
Socialize(t, e) ==
  LET moved == ProcessSocializedLoss(t.shard, e.user)
  IN [t EXCEPT !.shard = moved,
               !.resp = IF moved # t.shard /\ @ < RingCap THEN @ + 1 ELSE @]

\* tick: stalled while a ring is full; else cancels, liquidation rounds,
\* socialized losses, the stashed BBO and funding.
TickShard(t) ==
  LET cancelled == DrainPendingCancels(t)
      priced == [cancelled EXCEPT !.shard = RebuildFallback(@)]
      advanced == [priced EXCEPT !.shard = MaybeProcess(@, now)]
      placed == FoldLeft(PlaceRound, advanced, RoundsOf(priced.shard, now, "order"))
      losses == FoldLeft(Socialize, placed, RoundsOf(priced.shard, now, "loss"))
  IN IF ~HasRoom(t) THEN t
     ELSE IF placed.full THEN placed
     ELSE [losses EXCEPT
             !.shard = MaybeSettleFunding(DrainStashedBbos(RemoveDone(@), now), now)]

\* Mutant of Send: the reservation of an order that was not sent is kept.
SendKeepsFreeze(a, command, failed) ==
  IF failed THEN a
  ELSE LET end == IF command.kind = "cancel" THEN MeCancel(a.me, command.id)
                  ELSE MeOrder(a.me, command.order)
       IN [a EXCEPT !.me = end.m, !.log = @ \o end.out]

\* One command of the ring is sent: the engine acts on it, or the send fails,
\* and an order's reservation is released.
Send(a, command, failed) ==
  IF failed
  THEN IF command.kind = "cancel" THEN a
       ELSE [a EXCEPT !.shard = ReleaseFrozenForOrder(@, command.order.user, command.id)]
  ELSE LET end == IF command.kind = "cancel" THEN MeCancel(a.me, command.id)
                  ELSE MeOrder(a.me, command.order)
       IN [a EXCEPT !.me = end.m, !.log = @ \o end.out]

\* The end of a pass: the tick, then both rings are emptied, with any of the
\* sends failing.
Started == [shard |-> shard, ring |-> ring, resp |-> resp, id |-> nextId, full |-> FALSE]

Sent(t, failed) ==
  FoldLeft(LAMBDA a, i : Send(a, t.ring[i], i \in failed),
           [shard |-> t.shard, me |-> me, log |-> log], [i \in DOMAIN t.ring |-> i])

EndOfPass ==
  \E t \in {TickShard(Started)} : \E failed \in SUBSET DOMAIN t.ring :
    /\ fails + Cardinality(failed) <= MaxFails
    /\ fails' = fails + Cardinality(failed)
    /\ \E end \in {Sent(t, failed)} : shard' = end.shard /\ me' = end.me /\ log' = end.log
    /\ ring' = <<>> /\ resp' = 0
    /\ nextId' = t.id
    /\ stale' = (IF shard.stashed # None /\ t.shard.stashed = None THEN {} ELSE stale)
                  \union {u \in Users : t.shard.acct[u] # shard.acct[u]}
    /\ spared' = spared \union {t.ring[i].id : i \in failed}
    /\ UNCHANGED <<todo, now, prices, fees>>

\* The clock is read once a pass; a pass is far shorter than a second, and so
\* is the way from the engine.
Second ==
  /\ now < MaxTime
  /\ ring = <<>> /\ resp = 0 /\ log = <<>>
  /\ now' = now + 1
  /\ UNCHANGED <<shard, ring, resp, me, log, todo, prices, fails, nextId, fees, spared, stale>>

Next ==
  \/ ApplyRecord
  \/ \E id \in DOMAIN Requests : ProcessOrder(id) \/ ProcessCancel(id)
  \/ \E price \in Marks : MarkArrives(price)
  \/ \E bbo \in Bbos : StashBbo(bbo)
  \/ EndOfPass
  \/ Second

Spec == Init /\ [][Next]_vars
-----------------------------------------------------------------------------
(* Properties                                                              *)

\* The type of every variable, and the capacity of the rings.
TypeOK ==
  /\ shard.acct \in [Users -> Int]
  /\ shard.tip \in Nat /\ shard.fund \in Int /\ shard.dirty \in BOOLEAN
  /\ \A i \in DOMAIN shard.active : shard.active[i].round \in 1 .. MaxRounds + 1
  /\ Len(ring) <= RingCap /\ resp \in 0 .. RingCap
  /\ todo \subseteq DOMAIN Requests
  /\ now \in 0 .. MaxTime /\ prices \in 0 .. MaxPrices /\ fails \in 0 .. MaxFails
  /\ stale \subseteq Users

Ids(seq) == {seq[i].id : i \in DOMAIN seq}
Ended == Ids(SelectSeq(log, LAMBDA rec : rec.type # "fill"))
Outstanding == Ids(SelectSeq(ring, LAMBDA c : c.kind = "order")) \union Ids(me.book) \union Ended

\* Margin is reserved for exactly the orders whose end the shard has yet to
\* read: in the ring, in the engine's book, or ended in its unread log
\* (process_order, release_frozen_for_order, the failed send in run).
ReservedIsOutstanding == DOMAIN shard.frozen = Outstanding

\* The per-user index that margin is computed from, and the reservations by
\* order, are the same reservations (freeze, release_frozen_for_order).
IndexAgrees ==
  \A u \in Users :
    /\ DOMAIN shard.byUser[u] = {o \in DOMAIN shard.frozen : shard.frozen[o].user = u}
    /\ \A o \in DOMAIN shard.byUser[u] : shard.byUser[u][o] = shard.frozen[o].amount

SignedQty(rec, u) ==
  LET signed == IF rec.side = "buy" THEN rec.qty ELSE -rec.qty
  IN (IF rec.taker = u THEN signed ELSE 0) - (IF rec.maker = u THEN signed ELSE 0)

Unread(u) ==
  LET fills == SelectSeq(log, LAMBDA rec : rec.type = "fill")
  IN MapThenSumSet(LAMBDA i : SignedQty(fills[i], u), DOMAIN fills)

\* Each position is the sum of the fills the shard has read, the engine's
\* position less the unread ones, through opening, closing and flipping
\* (invariant #4, apply_fill); one leg is empty, and an empty leg cost
\* nothing.
PositionIsSumOfFills ==
  \A u \in Users :
    LET p == shard.pos[u]
    IN /\ NetQty(p) = me.pos[u] - Unread(u)
       /\ p.qty.buy = 0 \/ p.qty.sell = 0
       /\ \A leg \in {"buy", "sell"} : p.qty[leg] = 0 => p.cost[leg] = 0

\* The index the margin scan and funding walk has exactly the users with an
\* open position, each once (update_exposure).
ExposedAreOpen ==
  /\ ToSet(shard.exposed) = {u \in Users : ~IsEmpty(shard.pos[u])}
  /\ IsInjective(shard.exposed)

\* All that margin is computed from agrees with the orders and fills:
\* reservations, their index, positions and the users with an open one.
MarginInputsAgree ==
  ReservedIsOutstanding /\ IndexAgrees /\ PositionIsSumOfFills /\ ExposedAreOpen

\* Money only moves: what the users and the fund hold, and the fees paid, add
\* up to what they started with, through socialized losses and funding
\* (process_socialized_loss; invariant #9, settle_symbol).
MoneyIsConserved ==
  LET held(acct) == MapThenSumSet(LAMBDA u : acct[u], Users)
  IN held(shard.acct) + shard.fund + fees = held(Collateral) + FundStart

AtCurrentPrice(s) == [s EXCEPT !.fallback = Fallback(s)]
Pursued(u) ==
  \/ InLiquidation(u)
  \/ \E i \in DOMAIN shard.cooling : shard.cooling[i].user = u

\* A user below maintenance margin is in liquidation or cooling from one, and
\* a user in liquidation is below it, unless a mark, funding or a socialized
\* loss changed the margin since its last check (check_liquidation_for,
\* drain_stashed_bbos).
PursuitFollowsMargin ==
  \A u \in Users \ stale : ~IsEmpty(shard.pos[u]) =>
    IF NeedsLiquidation(AtCurrentPrice(shard), u) THEN Pursued(u)
    ELSE ~InLiquidation(u)

\* Every price update is followed by a check: after a pass no user with an
\* open position is below maintenance margin and left alone.
MarginCheckedOnEveryPrice ==
  [][EndOfPass => \A u \in Users :
       /\ ~IsEmpty(shard'.pos[u])
       /\ NeedsLiquidation(AtCurrentPrice(shard'), u)
       => Pursued(u)']_vars

\* A user has one liquidation at a time (enqueue, remove_done).
OneLiquidation ==
  \A i, j \in DOMAIN shard.active :
    /\ i # j
    /\ shard.active[i].user = shard.active[j].user
    => ~Live(shard.active[i]) \/ ~Live(shard.active[j])

\* The order of any round would close the position without opening one, is no
\* less aggressive than the price, is on a tick, and passes the gate
\* (liq_to_order, round_to_tick, check_order).
RoundIsPlaceable ==
  LET s == RebuildFallback(shard)
  IN \A i \in DOMAIN shard.active :
       LET o == LiqToOrder(s, s.active[i], nextId)
           net == NetQty(s.pos[o.user])
       IN net # 0 /\ s.fallback > 0 =>
            /\ o.qty = Abs(net)
            /\ IF net > 0 THEN o.side = "sell" /\ o.price <= Max({s.fallback, Tick})
               ELSE o.side = "buy" /\ o.price >= s.fallback
            /\ o.price % Tick = 0
            /\ Gate(s, o).ok

\* The fund pays no more than the deficits there were at the prices of the
\* pass (process_socialized_loss).
FundPaysDeficits ==
  [][LET s == RebuildFallback(shard)
         deficit(u) == Max({0, -Calculate(s, u).equity})
     IN shard.fund - shard'.fund <= MapThenSumSet(deficit, Users)]_vars

\* Every funding interval since the first is settled once, oldest first,
\* however late (maybe_settle_funding).
EveryIntervalOnce ==
  LET n == Len(shard.charged)
  IN /\ shard.settled = IF n = 0 THEN None ELSE shard.charged[n]
     /\ \A i \in 1 .. n - 1 : shard.charged[i + 1] = shard.charged[i] + 1

\* Money is accounted for: it only moves, and funding moves it once for each
\* interval.
MoneyIsAccounted == MoneyIsConserved /\ EveryIntervalOnce

\* A user in liquidation has a cancel under way for each order that reserves
\* margin: queued, in the ring, or done by the engine (queue_cancels,
\* drain_pending_cancels); unless the order was let in, or its cancel lost,
\* since.
CancelsUnderWay ==
  \A o \in DOMAIN shard.frozen \ spared :
    InLiquidation(shard.frozen[o].user) /\ shard.frozen[o].amount > 0 =>
      Contains(shard.cancels, o) \/ Contains(ring, Cancel(o)) \/ o \in Ended

\* A liquidation is orderly: one per user, every round of it can be placed,
\* and what the user had resting is being cancelled.
LiquidationIsOrderly == OneLiquidation /\ RoundIsPlaceable /\ CancelsUnderWay
=============================================================================
