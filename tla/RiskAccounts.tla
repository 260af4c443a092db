---------------------------- MODULE RiskAccounts ----------------------------
(***************************************************************************)
(* What a risk shard computes over one symbol's accounts: positions,       *)
(* margin, reservations, prices, liquidation rounds, the insurance fund    *)
(* and funding.  A shard is a record; an operation takes one and returns   *)
(* one.  Amounts are integers far from the width of i64, where the code    *)
(* saturates.                                                              *)
(***************************************************************************)
EXTENDS Integers, Sequences, SequencesExt, FiniteSetsExt

CONSTANTS
  UserSeq,      \* the shard's users, in the order of their ids
  Collateral,   \* [Users -> Int] what they start with
  ImBps, MmBps, \* initial and maintenance margin rates
  MaxLeverage,  \* 0: no cap
  MinNotional,
  TakerBps, MakerBps,
  Tick,         \* price tick of the symbol
  BaseDelay, BaseSlip, MaxSlip, MaxRounds, Cooldown, \* of the liquidation engine
  FundingEvery, FundingMin, FundingMax,
  FundStart,    \* the insurance fund's balance
  FirstIndex,   \* index price of the BBOs read in catch-up, 0: there were none
  None

ASSUME AccountsAssumption ==
  /\ IsInjective(UserSeq)
  /\ Collateral \in [ToSet(UserSeq) -> Int]
  /\ {ImBps, MmBps, MaxLeverage, MinNotional, BaseDelay, BaseSlip, MaxRounds, Cooldown}
        \subseteq Nat
  /\ MaxSlip \in 0 .. 10000
  /\ FundingEvery \in Nat \ {0} /\ FundingMin <= FundingMax
  /\ MmBps <= ImBps

Users == ToSet(UserSeq)
Abs(n) == IF n < 0 THEN -n ELSE n
Opposite(side) == IF side = "buy" THEN "sell" ELSE "buy"

-----------------------------------------------------------------------------
(* Positions.  The long leg is under "buy", the short one under "sell".    *)

Flat == [qty |-> [buy |-> 0, sell |-> 0], cost |-> [buy |-> 0, sell |-> 0], pnl |-> 0]

CalculateFee(qty, price, bps) == (qty * price * bps) \div 10000

\* A fill closes the opposite leg first, at its average cost; the rest opens
\* or grows the leg of its own side.
ApplyFill(p, side, price, qty) ==
  LET opp == Opposite(side)
      close == Min({qty, p.qty[opp]})
      closeCost == IF close = 0 THEN 0 ELSE (p.cost[opp] * close) \div p.qty[opp]
      gain == closeCost - price * close
      open == qty - close
  IN [p EXCEPT !.qty[opp] = @ - close, !.cost[opp] = @ - closeCost,
               !.pnl = IF side = "buy" THEN @ + gain ELSE @ - gain,
               !.qty[side] = @ + open, !.cost[side] = @ + price * open]

NetQty(p) == p.qty.buy - p.qty.sell
IsEmpty(p) == p.qty.buy = 0 /\ p.qty.sell = 0
Notional(p, mark) == Abs(NetQty(p)) * mark

AvgEntry(p) ==
  LET leg == IF NetQty(p) > 0 THEN "buy" ELSE "sell"
  IN IF NetQty(p) = 0 THEN 0 ELSE p.cost[leg] \div p.qty[leg]

UnrealizedPnl(p, mark) ==
  IF NetQty(p) = 0 THEN 0 ELSE NetQty(p) * (mark - AvgEntry(p))

-----------------------------------------------------------------------------
(* Prices                                                                  *)

CalculateIndex(bbo, last) ==
  CASE bbo.bidQty + bbo.askQty = 0 -> last
    [] bbo.bidQty = 0 /\ bbo.askQty # 0 -> bbo.askPx
    [] bbo.askQty = 0 /\ bbo.bidQty # 0 -> bbo.bidPx
    [] OTHER -> (bbo.bidPx * bbo.askQty + bbo.askPx * bbo.bidQty)
                  \div (bbo.bidQty + bbo.askQty)

ProcessBbo(s, bbo) ==
  [s EXCEPT !.index = [price |-> CalculateIndex(bbo, s.index.price), valid |-> TRUE],
            !.dirty = TRUE]

UpdateMark(s, price) == [s EXCEPT !.mark = price, !.dirty = TRUE]

\* The price margin is computed at: the mark, or the index while there is no
\* mark.
Fallback(s) ==
  IF s.mark = 0 /\ s.index.valid /\ s.index.price > 0 THEN s.index.price ELSE s.mark

RebuildFallback(s) ==
  IF s.dirty THEN [s EXCEPT !.fallback = Fallback(s), !.dirty = FALSE] ELSE s

-----------------------------------------------------------------------------
(* Margin and reservations                                                 *)

\* The order ids of a user's reservations, by the per-user index.
FrozenForUser(s, u) ==
  MapThenSumSet(LAMBDA o : s.byUser[u][o], DOMAIN s.byUser[u])

Calculate(s, u) ==
  LET notional == Notional(s.pos[u], s.fallback)
      equity == s.acct[u] + UnrealizedPnl(s.pos[u], s.fallback)
      im == (notional * ImBps) \div 10000
  IN [equity |-> equity, im |-> im, mm |-> (notional * MmBps) \div 10000,
      available |-> equity - im - FrozenForUser(s, u), gross |-> notional]

NeedsLiquidation(s, u) == Calculate(s, u).equity < Calculate(s, u).mm

CalculateMarginNeeded(price, qty) ==
  (price * qty * ImBps) \div 10000 + CalculateFee(qty, price, TakerBps)

\* check_order: what the order must reserve, or None when it is rejected.
CheckOrder(s, o) ==
  LET state == Calculate(s, o.user)
      small == o.price * o.qty < MinNotional
      needed == CalculateMarginNeeded(o.price, o.qty)
      overLeverage == \/ state.equity <= 0
                      \/ state.gross + o.price * o.qty > state.equity * MaxLeverage
  IN IF o.liquidation THEN 0
     ELSE IF o.reduceOnly
     THEN IF small /\ o.rests /\ Abs(NetQty(s.pos[o.user])) # o.qty THEN None ELSE 0
     ELSE IF \/ small
             \/ MaxLeverage > 0 /\ overLeverage
             \/ state.available < needed
     THEN None
     ELSE needed

Insert(f, k, v) == [x \in DOMAIN f \union {k} |-> IF x = k THEN v ELSE f[x]]
Without(f, k) == [x \in DOMAIN f \ {k} |-> f[x]]

Freeze(s, u, id, amount) ==
  [s EXCEPT !.frozen = Insert(@, id, [user |-> u, amount |-> amount]),
            !.byUser[u] = Insert(@, id, amount)]

ReleaseFrozenForOrder(s, u, id) ==
  IF id \in DOMAIN s.frozen /\ s.frozen[id].user = u
  THEN [s EXCEPT !.frozen = Without(@, id), !.byUser[u] = Without(@, id)]
  ELSE s

\* process_order, for an order of this shard: the shard with the order's
\* reservation, or unchanged but for the fallback when it is rejected.
Gate(s, o) ==
  LET fresh == RebuildFallback(s)
      inLiquidation == NeedsLiquidation(fresh, o.user) /\ ~o.liquidation
      needed == CheckOrder(fresh, o)
  IN IF o.price <= 0 \/ o.qty <= 0 THEN [ok |-> FALSE, shard |-> s]
     ELSE IF inLiquidation \/ needed = None THEN [ok |-> FALSE, shard |-> fresh]
     ELSE [ok |-> TRUE, shard |-> Freeze(fresh, o.user, o.id, needed)]

-----------------------------------------------------------------------------
(* The liquidation engine                                                  *)

Live(e) == e.status = "active"

Enqueue(s, u, now) ==
  LET cooling == SelectSeq(s.cooling, LAMBDA c : now < c.retryAt)
      entry == [user |-> u, round |-> 1, status |-> "active", last |-> 0]
  IN IF \/ \E i \in DOMAIN cooling : cooling[i].user = u
        \/ \E i \in DOMAIN s.active : s.active[i].user = u /\ Live(s.active[i])
     THEN [s EXCEPT !.cooling = cooling]
     ELSE [s EXCEPT !.cooling = cooling, !.active = Append(@, entry)]

CancelIfRecovered(s, u) ==
  [s EXCEPT !.active = SelectSeq(@, LAMBDA e : e.user # u)]

\* Mutant of QueueCancels: the cancels of a user entering liquidation are
\* those of the orders that reserve nothing.
QueueCancelsOfReduceOnly(s, u) ==
  LET reserving == {o \in DOMAIN s.byUser[u] : s.byUser[u][o] = 0}
  IN [s EXCEPT !.cancels = @ \o SetToSortSeq(reserving, <)]

\* A cancel for each order of the user that reserves margin.
QueueCancels(s, u) ==
  LET reserving == {o \in DOMAIN s.byUser[u] : s.byUser[u][o] # 0}
  IN [s EXCEPT !.cancels = @ \o SetToSortSeq(reserving, <)]

\* Mutant of CheckLiquidationFor: the fallback is used as it is.
CheckLiquidationForStale(s, u, now) ==
  LET entered == Enqueue(s, u, now)
  IN IF IsEmpty(s.pos[u]) THEN s
     ELSE IF ~NeedsLiquidation(s, u) THEN CancelIfRecovered(s, u)
     ELSE IF entered.active # s.active THEN QueueCancels(entered, u)
     ELSE entered

CheckLiquidationFor(s, u, now) ==
  LET fresh == RebuildFallback(s)
      entered == Enqueue(fresh, u, now)
  IN IF IsEmpty(fresh.pos[u]) THEN fresh
     ELSE IF ~NeedsLiquidation(fresh, u) THEN CancelIfRecovered(fresh, u)
     ELSE IF entered.active # fresh.active THEN QueueCancels(entered, u)
     ELSE entered

\* maybe_process looks at an entry when its delay has passed.
RoundDue(e, now) == Live(e) /\ (e.round = 1 \/ now >= e.last + e.round * BaseDelay)

\* ... and finds it over, without a price, out of rounds, or places a round.
Verdict(s, e, now) ==
  CASE ~RoundDue(e, now) -> "wait"
    [] RoundDue(e, now) /\ NetQty(s.pos[e.user]) = 0 -> "done"
    [] RoundDue(e, now) /\ NetQty(s.pos[e.user]) # 0 /\ s.fallback = 0 -> "wait"
    [] OTHER -> IF e.round > MaxRounds THEN "loss" ELSE "order"

RoundsOf(s, now, verdict) == SelectSeq(s.active, LAMBDA e : Verdict(s, e, now) = verdict)

MaybeProcess(s, now) ==
  LET step(e) == CASE Verdict(s, e, now) = "wait" -> e
                   [] Verdict(s, e, now) \in {"done", "loss"} -> [e EXCEPT !.status = "done"]
                   [] OTHER -> [e EXCEPT !.last = now, !.round = @ + 1]
      losses == RoundsOf(s, now, "loss")
  IN [s EXCEPT
        !.active = [i \in DOMAIN @ |-> step(@[i])],
        !.cooling = @ \o [i \in DOMAIN losses |->
                            [user |-> losses[i].user, retryAt |-> now + Cooldown]]]

RemoveDone(s) == [s EXCEPT !.active = SelectSeq(@, Live)]

RoundToTick(price, side) ==
  LET floor == price - (price % Tick)
  IN IF Tick <= 0 THEN price
     ELSE IF side = "sell" THEN Max({floor, Tick})
     ELSE IF floor = price THEN price ELSE floor + Tick

\* The order of a round: reduce-only, immediate, of the whole position, with
\* the slippage of the round.
LiqToOrder(s, e, id) ==
  LET net == NetQty(s.pos[e.user])
      slip == Min({e.round * e.round * BaseSlip, MaxSlip})
      side == IF net > 0 THEN "sell" ELSE "buy"
      price == (s.fallback * (10000 + (IF net > 0 THEN -slip ELSE slip))) \div 10000
  IN [id |-> id, user |-> e.user, side |-> side, price |-> RoundToTick(price, side),
      qty |-> Abs(net), reduceOnly |-> TRUE, liquidation |-> TRUE, rests |-> FALSE]

\* Mutant of ProcessSocializedLoss: the fund pays up to maintenance margin.
ProcessSocializedLossToMargin(s, u) ==
  LET short == Calculate(s, u).equity - Calculate(s, u).mm
  IN IF short >= 0 THEN s
     ELSE [s EXCEPT !.fund = @ + short, !.acct[u] = @ - short]

\* The deficit of the account moves from the insurance fund to it.
ProcessSocializedLoss(s, u) ==
  LET equity == Calculate(s, u).equity
  IN IF equity >= 0 THEN s
     ELSE [s EXCEPT !.fund = @ + equity, !.acct[u] = @ - equity]

-----------------------------------------------------------------------------
(* Fills                                                                   *)

UpdateExposure(s, u) ==
  [s EXCEPT !.exposed = IF IsEmpty(s.pos[u]) THEN SelectSeq(@, LAMBDA v : v # u)
                        ELSE IF Contains(@, u) THEN @ ELSE Append(@, u)]

\* One side of a fill.
Book(s, u, side, price, qty, bps) ==
  LET booked == [s EXCEPT !.pos[u] = ApplyFill(@, side, price, qty),
                          !.acct[u] = @ - CalculateFee(qty, price, bps)]
  IN UpdateExposure(booked, u)

\* process_fill, when both users are of this shard.
ProcessFill(s, f, now) ==
  LET taker == Book(s, f.taker, f.side, f.price, f.qty, TakerBps)
      both == Book(taker, f.maker, Opposite(f.side), f.price, f.qty, MakerBps)
      tipped == [both EXCEPT !.tip = f.seq]
  IN IF f.seq <= s.tip THEN s
     ELSE CheckLiquidationFor(CheckLiquidationFor(tipped, f.taker, now), f.maker, now)

-----------------------------------------------------------------------------
(* Funding                                                                 *)

\* Rust's division truncates toward zero.
Truncated(a, b) == IF a >= 0 THEN a \div b ELSE -((-a) \div b)

CalculateRate(mark, index) ==
  IF index = 0 THEN 0
  ELSE Max({FundingMin, Min({FundingMax, Truncated((mark - index) * 10000, index)})})

CalculatePayment(net, mark, rate) == (net * mark * rate) \div 10000

\* Mutant of SettleSymbol: the rounding residual stays where it fell.
SettleSymbolUnreconciled(nets, mark, rate) ==
  [i \in DOMAIN nets |-> CalculatePayment(nets[i], mark, rate)]

\* Each user's payment; what rounding them one by one adds up to, against
\* rounding once, is taken from the largest position (the first of equals).
SettleSymbol(nets, mark, rate) ==
  LET payment(i) == CalculatePayment(nets[i], mark, rate)
      residual == MapThenSumSet(payment, DOMAIN nets)
                    - CalculatePayment(MapThenSumSet(LAMBDA i : nets[i], DOMAIN nets), mark, rate)
      largest == {i \in DOMAIN nets : \A j \in DOMAIN nets : Abs(nets[i]) >= Abs(nets[j])}
  IN [i \in DOMAIN nets |->
        IF largest # {} /\ i = Min(largest) THEN payment(i) - residual ELSE payment(i)]

\* try_settle_interval: the users with an open position, sorted by id.
Exposed(s) == SelectSeq(UserSeq, LAMBDA u : Contains(s.exposed, u))

Unpriced(s) ==
  /\ \E u \in ToSet(s.exposed) : NetQty(s.pos[u]) # 0
  /\ s.mark = 0 \/ s.index.price = 0

SettleInterval(s, id) ==
  LET who == Exposed(s)
      rate == IF s.mark # 0 /\ s.index.price # 0
              THEN CalculateRate(s.mark, s.index.price) ELSE 0
      amounts == SettleSymbol([i \in DOMAIN who |-> NetQty(s.pos[who[i]])], s.mark, rate)
      paid(u) == IF Contains(who, u) THEN amounts[IndexFirstSubSeq(<<u>>, who)] ELSE 0
  IN [s EXCEPT !.acct = [u \in Users |-> @[u] - paid(u)], !.settled = id,
              !.charged = Append(@, id)]

IntervalId(now) == now \div FundingEvery

\* The intervals that are due, oldest first: those behind the last settled
\* one, or the current one when none was.
DueIntervals(s, now) ==
  LET first == IF s.settled = None THEN IntervalId(now) ELSE s.settled + 1
  IN [i \in 1 .. IntervalId(now) - first + 1 |-> first + i - 1]

\* At most once a second.  While an open position has no price nothing is
\* settled and the next second tries again.
MaybeSettleFunding(s, now) ==
  IF now = s.checked THEN s
  ELSE IF Unpriced(s) THEN [s EXCEPT !.checked = now]
  ELSE FoldLeft(SettleInterval, [s EXCEPT !.checked = now], DueIntervals(s, now))

-----------------------------------------------------------------------------
\* A shard that goes live: accounts from Postgres, the index from the log, no
\* mark yet.
NewShard ==
  [acct |-> Collateral, pos |-> [u \in Users |-> Flat], tip |-> 0,
   exposed |-> <<>>, frozen |-> <<>>, byUser |-> [u \in Users |-> <<>>],
   mark |-> 0, index |-> [price |-> FirstIndex, valid |-> FirstIndex # 0], fallback |-> 0, dirty |-> TRUE,
   stashed |-> None, active |-> <<>>, cooling |-> <<>>, cancels |-> <<>>,
   fund |-> FundStart, settled |-> None, checked |-> None,
   charged |-> <<>>]

DrainStashedBbos(s, now) ==
  IF s.stashed = None THEN s
  ELSE FoldLeft(LAMBDA t, u : CheckLiquidationFor(t, u, now),
                ProcessBbo([s EXCEPT !.stashed = None], s.stashed), s.exposed)
=============================================================================
