------------------------------ MODULE BookProofs ------------------------------
(***************************************************************************)
(* Proofs about the book of the matching engine: the safety of the         *)
(* abstract book for every set of users, requests and order ids and every  *)
(* cap on makers, and the bounds of the price-to-slot geometry for every   *)
(* mid price, tick size and price.                                         *)
(***************************************************************************)
EXTENDS AbstractBook, Compression, TLAPS

-----------------------------------------------------------------------------
(* The abstract book.                                                      *)

\* Arrival numbers never run ahead of the clock.
ArrivalsPast == \A m \in resting : m.seq <= clock

IInv == RestingTyped /\ NotCrossed /\ ArrivalsDistinct /\ ArrivalsPast

\* A set of orders that could rest together, all of them arrived already.
Orderly(S) ==
  \A k \in S : /\ k \in Resting
               /\ k.seq <= clock
               /\ \A l \in S : /\ k.side = "buy" /\ l.side = "sell" => k.px < l.px
                               /\ k.seq = l.seq => k = l

\* What rests of a maker is that maker with a smaller quantity
\* (fill_level reduces remaining_qty and nothing else).
LEMMA KeptShrinks ==
  ASSUME NEW makers, makers \subseteq Resting,
         NEW want, NEW fill \in [makers -> 0 .. want],
         \A m \in makers : fill[m] <= m.qty,
         NEW k \in Kept(makers, fill)
  PROVE  \E m \in makers : /\ k \in Resting
                           /\ k.side = m.side /\ k.px = m.px /\ k.seq = m.seq
                           /\ fill[m] < m.qty
                           /\ k = [m EXCEPT !.qty = @ - fill[m]]
<1>1. PICK m \in makers : fill[m] < m.qty /\ k = [m EXCEPT !.qty = @ - fill[m]]
  BY DEF Kept
<1>2. m \in Resting /\ fill[m] \in Nat
  BY DEF Resting
<1>3. m.qty - fill[m] \in Nat \ {0}
  BY <1>1, <1>2 DEF Resting
<1>4. k \in Resting /\ k.side = m.side /\ k.px = m.px /\ k.seq = m.seq
  BY <1>1, <1>2, <1>3 DEF Resting
<1> QED BY <1>1, <1>4, Zenon

\* The orders left after an execution, before any residual rests, keep every
\* part of the invariant (the match loop only shrinks and removes makers).
LEMMA OthersKeep ==
  ASSUME IInv,
         NEW makers \in SUBSET resting,
         NEW want, NEW fill \in [makers -> 0 .. want],
         \A m \in makers : fill[m] <= m.qty,
         NEW others, others = (resting \ makers) \union Kept(makers, fill)
  PROVE  Orderly(others)
<1>1. \A k \in others : \E m \in resting :
        /\ k \in Resting /\ k.side = m.side /\ k.px = m.px /\ k.seq = m.seq
        /\ \/ k = m /\ m \notin makers
           \/ m \in makers /\ k = [m EXCEPT !.qty = @ - fill[m]]
  <2> SUFFICES ASSUME NEW k \in others
               PROVE  \E m \in resting :
                        /\ k \in Resting /\ k.side = m.side /\ k.px = m.px /\ k.seq = m.seq
                        /\ \/ k = m /\ m \notin makers
                           \/ m \in makers /\ k = [m EXCEPT !.qty = @ - fill[m]]
    OBVIOUS
  <2>1. CASE k \in resting \ makers
    BY <2>1 DEF IInv, RestingTyped
  <2>2. CASE k \in Kept(makers, fill)
    <3>1. makers \subseteq Resting
      BY DEF IInv, RestingTyped
    <3>2. PICK m \in makers : /\ k \in Resting
                              /\ k.side = m.side /\ k.px = m.px /\ k.seq = m.seq
                              /\ k = [m EXCEPT !.qty = @ - fill[m]]
      BY <2>2, <3>1, KeptShrinks
    <3> QED BY <3>2, Zenon
  <2> QED BY <2>1, <2>2
<1> SUFFICES ASSUME NEW k \in others
             PROVE  /\ k \in Resting
                    /\ k.seq <= clock
                    /\ \A l \in others : /\ k.side = "buy" /\ l.side = "sell" => k.px < l.px
                                         /\ k.seq = l.seq => k = l
  BY DEF Orderly
<1>2. PICK m \in resting :
        /\ k \in Resting /\ k.side = m.side /\ k.px = m.px /\ k.seq = m.seq
        /\ \/ k = m /\ m \notin makers
           \/ m \in makers /\ k = [m EXCEPT !.qty = @ - fill[m]]
  BY <1>1
<1>3. k.seq <= clock
  BY <1>2 DEF IInv, ArrivalsPast
<1>4. ASSUME NEW l \in others
      PROVE  /\ k.side = "buy" /\ l.side = "sell" => k.px < l.px
             /\ k.seq = l.seq => k = l
  <2>1. PICK n \in resting :
          /\ l.side = n.side /\ l.px = n.px /\ l.seq = n.seq
          /\ \/ l = n /\ n \notin makers
             \/ n \in makers /\ l = [n EXCEPT !.qty = @ - fill[n]]
    BY <1>1
  <2>2. k.side = "buy" /\ l.side = "sell" => k.px < l.px
    BY <1>2, <2>1, Zenon DEF IInv, NotCrossed
  <2>3. k.seq = l.seq => m = n
    BY <1>2, <2>1, Zenon DEF IInv, ArrivalsDistinct
  <2>4. m = n => k = l
    BY <1>2, <2>1
  <2> QED BY <2>2, <2>3, <2>4
<1> QED BY <1>2, <1>3, <1>4

\* An execution keeps the invariant: a residual rests only once every maker
\* it crosses is gone, so it cannot cross what remains (process_new_order).
LEMMA ExecuteKeeps ==
  ASSUME IInv, NEW o \in Requests, Execute(o)
  PROVE  IInv'
<1> DEFINE makers == Crossing(o)
           want == Wanted(o)
<1>1. PICK fill \in [makers -> 0 .. want] :
        LET left == want - TotalOf(makers, fill)
            rests == o.tif = "GTC" /\ left > 0 /\ AllTaken(makers, fill)
            others == (resting \ makers) \union Kept(makers, fill)
        IN /\ Legal(o, makers, fill, left)
           /\ clock' = IF rests THEN clock + 1 ELSE clock
           /\ IF rests THEN \E oid \in Oids : resting' = others \union {Residual(o, oid, left)}
                       ELSE resting' = others
  BY DEF Execute
<1> DEFINE left == want - TotalOf(makers, fill)
           others == (resting \ makers) \union Kept(makers, fill)
<1>2. left \in Nat /\ (\A m \in makers : fill[m] <= m.qty)
  BY <1>1 DEF Legal
<1>3. makers \in SUBSET resting
  BY DEF Crossing
<1>4. Orderly(others)
  <2>1. fill \in [makers -> 0 .. want] /\ others = (resting \ makers) \union Kept(makers, fill)
    BY <1>1
  <2> HIDE DEF makers, want, others
  <2> QED BY <1>2, <1>3, <2>1, OthersKeep
<1>5. CASE resting' = others /\ clock' = clock
  <2> HIDE DEF others
  <2> QED BY <1>4, <1>5 DEF Orderly, IInv, RestingTyped, NotCrossed, ArrivalsDistinct, ArrivalsPast
<1>6. ASSUME NEW oid \in Oids, resting' = others \union {Residual(o, oid, left)},
             clock' = clock + 1, left > 0, AllTaken(makers, fill)
      PROVE  IInv'
  <2> DEFINE r == Residual(o, oid, left)
  <2>1. /\ r \in Resting /\ r.side = o.side /\ r.px = o.px /\ r.seq = clock + 1
        /\ clock \in Nat
    <3>1. o \in [user : Users, side : {"buy", "sell"}, px : Int, qty : Int,
                 tif : {"GTC", "IOC", "FOK"}, ro : BOOLEAN, po : BOOLEAN]
      BY RequestsAssumption
    <3>2. clock \in Nat /\ left \in Nat \ {0}
      BY <1>2, <1>6 DEF IInv, RestingTyped
    <3> HIDE DEF left
    <3> QED BY <3>1, <3>2 DEF Residual, Resting
  <2>2. others \subseteq resting \ makers
    BY <1>6 DEF Kept, AllTaken
  <2>3. \A k \in others : ~(k.side # o.side /\ Crosses(o, k.px))
    BY <2>2 DEF Crossing
  <2>4. \A k \in others : /\ k.side = "buy" /\ r.side = "sell" => k.px < r.px
                          /\ r.side = "buy" /\ k.side = "sell" => r.px < k.px
    <3> SUFFICES ASSUME NEW k \in others
                 PROVE  /\ k.side = "buy" /\ r.side = "sell" => k.px < r.px
                        /\ r.side = "buy" /\ k.side = "sell" => r.px < k.px
      OBVIOUS
    <3>1. k.px \in Int /\ r.px \in Int
      BY <1>4, <2>1 DEF Orderly, Resting
    <3>2. ~(k.side # r.side /\ Crosses(o, k.px))
      BY <2>1, <2>3
    <3> HIDE DEF others, r
    <3> QED BY <2>1, <3>1, <3>2 DEF Crosses
  <2>5. \A k \in others : k.seq \in Nat /\ k.seq < r.seq
    BY <1>4, <2>1 DEF Orderly, Resting
  <2> HIDE DEF others, r
  <2>6. resting' = others \union {r}
    BY <1>6 DEF r, others
  <2>7. RestingTyped' /\ ArrivalsPast'
    <3>1. clock' \in Nat /\ r.seq <= clock'
      BY <1>6, <2>1
    <3>2. \A k \in others : k.seq <= clock'
      BY <1>4, <1>6, <2>1 DEF Orderly, Resting
    <3> QED BY <1>4, <2>1, <2>6, <3>1, <3>2 DEF Orderly, RestingTyped, ArrivalsPast
  <2>8. ArrivalsDistinct'
    BY <1>4, <2>1, <2>5, <2>6 DEF Orderly, ArrivalsDistinct
  <2>9. NotCrossed'
    BY <1>4, <2>4, <2>6 DEF Orderly, NotCrossed
  <2> QED BY <2>7, <2>8, <2>9 DEF IInv
<1> HIDE DEF makers, want, left, others
<1> QED BY <1>1, <1>5, <1>6 DEF left, others

\* The invariant holds in every reachable state.
THEOREM Inductive == Spec => []IInv
<1>1. Init => IInv
  BY DEF Init, IInv, RestingTyped, NotCrossed, ArrivalsDistinct, ArrivalsPast
<1>2. IInv /\ [Next]_vars => IInv'
  <2> SUFFICES ASSUME IInv, [Next]_vars PROVE IInv'
    OBVIOUS
  <2>1. CASE \E o \in Requests : Execute(o)
    BY <2>1, ExecuteKeeps
  <2>2. CASE \E m \in resting : Cancel(m)
    BY <2>2 DEF Cancel, IInv, RestingTyped, NotCrossed, ArrivalsDistinct, ArrivalsPast
  <2>3. CASE UNCHANGED vars
    BY <2>3 DEF vars, IInv, RestingTyped, NotCrossed, ArrivalsDistinct, ArrivalsPast
  <2> QED BY <2>1, <2>2, <2>3 DEF Next
<1> QED BY <1>1, <1>2, PTL DEF Spec

\* Resting orders are always well-formed, with a positive quantity left:
\* fill_level unlinks what it fills and insert_resting rests no empty order.
THEOREM RestingWellFormed == Spec => []RestingTyped
<1>1. IInv => RestingTyped
  BY DEF IInv
<1> QED BY Inductive, <1>1, PTL

\* The book is never crossed, whatever the requests, the cap on makers and
\* the order of executions and cancels (process_new_order).
THEOREM NeverCrossed == Spec => []NotCrossed
<1>1. IInv => NotCrossed
  BY DEF IInv
<1> QED BY Inductive, <1>1, PTL

\* No two resting orders share an arrival number, so priority within a price
\* is total (insert_resting).
THEOREM PriorityTotal == Spec => []ArrivalsDistinct
<1>1. IInv => ArrivalsDistinct
  BY DEF IInv
<1> QED BY Inductive, <1>1, PTL

-----------------------------------------------------------------------------
(* The price-to-slot geometry.                                             *)

\* Dividing naturals gives a natural.
LEMMA DivNat ==
  ASSUME NEW a \in Nat, NEW b \in Nat \ {0}
  PROVE  a \div b \in Nat
OBVIOUS

\* The shape of a compression map: thresholds grow outwards, and the zones
\* lie one after the other in the level array (CompressionMap::new).
WellShaped(c, mid) ==
  /\ c.mid = mid /\ c.tick \in Nat \ {0}
  /\ \A z \in 0 .. 3 : c.threshold[z] \in Nat
  /\ \A z \in 1 .. 3 : c.threshold[z - 1] <= c.threshold[z]
  /\ \A z \in Zones : c.slots[z] \in Nat /\ c.base[z] \in Nat
  /\ c.slots[4] = 2
  /\ \A z \in 0 .. 3 : c.base[z] + c.slots[z] <= c.base[4]

\* CompressionMap::new builds a map of that shape, for every mid and tick.
LEMMA MapShape ==
  ASSUME NEW mid \in Nat, NEW tick \in Int,
         NEW c, c = CompressionMap(mid, tick)
  PROVE  WellShaped(c, mid)
<1> DEFINE t == AtLeast(tick, 1)
           th == c.threshold
<1>1. t \in Nat \ {0}
  BY DEF AtLeast
<1> HIDE DEF t
<1>2. /\ c.mid = mid /\ c.tick = t /\ th = Thresholds(mid)
      /\ c.slots = ZoneSlots(th, t) /\ c.base = Bases(c.slots)
  BY Zenon DEF CompressionMap, t
<1> HIDE DEF th
<1>3. /\ th[0] \in Nat /\ th[1] \in Nat /\ th[2] \in Nat /\ th[3] \in Nat
      /\ th[0] <= th[1] /\ th[1] <= th[2] /\ th[2] <= th[3]
  BY <1>2 DEF Thresholds
<1>4. /\ c.slots[0] = 2 * ((th[0] + t - 1) \div t)
      /\ c.slots[1] = (2 * (th[1] - th[0])) \div (10 * t)
      /\ c.slots[2] = (2 * (th[2] - th[1])) \div (100 * t)
      /\ c.slots[3] = (2 * (th[3] - th[2])) \div (1000 * t)
      /\ c.slots[4] = 2
  BY <1>2 DEF ZoneSlots, Zones, Compressions
<1>5. /\ c.slots[0] \in Nat /\ c.slots[1] \in Nat /\ c.slots[2] \in Nat
      /\ c.slots[3] \in Nat /\ c.slots[4] \in Nat
  <2>1. /\ th[0] + t - 1 \in Nat /\ 2 * (th[1] - th[0]) \in Nat
        /\ 2 * (th[2] - th[1]) \in Nat /\ 2 * (th[3] - th[2]) \in Nat
    BY <1>1, <1>3
  <2>2. 10 * t \in Nat \ {0} /\ 100 * t \in Nat \ {0} /\ 1000 * t \in Nat \ {0}
    BY <1>1
  <2>3. (th[0] + t - 1) \div t \in Nat
    BY <1>1, <2>1, DivNat
  <2>4. /\ (2 * (th[1] - th[0])) \div (10 * t) \in Nat
        /\ (2 * (th[2] - th[1])) \div (100 * t) \in Nat
        /\ (2 * (th[3] - th[2])) \div (1000 * t) \in Nat
    BY <2>1, <2>2, DivNat
  <2> QED BY <1>4, <2>3, <2>4
<1>6. /\ c.base[0] = 0 /\ c.base[1] = c.slots[0]
      /\ c.base[2] = c.slots[0] + c.slots[1]
      /\ c.base[3] = c.slots[0] + c.slots[1] + c.slots[2]
      /\ c.base[4] = c.slots[0] + c.slots[1] + c.slots[2] + c.slots[3]
  BY <1>2 DEF Bases, Zones
<1>7. \A z \in 0 .. 3 : z = 0 \/ z = 1 \/ z = 2 \/ z = 3
  OBVIOUS
<1>8. \A z \in Zones : z = 0 \/ z = 1 \/ z = 2 \/ z = 3 \/ z = 4
  BY DEF Zones
<1>9. /\ \A z \in 0 .. 3 : c.threshold[z] \in Nat
      /\ \A z \in 1 .. 3 : c.threshold[z - 1] <= c.threshold[z]
  BY <1>3, <1>7 DEF th
<1>10. \A z \in Zones : c.slots[z] \in Nat /\ c.base[z] \in Nat
  BY <1>5, <1>6, <1>8
<1>11. \A z \in 0 .. 3 : c.base[z] + c.slots[z] <= c.base[4]
  BY <1>5, <1>6, <1>7
<1> QED BY <1>1, <1>2, <1>4, <1>9, <1>10, <1>11 DEF WellShaped

\* The zone of a price is the one its distance from the mid falls into.
LEMMA ZoneOfDistance ==
  ASSUME NEW mid \in Nat, NEW tick \in Int, NEW px \in Int,
         NEW c, c = CompressionMap(mid, tick)
  PROVE  /\ ZoneOf(c, px) \in Zones
         /\ Distance(c, px) \in Nat
         /\ ZoneOf(c, px) \in 1 .. 4 => c.threshold[ZoneOf(c, px) - 1] <= Distance(c, px)
<1>1. /\ c.mid = mid /\ \A z \in 0 .. 3 : c.threshold[z] \in Nat
  <2>1. WellShaped(c, mid)
    BY MapShape
  <2> QED BY <2>1 DEF WellShaped
<1>2. Distance(c, px) \in Nat
  BY <1>1 DEF Distance
<1> QED BY <1>1, <1>2 DEF ZoneOf, Zones

\* price_to_index never leaves the level array, whatever the mid price, the
\* tick size and the price, degenerate zones included: active_levels[tick]
\* cannot panic.
THEOREM IndexInRange ==
  ASSUME NEW mid \in Nat, NEW tick \in Int, NEW px \in Int
  PROVE  LET c == CompressionMap(mid, tick)
         IN PriceToIndex(c, px) \in 0 .. TotalSlots(c) - 1
<1> SUFFICES ASSUME NEW c, c = CompressionMap(mid, tick)
             PROVE  PriceToIndex(c, px) \in 0 .. TotalSlots(c) - 1
  OBVIOUS
<1> DEFINE z == ZoneOf(c, px)
           half == c.slots[z] \div 2
           start == IF z = 0 THEN 0 ELSE c.threshold[z - 1]
           step == Compressions[z] * c.tick
           offset == AtMost((Distance(c, px) - start) \div step, half - 1)
<1>1. /\ c.tick \in Nat \ {0}
      /\ \A y \in 0 .. 3 : c.threshold[y] \in Nat
      /\ \A y \in Zones : c.slots[y] \in Nat /\ c.base[y] \in Nat
      /\ c.slots[4] = 2
      /\ \A y \in 0 .. 3 : c.base[y] + c.slots[y] <= c.base[4]
  <2>1. WellShaped(c, mid)
    BY MapShape
  <2> QED BY <2>1 DEF WellShaped
<1>2. /\ z \in Zones /\ Distance(c, px) \in Nat
      /\ z \in 1 .. 4 => c.threshold[z - 1] <= Distance(c, px)
  BY ZoneOfDistance, Zenon
<1>3. PriceToIndex(c, px) = IF z = 4 THEN c.base[4] + (IF px >= c.mid THEN 0 ELSE 1)
                            ELSE IF half = 0 THEN c.base[z]
                            ELSE IF px >= c.mid THEN c.base[z] + half + offset
                            ELSE c.base[z] + half - 1 - offset
  BY DEF PriceToIndex
<1> HIDE DEF z
<1>4. c.base[4] \in Nat /\ TotalSlots(c) = c.base[4] + 2
  BY <1>1 DEF TotalSlots, Zones
<1>5. CASE z = 4
  BY <1>3, <1>4, <1>5
<1>6. CASE z # 4
  <2>1. z \in 0 .. 3 /\ z \in Zones
    BY <1>2, <1>6 DEF Zones
  <2>2. c.slots[z] \in Nat /\ c.base[z] \in Nat /\ c.base[z] + c.slots[z] <= c.base[4]
    BY <1>1, <2>1
  <2>3. half \in Nat /\ 2 * half <= c.slots[z]
    BY <2>2
  <2>4. Distance(c, px) - start \in Nat
    <3>1. CASE z = 0
      BY <1>2, <3>1
    <3>2. CASE z # 0
      <4>1. z - 1 \in 0 .. 3 /\ z \in 1 .. 4
        BY <2>1, <3>2
      <4>2. c.threshold[z - 1] \in Nat /\ c.threshold[z - 1] <= Distance(c, px)
        BY <1>1, <1>2, <4>1
      <4> QED BY <1>2, <3>2, <4>2
    <3> QED BY <3>1, <3>2
  <2>5. step \in Nat \ {0}
    <3>1. Compressions[z] \in Nat \ {0}
      BY <2>1 DEF Compressions, Zones
    <3> HIDE DEF step
    <3>2. \A a, b \in Nat \ {0} : a * b \in Nat \ {0}
      OBVIOUS
    <3> QED BY <1>1, <3>1, <3>2, Zenon DEF step
  <2>6. (Distance(c, px) - start) \div step \in Nat
    <3> HIDE DEF start, step
    <3> QED BY <2>4, <2>5, DivNat
  <2>7. half # 0 => offset \in 0 .. half - 1
    <3> HIDE DEF half, start, step
    <3> QED BY <2>3, <2>6 DEF AtMost
  <2> HIDE DEF half, offset
  <2>8. CASE half = 0
    BY <1>3, <1>4, <1>6, <2>2, <2>8
  <2>9. CASE half # 0
    BY <1>3, <1>4, <1>6, <2>2, <2>3, <2>7, <2>9
  <2> QED BY <2>8, <2>9
<1> QED BY <1>5, <1>6
=============================================================================
