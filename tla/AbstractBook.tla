---------------------------- MODULE AbstractBook ----------------------------
(***************************************************************************)
(* What the matching engine promises of one symbol, without levels, slots, *)
(* slabs or indexes: a set of resting orders in strict price-time          *)
(* priority, and the users' net positions.                                 *)
(***************************************************************************)
EXTENDS OrderRequests, FiniteSets, FiniteSetsExt

CONSTANT Oids   \* order identifiers

VARIABLES resting,   \* the resting orders
          net,       \* user -> net position
          clock      \* arrival number of the last order that rested
vars == <<resting, net, clock>>

Resting == [oid : Oids, user : Users, side : {"buy", "sell"}, px : Int,
            qty : Nat \ {0}, ro : BOOLEAN, seq : Nat]

\* Resting orders are well-formed, with a quantity left to trade.
RestingTyped == resting \subseteq Resting /\ clock \in Nat

TypeOK == RestingTyped /\ net \in [Users -> Int]

Init == resting = {} /\ net = [u \in Users |-> 0] /\ clock = 0

\* Whether a resting order at px would trade with a request.
Crosses(o, px) == IF o.side = "buy" THEN px <= o.px ELSE px >= o.px

Crossing(o) == {m \in resting : m.side # o.side /\ Crosses(o, m.px)}

\* Price-time priority among the makers of a request: better price, then
\* earlier arrival.
Before(o, m, n) ==
  \/ IF o.side = "buy" THEN m.px < n.px ELSE m.px > n.px
  \/ m.px = n.px /\ m.seq < n.seq

Magnitude(x) == IF x < 0 THEN -x ELSE x

\* The quantity a request sets out to fill: a reduce-only one at most the
\* position it reduces, and nothing when it reduces none.
Wanted(o) ==
  IF ~o.ro THEN o.qty
  ELSE IF (o.side = "buy" /\ net[o.user] >= 0) \/ (o.side = "sell" /\ net[o.user] <= 0) THEN 0
  ELSE IF o.qty < Magnitude(net[o.user]) THEN o.qty ELSE Magnitude(net[o.user])

TotalOf(makers, fill) == MapThenSumSet(LAMBDA m : fill[m], makers)

\* The quantity the makers of user u trade.
MadeBy(u, makers, fill) == TotalOf({m \in makers : m.user = u}, fill)

Signed(side, x) == IF side = "buy" THEN x ELSE -x

AllTaken(makers, fill) == \A m \in makers : fill[m] = m.qty

\* fill is a legal execution of o against makers, leaving a quantity left:
\* best makers first, no more of them than the cap, and something is left
\* over only when no maker is left or the cap is reached.
Legal(o, makers, fill, left) ==
  /\ \A m \in makers : fill[m] <= m.qty
  /\ \A m, n \in makers : Before(o, m, n) /\ fill[n] > 0 => fill[m] = m.qty
  /\ left \in Nat
  /\ LET used == Cardinality({m \in makers : fill[m] > 0}) IN
     /\ used <= MaxMakers
     /\ left > 0 => AllTaken(makers, fill) \/ used = MaxMakers
  /\ o.tif = "FOK" => left = 0

\* What rests of the makers.
Kept(makers, fill) ==
  {[m EXCEPT !.qty = @ - fill[m]] : m \in {n \in makers : fill[n] < n.qty}}

\* The order that rests for what is left of a request.
Residual(o, oid, left) ==
  [oid |-> oid, user |-> o.user, side |-> o.side, px |-> o.px,
   qty |-> left, ro |-> o.ro, seq |-> clock + 1]

\* An order executes: makers shrink or leave, positions move, and a
\* good-till-cancelled residual rests behind everything at its price.
Execute(o) ==
  LET makers == Crossing(o)
      want == Wanted(o)
  IN /\ want > 0
     /\ ~(o.po /\ makers # {})
     /\ \E fill \in [makers -> 0 .. want] :
          LET total == TotalOf(makers, fill)
              left == want - total
              rests == o.tif = "GTC" /\ left > 0 /\ AllTaken(makers, fill)
              others == (resting \ makers) \union Kept(makers, fill)
          IN /\ Legal(o, makers, fill, left)
             /\ net' = [u \in Users |->
                  net[u] + (IF u = o.user THEN Signed(o.side, total) ELSE 0)
                         - Signed(o.side, MadeBy(u, makers, fill))]
             /\ clock' = IF rests THEN clock + 1 ELSE clock
             /\ IF rests
                THEN \E oid \in Oids : resting' = others \union {Residual(o, oid, left)}
                ELSE resting' = others

\* A resting order leaves at its owner's request.
Cancel(m) == resting' = resting \ {m} /\ UNCHANGED <<net, clock>>

Next == \/ \E o \in Requests : Execute(o)
        \/ \E m \in resting : Cancel(m)

Spec == Init /\ [][Next]_vars

-----------------------------------------------------------------------------
\* The best bid is always below the best ask: no two resting orders could
\* trade with each other (ARCHITECTURE invariant 6, process_new_order).
NotCrossed ==
  \A m, n \in resting : m.side = "buy" /\ n.side = "sell" => m.px < n.px

\* Arrival numbers are distinct, so priority within a price is a total order
\* (insert_resting's sequence and the FIFO of a level).
ArrivalsDistinct ==
  \A m, n \in resting : m.seq = n.seq => m = n
=============================================================================
