----------------------------- MODULE LevelScan -----------------------------
(***************************************************************************)
(* How the book finds a level: the price axis is swept, one tick at a      *)
(* time, under every geometry of Mids x Ticks, to compare slots with the   *)
(* order of prices, and the occupancy bitmap goes through every set of     *)
(* occupied slots.                                                         *)
(***************************************************************************)
EXTENDS Compression, Occupancy

CONSTANTS Mids, Ticks,   \* mid prices and tick sizes
          MinMidTicks    \* least number of ticks in a mid price

ASSUME SweepAssumption ==
  /\ Mids \subseteq Nat \ {0} /\ Ticks \subseteq Nat \ {0}
  /\ MinMidTicks \in Nat

VARIABLES comp, asc,   \* the book's compression map and its price_asc
          px           \* the price looked for
vars == <<comp, asc, px, levels>>

\* An accepted price is a positive multiple of the tick size.
Init ==
  /\ OccupancyInit
  /\ \E mid \in Mids, tick \in Ticks :
       /\ mid \div tick >= MinMidTicks
       /\ comp = CompressionMap(mid, tick)
       /\ asc = PriceAsc(comp) /\ px = tick

\* The bound lies in the catch-all zone 4 above the mid.
Sweep ==
  /\ px <= 2 * comp.mid
  /\ px' = px + comp.tick
  /\ UNCHANGED <<comp, asc, levels>>

Occupy == OccupancyNext /\ UNCHANGED <<comp, asc, px>>

\* The two parts share no state: each moves while the other is at its start.
Next == \/ levels[1] = {} /\ Sweep
        \/ px = comp.tick /\ Occupy

Spec == Init /\ [][Next]_vars

Slot(p) == PriceToIndex(comp, p)
Ranges(p) == LET slot == Slot(p) IN {i \in DOMAIN asc : InRange(slot, asc[i])}

\* Every price has a slot of the level array, in exactly one range of
\* price_asc, so that scan_next_bid and scan_next_ask can reach it
\* (active_levels[tick] never indexes past the array).
SlotReachable ==
  /\ Slot(px) \in 0 .. TotalSlots(comp) - 1
  /\ Cardinality(Ranges(px)) = 1

\* Walking price_asc forwards, and each range upwards, meets prices in
\* ascending order: the next tick is never in an earlier range, nor in a
\* lower slot of the same range (build_price_asc's claim).
AscendingWalk ==
  \A i \in Ranges(px), j \in Ranges(px + comp.tick) :
    i < j \/ (i = j /\ Slot(px) <= Slot(px + comp.tick))

\* Zone 0 is one price per slot: two different prices never meet in a
\* zone-0 slot (fill_level and can_fill_fully read only the FIFO head there).
ZoneZeroExact ==
  Slot(px) < comp.slots[0] => Slot(px + comp.tick) # Slot(px)

\* A price is found where the book looks for it: in one range, in the order of
\* the walk, and alone in its slot in zone 0.
PricesAreFound == SlotReachable /\ AscendingWalk /\ ZoneZeroExact
=============================================================================
