---------------------------- MODULE Compression ----------------------------
(***************************************************************************)
(* The price-to-slot geometry of the order book: rsx-book/src/compression.rs *)
(* and the price-ordered slot ranges of rsx-book/src/book.rs.  Prices far  *)
(* from the mid share slots; the slot number is a sawtooth over prices, so *)
(* the book finds its best level by walking the ranges of PriceAsc.        *)
(***************************************************************************)
EXTENDS Integers, FiniteSets, Sequences

Zones == 0 .. 4

\* Ticks per slot, zone by zone.
Compressions == [z \in Zones |-> CASE z = 1 -> 10 [] z = 2 -> 100
                                   [] z = 3 -> 1000 [] OTHER -> 1]

AtLeast(x, low) == IF x < low THEN low ELSE x
AtMost(x, high) == IF x > high THEN high ELSE x

\* Slots per zone, both sides together.
ZoneSlots(threshold, t) ==
  [z \in Zones |->
     CASE z = 0 -> 2 * ((threshold[0] + t - 1) \div t)
       [] z = 4 -> 2
       [] OTHER -> (2 * (threshold[z] - threshold[z - 1])) \div (Compressions[z] * t)]

\* Zone boundaries: 5, 15, 30 and 50% away from the mid.
Thresholds(mid) ==
  [z \in 0 .. 3 |-> CASE z = 0 -> (mid * 5) \div 100 [] z = 1 -> (mid * 15) \div 100
                      [] z = 2 -> (mid * 30) \div 100 [] OTHER -> (mid * 50) \div 100]

\* First slot of each zone.
Bases(slots) ==
  [z \in Zones |->
     CASE z = 0 -> 0
       [] z = 1 -> slots[0]
       [] z = 2 -> slots[0] + slots[1]
       [] z = 3 -> slots[0] + slots[1] + slots[2]
       [] OTHER -> slots[0] + slots[1] + slots[2] + slots[3]]

\* CompressionMap::new; prices stay far below the i64 overflow its
\* checked_mul guards.
CompressionMap(mid, tickSize) ==
  LET t == AtLeast(tickSize, 1)
      slots == ZoneSlots(Thresholds(mid), t)
  IN [mid |-> mid, tick |-> t, threshold |-> Thresholds(mid), slots |-> slots,
      base |-> Bases(slots)]

TotalSlots(c) == c.base[4] + c.slots[4]

Distance(c, px) == IF px >= c.mid THEN px - c.mid ELSE c.mid - px

ZoneOf(c, px) ==
  LET d == Distance(c, px)
  IN IF d < c.threshold[0] THEN 0
     ELSE IF d < c.threshold[1] THEN 1
     ELSE IF d < c.threshold[2] THEN 2
     ELSE IF d < c.threshold[3] THEN 3 ELSE 4

\* CompressionMap::price_to_index.
PriceToIndex(c, px) ==
  LET z == ZoneOf(c, px)
      half == c.slots[z] \div 2
      start == IF z = 0 THEN 0 ELSE c.threshold[z - 1]
      offset == AtMost((Distance(c, px) - start) \div (Compressions[z] * c.tick), half - 1)
  IN IF z = 4 THEN c.base[4] + (IF px >= c.mid THEN 0 ELSE 1)
     ELSE IF half = 0 THEN c.base[z]
     ELSE IF px >= c.mid THEN c.base[z] + half + offset
     ELSE c.base[z] + half - 1 - offset

\* Half-open slot ranges [lo, hi) of one zone: bid_region and ask_region.
BidRegion(c, z) ==
  LET half == c.slots[z] \div 2
      lo == IF z = 4 THEN c.base[z] + 1 ELSE c.base[z]
      hi == IF z # 4 /\ half > 0 THEN c.base[z] + half ELSE c.base[z] + c.slots[z]
  IN [lo |-> lo, hi |-> hi]

AskRegion(c, z) ==
  LET half == c.slots[z] \div 2
      lo == IF z # 4 THEN c.base[z] + half ELSE c.base[z]
      hi == IF z = 4 THEN c.base[z] + 1 ELSE c.base[z] + c.slots[z]
  IN [lo |-> lo, hi |-> hi]

\* Mutant of PriceAsc: the bid ranges are listed from the mid outward too.
PriceAscBidsOutward(c) ==
  SelectSeq([i \in 1 .. 10 |-> IF i <= 5 THEN BidRegion(c, i - 1) ELSE AskRegion(c, i - 6)],
            LAMBDA r : r.lo < r.hi)

\* build_price_asc: bids from zone 4 in to zone 0, then asks from zone 0 out.
PriceAsc(c) ==
  SelectSeq([i \in 1 .. 10 |-> IF i <= 5 THEN BidRegion(c, 5 - i) ELSE AskRegion(c, i - 6)],
            LAMBDA r : r.lo < r.hi)

InRange(slot, r) == r.lo <= slot /\ slot < r.hi
=============================================================================
