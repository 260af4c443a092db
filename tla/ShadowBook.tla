------------------------------ MODULE ShadowBook ------------------------------
(***************************************************************************)
(* The marketdata shadow book of one symbol (rsx-marketdata/src/shadow.rs): *)
(* the orders it believes to rest, found by order id through order_map, and  *)
(* the levels, snapshots and deltas derived from them.  The orderbook under  *)
(* it (rsx-book, modelled in Book) is represented by its resting orders,     *)
(* which AbstractBook shows to be all a client of it can tell; moving them    *)
(* to another compression map (maybe_recenter) changes none of them.          *)
(*                                                                          *)
(* A record is what the matching engine casts: "ins" with an id, side, price *)
(* and quantity, "can" with an id, "fill" with a maker id and a quantity, and *)
(* "other" for the types the service receives and ignores.                   *)
(***************************************************************************)
EXTENDS Integers, Sequences, FiniteSets, FiniteSetsExt, Functions, TLC

CONSTANT Depth  \* levels per side in a snapshot (RSX_MD_SNAPSHOT_DEPTH)

ASSUME DepthAssumption == Depth \in Nat \ {0}

\* No book: what a symbol has before its first insert and after an eviction.
\* A snapshot of it is empty and numbered 0.
NoBook == [live |-> FALSE, seq |-> 0, slots |-> <<>>, map |-> <<>>]

EnsureBook(book) == IF book.live THEN book ELSE [NoBook EXCEPT !.live = TRUE]

Knows(book, id) == book.live /\ id \in DOMAIN book.map

OrderOf(book, id) == book.slots[book.map[id]]

\* A slot's handle is the number of the update that filled it.  A second
\* insert of one id takes a second slot, and order_map keeps only that one.
ApplyInsert(book, rec) ==
    LET handle == book.seq + 1 IN
    [book EXCEPT
        !.seq = handle,
        !.slots = @ @@ (handle :> [side |-> rec.side, px |-> rec.px, qty |-> rec.qty]),
        !.map = (rec.id :> handle) @@ @]

\* The order's slot is freed and its id forgotten.
ApplyCancel(book, id) ==
    [book EXCEPT
        !.seq = @ + 1,
        !.slots = Restrict(@, DOMAIN @ \ {book.map[id]}),
        !.map = Restrict(@, DOMAIN @ \ {id})]

\* Mutant of ApplyFill: an order filled to nothing keeps its slot.
ApplyFillKeepsSlot(book, id, qty) ==
    [book EXCEPT !.seq = @ + 1, !.slots[book.map[id]].qty = @ - qty]

\* A fill reduces the maker's order, and removes it when nothing remains.
ApplyFill(book, id, qty) ==
    IF OrderOf(book, id).qty - qty <= 0
    THEN ApplyCancel(book, id)
    ELSE [book EXCEPT !.seq = @ + 1, !.slots[book.map[id]].qty = @ - qty]

At(book, side, px) ==
    {handle \in DOMAIN book.slots :
        book.slots[handle].side = side /\ book.slots[handle].px = px}

\* One level, summed over the orders of that side and raw price.
LevelAt(book, side, px) ==
    LET orders == At(book, side, px) IN
    [qty |-> MapThenSumSet(LAMBDA handle : book.slots[handle].qty, orders),
     count |-> Cardinality(orders)]

\* The levels of both sides, each named by its side and price.
SideLevels(book) ==
    {<<book.slots[handle].side, book.slots[handle].px>> : handle \in DOMAIN book.slots}

Better(side, p, q) == IF side = "buy" THEN p > q ELSE p < q

\* The first Depth levels of each side, best first.
CollectLevels(book) ==
    LET levels == SideLevels(book)
        ahead(at) == {other \in levels : other[1] = at[1] /\ Better(at[1], other[2], at[2])}
    IN {at \in levels : Cardinality(ahead(at)) < Depth}

LevelsAt(book, levels) == [at \in levels |-> LevelAt(book, at[1], at[2])]

AllLevels(book) == LevelsAt(book, SideLevels(book))

\* The frames derived from a book.  "whole" is not on the wire: it tells
\* whether the snapshot left a level out.
DeriveL2Snapshot(symbol, book) ==
    LET shown == CollectLevels(book) IN
    [kind |-> "snapshot", sym |-> symbol, seq |-> book.seq,
     levels |-> LevelsAt(book, shown), whole |-> shown = SideLevels(book)]

\* Mutant of DeriveL2Delta: the level carries its newest order only.
DeriveL2DeltaNewest(symbol, book, side, px) ==
    LET orders == At(book, side, px) IN
    [kind |-> "delta", sym |-> symbol, seq |-> book.seq, at |-> <<side, px>>,
     level |-> [qty |-> IF orders = {} THEN 0 ELSE book.slots[Max(orders)].qty,
                count |-> Cardinality(orders)]]

DeriveL2Delta(symbol, book, side, px) ==
    [kind |-> "delta", sym |-> symbol, seq |-> book.seq, at |-> <<side, px>>,
     level |-> LevelAt(book, side, px)]

\* An empty book has no BBO.
HasBbo(book) == DOMAIN book.slots # {}

DeriveBbo(symbol, book) == [kind |-> "bbo", sym |-> symbol, seq |-> book.seq]

MakeTrade(symbol, book) == [kind |-> "trade", sym |-> symbol, seq |-> book.seq]
=============================================================================
