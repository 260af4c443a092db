---------------------------- MODULE MCMarketdata ----------------------------
(***************************************************************************)
(* Two engines.  The first symbol's journal has two levels, of which a       *)
(* snapshot of depth 1 leaves one out, and a fill that empties the best of   *)
(* them; the second's has an order, a partial fill of it and its cancel.     *)
(***************************************************************************)
EXTENDS Marketdata

Ins(id, side, px, qty) == [t |-> "ins", id |-> id, side |-> side, px |-> px, qty |-> qty]

TwoJournals ==
    <<<<Ins(1, "buy", 10, 2), Ins(2, "buy", 9, 1), [t |-> "fill", id |-> 1, qty |-> 2]>>,
      <<Ins(3, "sell", 20, 2), [t |-> "fill", id |-> 3, qty |-> 1],
        [t |-> "can", id |-> 3]>>>>

Ahead == <<2, 1>>

OneMask == {{"depth", "bbo", "trades"}}
=============================================================================
