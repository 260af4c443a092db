--------------------------- MODULE MCRiskTrading ----------------------------
(* Users, orders and prices of one risk shard (RiskTrading), and two mains
   that follow each other (RiskFunding).  The two share no state: each moves
   while the other is at its start. *)
EXTENDS RiskTrading, RiskFunding

TwoUsers == <<"a", "b">>
SmallCollateral == [u \in {"a", "b"} |-> IF u = "a" THEN 6 ELSE 10]

Limit(id, user, side, price, qty) ==
  [id |-> id, user |-> user, side |-> side, price |-> price, qty |-> qty,
   reduceOnly |-> FALSE, liquidation |-> FALSE, rests |-> TRUE]

\* "a" opens a long and may flip it; "b" is the other side and later bids low.
FourOrders ==
  <<Limit(1, "a", "buy", 8, 1), Limit(2, "b", "sell", 8, 1),
    Limit(3, "b", "buy", 4, 2), Limit(4, "a", "sell", 4, 2)>>

LowestRate == -5000

OneBbo == {[bidPx |-> 2, bidQty |-> 1, askPx |-> 4, askQty |-> 1]}

\* The two mains see different prices.
TwoPayments == [p \in {"m", "s"} |-> IF p = "m" THEN 1 ELSE 2]

allVars == <<vars, fundingVars>>

OnlyTrading(A) == FundingInit /\ A /\ UNCHANGED fundingVars
OnlyFunding(A) == Init /\ A /\ UNCHANGED vars

MCNext == OnlyTrading(Next) \/ OnlyFunding(FundingNext)

(***************************************************************************)
(* The clock and every thread of a process run on, and a stopped process   *)
(* is started again.  Nothing is assumed of trades, of the end of an       *)
(* abandoned transaction or of losses.                                     *)
(***************************************************************************)
MainThread(p) ==
  \/ LoadShard(p) \/ WarmFill(p) \/ Promote(p)
  \/ SettleFunding(p) \/ CircuitOpens(p) \/ StopDropping(p)

MCFairness ==
  /\ WF_allVars(OnlyFunding(NextHour))
  /\ \A p \in Mains : /\ WF_allVars(OnlyFunding(MainThread(p)))
                      /\ WF_allVars(OnlyFunding(FlushEvents(p)))

MCInit == Init /\ FundingInit

MCSpec == MCInit /\ [][MCNext]_allVars /\ MCFairness
=============================================================================
