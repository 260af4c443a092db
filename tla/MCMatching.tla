----------------------------- MODULE MCMatching -----------------------------
(* Request sets for the model-checking runs of Matching.                   *)
EXTENDS Matching

Ask(user, side, px, qty, tif) ==
  [user |-> user, side |-> side, px |-> px, qty |-> qty, tif |-> tif,
   ro |-> FALSE, po |-> FALSE]
ReduceOnly(o) == [o EXCEPT !.ro = TRUE]
PostOnly(o) == [o EXCEPT !.po = TRUE]

\* Two prices that share a compressed slot above the mid (zone 1), one in
\* zone 0 below.  Every price is a multiple of 5.
MixedRequests ==
  {Ask("a", "sell", 31805, 1, "GTC"), Ask("a", "sell", 31800, 2, "GTC"),
   Ask("b", "buy", 31800, 1, "GTC"), Ask("b", "buy", 31805, 3, "GTC"),
   Ask("a", "sell", 29995, 2, "IOC"), Ask("b", "buy", 29995, 1, "GTC"),
   Ask("b", "buy", 31805, 2, "FOK")}

\* One price, and every kind of order at it.
TouchRequests ==
  {Ask("a", "sell", 30005, 1, "GTC"), Ask("b", "buy", 30005, 3, "GTC"),
   Ask("b", "buy", 30005, 3, "FOK"), PostOnly(Ask("b", "buy", 30005, 1, "GTC")),
   ReduceOnly(Ask("a", "buy", 30005, 2, "IOC")), ReduceOnly(Ask("a", "buy", 30000, 2, "GTC"))}

\* Takers of more than the makers that one order may consume.
CapRequests == {Ask("b", "buy", 31805, 3, "GTC"), Ask("b", "buy", 31805, 3, "FOK")}

AllRequests == MixedRequests \union TouchRequests \union CapRequests

\* A behaviour draws its orders from one of the first two sets, and sends a
\* taker of the third behind three sells that share the compressed slot.
\* Dedup keys age out and a config is applied among the second only.
OneScenario(orders) ==
  \/ ToSet(orders) \subseteq TouchRequests /\ Len(orders) <= 3
  \/ /\ aged = 0 /\ book.tick = Tick
     /\ \/ ToSet(orders) \subseteq MixedRequests /\ Len(orders) <= 3
        \/ /\ Len(orders) = 4 /\ orders[4] \in CapRequests
           /\ \A i \in 1..3 : orders[i].side = "sell" /\ orders[i].tif = "GTC"

ScenarioNext ==
  \/ \E o \in Requests : OneScenario(Append(sent, o)) /\ NewOrder(o)
  \/ \E oid \in DOMAIN sent : Resend(oid) \/ ProcessCancel(oid)
  \/ \E u \in Users : Maintain(u)
  \/ Evict /\ OneScenario(sent)'
  \/ \E tick \in NewTicks : ApplyConfig(tick) /\ OneScenario(sent)'

ScenarioSpec == Init /\ [][ScenarioNext]_vars

\* Prices one apart: one slot when the tick is 2, two when it is 1.
TickRequests ==
  {Ask("a", "sell", 10003, 1, "GTC"), Ask("a", "sell", 10002, 1, "GTC"),
   Ask("b", "buy", 10002, 1, "GTC"), Ask("b", "buy", 10003, 1, "GTC")}
=============================================================================
