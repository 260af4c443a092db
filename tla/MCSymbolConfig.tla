---------------------------- MODULE MCSymbolConfig ----------------------------
(* A small instance of the two halves of the way of a configuration: to the
   engine and risk (SymbolConfig), whose host's clock is one unit behind, and
   to the gateway (GatewayFeed).  They share no state: each moves while the
   other is at its start. *)
EXTENDS SymbolConfig, GatewayFeed

MCSeed ==
  [tick_size |-> 1, min_notional |-> 1, funding_min |-> -1, funding_max |-> 1,
   initial_margin |-> 3, maintenance_margin |-> 2, max_leverage |-> 1,
   funding_interval |-> 1]

\* A valid change, and one for each check to refuse.
MCChanges ==
  {[tick_size |-> 2], [maintenance_margin |-> 3],
   [tick_size |-> 0], [max_leverage |-> 9], [funding_interval |-> 2]}

MCLag == [engine |-> 0, risk |-> 1]

allVars == <<vars, feedVars>>

OnlyConfig(A) == FeedInit /\ A /\ UNCHANGED feedVars
OnlyFeed(A) == Init /\ A /\ UNCHANGED vars

MCNext == OnlyConfig(Next) \/ OnlyFeed(FeedNext)

(***************************************************************************)
(* The clock, every thread and every timer run on; a stopped engine or     *)
(* shard is started again by its supervisor, and a warm node wins the free *)
(* lease.  Nothing is assumed of the operators, of a record yet to be      *)
(* forwarded, of a request to the gateway's sidecar or of a fault.  Each   *)
(* step on the way to engine and risk uses something up, a tick, a version *)
(* or a record: that one of them is taken while there are any left is that *)
(* each of them is fair.                                                   *)
(***************************************************************************)
MCFairness ==
  /\ WF_allVars(OnlyConfig(Tick \/ Engine \/ Risk))
  /\ WF_allVars(OnlyFeed(Receive))
  /\ WF_allVars(OnlyFeed(Reactor))
  /\ WF_allVars(OnlyFeed(SidecarPoll))

MCInit == Init /\ FeedInit

MCSpec == MCInit /\ [][MCNext]_allVars /\ MCFairness
=============================================================================
