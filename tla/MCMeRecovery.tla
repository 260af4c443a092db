---------------------------- MODULE MCMeRecovery ----------------------------
(* Request sets for the model-checking runs of MeRecovery.                 *)
EXTENDS MeRecovery

Ask(user, side, px, qty, tif) ==
  [user |-> user, side |-> side, px |-> px, qty |-> qty, tif |-> tif,
   ro |-> FALSE, po |-> FALSE]

\* A spread far from the boot mid: both sides share a slot until a recenter,
\* which replay does not repeat.
FarRequests ==
  {Ask("a", "sell", 5306, 1, "GTC"), Ask("a", "sell", 5300, 1, "GTC"),
   Ask("b", "buy", 5302, 2, "GTC")}

\* A maker and its taker.
PairRequests == {Ask("a", "sell", 5300, 2, "GTC"), Ask("b", "buy", 5300, 1, "IOC")}

AllRequests == FarRequests \union PairRequests

\* A behaviour draws its orders from one of the two sets.  The process takes
\* checkpoints and applies a config among the pair only, the config beside
\* one order, and crashes among the far ones after two.
OneScenario ==
  \/ /\ ToSet(sent) \subseteq PairRequests /\ captured <= 1
     /\ Len(sent) <= IF polled THEN 1 ELSE 2
  \/ /\ ToSet(sent) \subseteq FarRequests /\ ~polled /\ captured = 0
     /\ Len(sent) <= IF crashes = 0 THEN 3 ELSE 2

ScenarioNext ==
  \/ Engine /\ OneScenario'
  \/ Flush /\ OneScenario'
  \/ Checkpoint /\ OneScenario'
  \/ Persist /\ OneScenario'
  \/ Configure /\ OneScenario'
  \/ WriteApplied /\ OneScenario'
  \/ Crash /\ OneScenario'
  \/ Shutdown /\ OneScenario'

ScenarioSpec == RecoveryInit /\ [][ScenarioNext]_allVars
=============================================================================
