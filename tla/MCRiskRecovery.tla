--------------------------- MODULE MCRiskRecovery ---------------------------
(* Orders, users and scenario bounds for the runs of RiskRecovery.         *)
EXTENDS RiskRecovery

CONSTANTS m, s      \* the two nodes

\* Order 1 sells two lots, 2 and 3 buy one each; "c" is of another shard.
SmallOwner == [o \in 1 .. 3 |-> <<"a", "b", "c">>[o]]
SmallQty == [o \in 1 .. 3 |-> IF o = 1 THEN 2 ELSE 1]

\* The nodes are interchangeable.
EitherNode == Permutations(Nodes)

\* Orders are sent one after the other, and the later one is the taker.
InOrder ==
  /\ \A o, p \in Orders : o < p /\ order[o] \in {"new", "flight"} => order[p] = "new"
  /\ \A i \in DOMAIN wal : wal[i].type = "fill" => wal[i].taker > wal[i].maker

\* Either every order trades at once, or two orders take every other way out.
OneScenario ==
  /\ InOrder
  /\ \/ /\ \A o \in Orders : order[o] # "lost" /\ (order[o] = "gone" => left[o] = 0)
        /\ order[3] = "new" \/ order[2] = "gone"
     \/ order[3] = "new" /\ \A o \in Orders : left[o] = Qty[o]

Main(n) == shard[n].role = "live" /\ lock = n

\* The engine waits for the main to have read its last batch, and for a node
\* to have the lock: what it logs in between is read in the same catch-up.
LogRead ==
  /\ \A n \in Nodes : Main(n) => shard[n].applied = Len(wal)
  /\ lock # Free

\* A standby loads Postgres before the first order or when the lock is free,
\* and catches up when it could have the lock: what it reads earlier it would
\* apply in the same way.  What a live node without the lock would still read
\* stays in its memory until it is demoted.  Batches are cut anywhere until
\* the first fault, which may leave a transaction open, and the gap is at the
\* first order.
NodeBound(n) ==
  /\ tx'[n] # <<>> => faults = 0 \/ tx'[n] = tx[n]
  /\ 2 \in skewed' => 2 \in skewed \/ shard'[n].applied \in {0, shard[n].applied}
  /\ CASE shard[n].role = "down" /\ shard'[n].role = "warm" -> Len(wal) = 0 \/ lock = Free
       [] shard[n].role = "warm" -> lock = Free \/ shard'[n].applied \in {0, shard[n].applied}
       [] shard[n].role = "live" /\ lock # n -> shard'[n].applied \in {0, shard[n].applied}
       [] shard[n].role = "live" /\ faults > 0 -> pg' # pg => shard'[n].ring = <<>>
       [] OTHER -> TRUE

ScenarioNext ==
  \/ Engine /\ LogRead /\ OneScenario'
  \/ \E o \in Orders : ForeignOrder(o) /\ LogRead /\ OneScenario'
  \/ \E n \in Nodes : Node(n) /\ NodeBound(n) /\ OneScenario'

ScenarioSpec == Init /\ [][ScenarioNext]_vars
=============================================================================
