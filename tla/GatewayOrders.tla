---------------------------- MODULE GatewayOrders ----------------------------
(***************************************************************************)
(* The gateway's book-keeping of orders on their way to risk, as functions *)
(* on its values: the pending orders with their counters, the client order *)
(* ids of the dedup window, the circuit breaker and the token buckets.     *)
(* Times are small naturals; an option that is absent is None.             *)
(***************************************************************************)
EXTENDS Integers, Sequences, FiniteSets, FiniteSetsExt, Functions

CONSTANTS
  Cids,         \* client order ids (of one user)
  Capacity,     \* max_pending: Submitted orders
  Threshold,    \* failed sends that open the breaker
  Cooldown,     \* time an open breaker waits before its probe
  Window,       \* WINDOW_NS: how long a cid stays bound
  Burst,        \* [Limiters -> capacity of the bucket]
  None

Limiters == {"ip", "user", "instance"}

ASSUME OrdersAssumption ==
  /\ Capacity \in Nat \ {0} /\ Threshold \in Nat \ {0}
  /\ Cooldown \in Nat /\ Window \in Nat
  /\ Burst \in [Limiters -> Nat]

-----------------------------------------------------------------------------
(* PendingOrders: the tracked orders by id, with the counters kept beside  *)
(* them.  Ids grow, so the order of the queue is theirs.                   *)

NoOrders == [orders |-> <<>>, count |-> 0, inFlight |-> 0, timedOut |-> 0]

Enter(p, stage) ==
  [p EXCEPT !.inFlight = IF stage = "Submitted" THEN @ + 1 ELSE @,
            !.timedOut = IF stage = "TimedOut" THEN @ + 1 ELSE @]

Leave(p, stage) ==
  [p EXCEPT !.inFlight = IF stage = "Submitted" THEN @ - 1 ELSE @,
            !.timedOut = IF stage = "TimedOut" THEN @ - 1 ELSE @]

IsFull(p) == p.inFlight >= Capacity

Push(p, oid, order) ==
  IF order.stage = "Submitted" /\ IsFull(p) THEN p
  ELSE [Enter(p, order.stage) EXCEPT
          !.orders = [o \in DOMAIN @ \cup {oid} |-> IF o = oid THEN order ELSE @[o]],
          !.count = @ + 1]

Tracked(p, oid) == oid \in DOMAIN p.orders

RemoveOrder(p, oid) ==
  IF ~Tracked(p, oid) THEN p
  ELSE [Leave(p, p.orders[oid].stage) EXCEPT
          !.orders = Restrict(@, DOMAIN @ \ {oid}), !.count = @ - 1]

WithStage(orders, which, stage) ==
  [o \in DOMAIN orders |->
     IF o \in which THEN [orders[o] EXCEPT !.stage = stage] ELSE orders[o]]

MarkResting(p, oid) ==
  IF ~Tracked(p, oid) THEN p
  ELSE [Leave(p, p.orders[oid].stage) EXCEPT
          !.orders = WithStage(@, {oid}, "Resting")]

InStage(p, stage) == {o \in DOMAIN p.orders : p.orders[o].stage = stage}
StaleOrders(p, cutoff) == {o \in InStage(p, "Submitted") : p.orders[o].at < cutoff}

\* Mutant of TimeOut: an order that timed out is forgotten.
TimeOutForgets(p, cutoff) ==
  LET stale == StaleOrders(p, cutoff)
  IN [p EXCEPT !.orders = Restrict(@, DOMAIN @ \ stale),
               !.inFlight = @ - Cardinality(stale), !.count = @ - Cardinality(stale)]

TimeOut(p, cutoff) ==
  LET stale == StaleOrders(p, cutoff)
  IN [p EXCEPT !.orders = WithStage(@, stale, "TimedOut"),
               !.inFlight = @ - Cardinality(stale),
               !.timedOut = @ + Cardinality(stale)]

DropTimedOut(p, cutoff) ==
  LET dropped == {o \in InStage(p, "TimedOut") : p.orders[o].at < cutoff}
  IN [p EXCEPT !.orders = Restrict(@, DOMAIN @ \ dropped),
               !.count = @ - Cardinality(dropped),
               !.timedOut = @ - Cardinality(dropped)]

\* find_by_client_order_id: the oldest of that cid.
FindByCid(p, cid) ==
  LET hits == {o \in DOMAIN p.orders : p.orders[o].cid = cid}
  IN IF hits = {} THEN None ELSE Min(hits)

-----------------------------------------------------------------------------
(* ClientOrderIds.                                                         *)

Unbound == [oid |-> 0, at |-> 0]
NoBindings == [bound |-> [c \in Cids |-> Unbound], inserted |-> <<>>]

Bind(ids, cid, oid, now) ==
  [ids EXCEPT !.bound[cid] = [oid |-> oid, at |-> now],
              !.inserted = Append(@, [at |-> now, cid |-> cid])]

Release(ids, cid, oid) ==
  IF ids.bound[cid].oid = oid THEN [ids EXCEPT !.bound[cid] = Unbound] ELSE ids

\* The front of the queue that is older than the cutoff.
Expired(ids, cutoff) ==
  LET young == {i \in DOMAIN ids.inserted : ids.inserted[i].at >= cutoff}
  IN IF young = {} THEN Len(ids.inserted) ELSE Min(young) - 1

\* expire: an entry unbinds its cid if that is still bound since then.
Expire(ids, now) ==
  LET n == Expired(ids, now - Window)
      out == {ids.inserted[i].cid : i \in {j \in 1 .. n :
                ids.bound[ids.inserted[j].cid].at = ids.inserted[j].at}}
  IN [bound |-> [c \in Cids |-> IF c \in out THEN Unbound ELSE ids.bound[c]],
      inserted |-> SubSeq(ids.inserted, n + 1, Len(ids.inserted))]

-----------------------------------------------------------------------------
(* CircuitBreaker.                                                         *)

ClosedCircuit == [state |-> "Closed", fails |-> 0, failedAt |-> None, used |-> FALSE]

CoolEnough(cb, now) == cb.failedAt # None /\ now - cb.failedAt >= Cooldown
Cooled(cb, now) ==
  IF cb.state = "Open" /\ CoolEnough(cb, now)
  THEN [cb EXCEPT !.state = "HalfOpen", !.used = FALSE] ELSE cb

\* allow: its answer, and the breaker after it.
Allows(cb, now) ==
  LET c == Cooled(cb, now) IN c.state = "Closed" \/ (c.state = "HalfOpen" /\ ~c.used)
AfterAllow(cb, now) ==
  LET c == Cooled(cb, now) IN IF c.state = "HalfOpen" THEN [c EXCEPT !.used = TRUE] ELSE c

RecordSuccess(cb) ==
  CASE cb.state = "HalfOpen" -> [cb EXCEPT !.state = "Closed", !.fails = 0, !.used = FALSE]
    [] cb.state = "Closed" -> [cb EXCEPT !.fails = 0]
    [] OTHER -> cb

RecordFailure(cb, now) ==
  LET c == [cb EXCEPT !.fails = @ + 1, !.failedAt = now]
  IN CASE c.state = "Closed" ->
            IF c.fails >= Threshold THEN [c EXCEPT !.state = "Open"] ELSE c
       [] c.state = "HalfOpen" -> [c EXCEPT !.state = "Open", !.used = FALSE]
       [] OTHER -> c

-----------------------------------------------------------------------------
(* RateLimiter: one token per time unit, refilled as time passes.          *)

Refill(tokens) ==
  [l \in Limiters |-> IF tokens[l] < Burst[l] THEN tokens[l] + 1 ELSE tokens[l]]

\* admit_request spends ip, user and instance in this order; a refusal keeps
\* what was spent before it.
Refusals(tokens) == {l \in Limiters : tokens[l] = 0}
Spent(tokens) ==
  LET upTo == IF tokens["ip"] = 0 THEN {}
              ELSE IF tokens["user"] = 0 THEN {"ip"}
              ELSE IF tokens["instance"] = 0 THEN {"ip", "user"}
              ELSE Limiters
  IN [l \in Limiters |-> IF l \in upTo THEN tokens[l] - 1 ELSE tokens[l]]

-----------------------------------------------------------------------------
(* The values: the orders of the pending table are among those sent.       *)

Order == [cid : Cids, at : Nat, stage : {"Submitted", "Resting", "TimedOut"}]
Tables(n) == UNION {[S -> Order] : S \in SUBSET (1 .. n)}
Books(n) == [orders : Tables(n), count : Int, inFlight : Int, timedOut : Int]

\* The counters of a pending table are right.
Counted(p) ==
  /\ p.count = Cardinality(DOMAIN p.orders)
  /\ p.inFlight = Cardinality(InStage(p, "Submitted"))
  /\ p.inFlight <= Capacity
  /\ p.timedOut = Cardinality(InStage(p, "TimedOut"))

\* The bindings: a bound cid has its entry in the queue of insertions, which is
\* in the order of time.
Bindings == [oid : Nat, at : Nat]
Entries == [at : Nat, cid : Cids]
Ledgers == [bound : [Cids -> Bindings], inserted : Seq(Entries)]
Ascending(q) == \A i, j \in DOMAIN q : i <= j => q[i].at <= q[j].at
Recorded(d) ==
  \A c \in Cids : d.bound[c] # Unbound =>
    \E i \in DOMAIN d.inserted : d.inserted[i].at = d.bound[c].at /\ d.inserted[i].cid = c

Breakers == [state : {"Closed", "Open", "HalfOpen"}, fails : Nat,
             failedAt : Nat \cup {None}, used : BOOLEAN]
=============================================================================
