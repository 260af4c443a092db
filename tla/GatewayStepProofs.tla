-------------------------- MODULE GatewayStepProofs --------------------------
(***************************************************************************)
(* The steps of the gateway keep its invariants, given what the operations *)
(* on its tables promise: the promises are stated here, GatewayOrdersProofs *)
(* proves them, and GatewayProofs puts the two together.                   *)
(***************************************************************************)
EXTENDS Gateway, TLAPS

-----------------------------------------------------------------------------
(* What the operations on the tables promise.                              *)

\* push: the order is in the table, beside those that were.
PushPromise ==
  \A n \in Nat, cid \in Cids, at \in Nat : \A p \in Books(n) : \A q :
    Counted(p) /\ ~IsFull(p) /\ q = Push(p, n + 1, [cid |-> cid, at |-> at, stage |-> "Submitted"])
    => /\ q \in Books(n + 1) /\ Counted(q)
       /\ DOMAIN q.orders = DOMAIN p.orders \cup {n + 1}
       /\ q.orders[n + 1] = [cid |-> cid, at |-> at, stage |-> "Submitted"]
       /\ \A o \in DOMAIN p.orders : q.orders[o] = p.orders[o]

\* An answer of risk: only its order changes, and leaves only when it is over.
RoutePromise ==
  \A n \in Nat : \A p \in Books(n) : \A q, e :
    /\ Counted(p)
    /\ \/ e.kind = "inserted" /\ q = MarkResting(p, e.oid)
       \/ e.kind \in {"done", "failed"} /\ q = RemoveOrder(p, e.oid)
       \/ e.kind = "fill" /\ q = p
    => /\ q \in Books(n) /\ Counted(q)
       /\ DOMAIN q.orders \subseteq DOMAIN p.orders
       /\ \A o \in DOMAIN q.orders :
            q.orders[o].cid = p.orders[o].cid /\ q.orders[o].at = p.orders[o].at
       /\ \A o \in DOMAIN p.orders :
            o \in DOMAIN q.orders \/ (o = e.oid /\ e.kind \in {"done", "failed"})
       /\ \A o \in DOMAIN q.orders :
            q.orders[o].stage = p.orders[o].stage \/ (o = e.oid /\ e.kind # "fill")

\* The sweep drops orders past the window, and times out the stale ones.
SweepLeaves(n, p, q, b, stale) ==
  /\ q \in Books(n) /\ Counted(q)
  /\ DOMAIN q.orders \subseteq DOMAIN p.orders
  /\ \A o \in DOMAIN q.orders :
       q.orders[o].cid = p.orders[o].cid /\ q.orders[o].at = p.orders[o].at
  /\ \A o \in DOMAIN p.orders : o \in DOMAIN q.orders \/ p.orders[o].at < b
  /\ \A o \in DOMAIN p.orders : p.orders[o].stage = "Submitted" /\ o \notin stale
       => o \in DOMAIN q.orders /\ q.orders[o].stage = "Submitted"

SweepPromise ==
  \A n \in Nat, a \in Int, b \in Int : \A p \in Books(n) :
    Counted(p) => SweepLeaves(n, p, DropTimedOut(TimeOut(p, a), b), b, StaleOrders(p, a))

\* No order is in flight when the counter is 0.
FlightPromise ==
  \A n \in Nat : \A p \in Books(n) :
    /\ \A cutoff : Cardinality(StaleOrders(p, cutoff)) \in Nat
    /\ Counted(p) /\ p.inFlight = 0 => InStage(p, "Submitted") = {}

\* insert, release_failed and expire: which bindings change, and that the queue
\* of insertions stays in order.
BindPromise ==
  \A d \in Ledgers, t \in Nat, cid \in Cids, oid \in Nat : \A e :
    /\ Ascending(d.inserted) /\ Recorded(d) /\ \A i \in DOMAIN d.inserted : d.inserted[i].at <= t
    /\ e = Bind(d, cid, oid, t)
    => /\ e \in Ledgers /\ Ascending(e.inserted) /\ Recorded(e)
       /\ \A i \in DOMAIN e.inserted : e.inserted[i].at <= t
       /\ e.bound[cid].oid = oid /\ e.bound[cid].at = t
       /\ \A c \in Cids : c # cid => e.bound[c] = d.bound[c]

ReleasePromise ==
  \A d \in Ledgers, cid \in Cids, oid \in Nat \ {0} : \A e :
    Recorded(d) /\ e = Release(d, cid, oid)
    => /\ e \in Ledgers /\ e.inserted = d.inserted /\ Recorded(e) /\ e.bound[cid].oid # oid
       /\ \A x \in Cids : \/ e.bound[x] = d.bound[x]
                          \/ e.bound[x] = Unbound /\ x = cid /\ d.bound[x].oid = oid

ExpirePromise ==
  \A d \in Ledgers, t \in Nat : \A e :
    Ascending(d.inserted) /\ Recorded(d) /\ e = Expire(d, t)
    => /\ e \in Ledgers /\ Ascending(e.inserted) /\ Recorded(e)
       /\ \A i \in DOMAIN e.inserted : \E j \in DOMAIN d.inserted : e.inserted[i] = d.inserted[j]
       /\ \A c \in Cids : d.bound[c] = Unbound => e.bound[c] = Unbound
       /\ \A c \in Cids : d.bound[c] # Unbound /\ d.bound[c].at < t - Window
            => e.bound[c] = Unbound
       /\ \A c \in Cids : d.bound[c] # Unbound /\ ~(d.bound[c].at < t - Window)
            => e.bound[c] = d.bound[c]

\* The buckets: a request takes at most a token of each, and one of each when no
\* bucket refuses; a refill adds at most one.
SpendPromise ==
  \A b \in [Limiters -> Nat] :
    /\ Spent(b) \in [Limiters -> Nat] /\ \A l \in Limiters : Spent(b)[l] <= b[l]
    /\ Refusals(b) = {} => \A l \in Limiters : b[l] >= 1 /\ Spent(b)[l] = b[l] - 1

RefillPromise ==
  \A b \in [Limiters -> Nat] : (\A l \in Limiters : b[l] <= Burst[l])
    => /\ Refill(b) \in [Limiters -> Nat]
       /\ \A l \in Limiters : Refill(b)[l] <= Burst[l] /\ Refill(b)[l] <= b[l] + 1

\* The breaker is half open only within a request.
BreakerPromise ==
  \A cb \in Breakers, t \in Nat : \A a :
    cb.state # "HalfOpen" /\ a = AfterAllow(cb, t)
    => /\ a \in Breakers
       /\ ~Allows(cb, t) => a.state # "HalfOpen"
       /\ Allows(cb, t) => /\ RecordSuccess(a) \in Breakers
                           /\ RecordSuccess(a).state # "HalfOpen"
                           /\ RecordFailure(a, t) \in Breakers
                           /\ RecordFailure(a, t).state # "HalfOpen"

\* find_by_cid: the first of the orders with the cid is one of them.
FindPromise ==
  \A n \in Nat : \A p \in Books(n) : \A cid :
    FindByCid(p, cid) # None => FindByCid(p, cid) \in DOMAIN p.orders

Promises ==
  /\ PushPromise /\ RoutePromise /\ SweepPromise /\ FlightPromise
  /\ BindPromise /\ ReleasePromise /\ ExpirePromise
  /\ SpendPromise /\ RefillPromise /\ BreakerPromise /\ FindPromise

-----------------------------------------------------------------------------
(* The values of the variables.                                            *)

Phases == {"Serving", "Draining", "Closing", "Exited"}
Sends == [cid : Cids, at : Nat]
Kinds == {"inserted", "done", "failed", "fill"}

Types ==
  /\ now \in Nat /\ lastSweep \in Nat /\ lastSweep <= now /\ now - lastSweep <= SweepEvery
  /\ phase \in Phases /\ phaseEnds \in Nat /\ stop \in BOOLEAN
  /\ sent \in Seq(Sends)
  /\ \A o \in DOMAIN sent : sent[o].at <= now
  /\ answered \subseteq DOMAIN sent /\ failed \subseteq DOMAIN sent
  /\ risk \in Seq({"sent", "open", "cancelling", "gone"}) /\ Len(risk) = Len(sent)
  /\ ring \in Seq([kind : Kinds, oid : Nat])
  /\ \A k \in DOMAIN ring : ring[k].oid \in DOMAIN sent

\* The counters are right, and an entry of the table is of the order sent.
Linked ==
  \A o \in DOMAIN pending.orders :
    pending.orders[o].cid = sent[o].cid /\ pending.orders[o].at = sent[o].at

BookInv == pending \in Books(Len(sent)) /\ Counted(pending) /\ Linked

\* The breaker is not half open between two steps.
CircuitInv == circuit \in Breakers /\ circuit.state # "HalfOpen"

\* A bucket holds no more than its capacity, less the orders passed since any
\* one of them, plus the refill since then.
RateInv ==
  /\ tokens \in [Limiters -> Nat] /\ \A l \in Limiters : tokens[l] <= Burst[l]
  /\ \A l \in Limiters, i \in DOMAIN sent :
       tokens[l] + Len(sent) - i + 1 <= Burst[l] + now - sent[i].at
  /\ RateIsBounded

\* An order without an answer is in flight, and the last sweep found it young;
\* the drain began after the last order was sent.
AnswerInv ==
  /\ \A o \in DOMAIN sent \ answered :
       /\ o \in InStage(pending, "Submitted")
       /\ lastSweep - Timeout <= sent[o].at
  /\ phase = "Draining" => \A o \in DOMAIN sent : sent[o].at <= phaseEnds - DrainBound
  /\ DrainAnswersAll

\* What is under way from risk: the first answer of an order finds it "sent",
\* its last one leaves it "gone", and a failure is the only answer.
RingInv ==
  /\ \A k \in DOMAIN ring : risk[ring[k].oid] # "sent"
  /\ \A k \in DOMAIN ring : ring[k].kind \in {"done", "failed"} => risk[ring[k].oid] = "gone"
  /\ \A k \in DOMAIN ring : ring[k].kind = "failed" =>
       \A j \in DOMAIN ring : ring[j].oid = ring[k].oid => j = k

\* A bound cid is bound by an order sent, at the time it was sent.
IdsInv ==
  /\ ids \in Ledgers /\ Ascending(ids.inserted) /\ Recorded(ids)
  /\ \A i \in DOMAIN ids.inserted : ids.inserted[i].at <= now
  /\ \A c \in Cids : ids.bound[c] # Unbound =>
       ids.bound[c].oid \in DOMAIN sent /\ ids.bound[c].at = sent[ids.bound[c].oid].at

\* An order keeps its cid until it fails or ages; while its failure may still
\* come, it is tracked or no longer holds its cid.
Holds(o) == ids.bound[sent[o].cid].oid = o
CidInv ==
  /\ \A o \in DOMAIN sent : o \in failed \/ now - sent[o].at > Window \/ Holds(o)
  /\ OneOrderPerCid
  /\ FailureFreesCid
  /\ \A o \in DOMAIN sent : risk[o] = "sent" => Tracked(pending, o) \/ ~Holds(o)
  /\ \A k \in DOMAIN ring : ring[k].kind = "failed" =>
       Tracked(pending, ring[k].oid) \/ ~Holds(ring[k].oid)

CoreInv ==
  Types /\ BookInv /\ CircuitInv /\ RateInv /\ AnswerInv /\ RingInv /\ LiveIsCancellable
  /\ IdsInv /\ CidInv

-----------------------------------------------------------------------------
(* Sequences: an element replaced, one appended, and the first removed.    *)

LEMMA Replaced ==
    ASSUME NEW T, NEW s \in Seq(T), NEW o \in DOMAIN s, NEW v \in T,
           NEW r, r = [s EXCEPT ![o] = v]
    PROVE  /\ r \in Seq(T) /\ Len(r) = Len(s)
           /\ r[o] = v /\ \A x \in DOMAIN s : x # o => r[x] = s[x]
  OBVIOUS

LEMMA Appended ==
    ASSUME NEW T, NEW s \in Seq(T), NEW e \in T, NEW r, r = Append(s, e),
           NEW n \in Nat, n = Len(s)
    PROVE  /\ r \in Seq(T) /\ Len(r) = n + 1
           /\ \A k \in DOMAIN r : k \in DOMAIN s \/ k = n + 1
           /\ \A k \in DOMAIN s : k # n + 1 /\ k \in DOMAIN r /\ r[k] = s[k]
           /\ n + 1 \in DOMAIN r /\ r[n + 1] = e
  OBVIOUS

LEMMA Shifted ==
    ASSUME NEW T, NEW s \in Seq(T), s # <<>>, NEW r, r = Tail(s)
    PROVE  /\ r \in Seq(T) /\ 1 \in DOMAIN s /\ Head(s) = s[1]
           /\ \A k \in DOMAIN r : k + 1 \in DOMAIN s /\ k + 1 # 1 /\ r[k] = s[k + 1]
  OBVIOUS

-----------------------------------------------------------------------------
(* What a step leaves alone.                                               *)

core == <<now, stop, phase, phaseEnds, lastSweep, pending, ids, circuit, tokens,
          risk, ring, sent, answered, failed>>

(* Each part of the invariant depends on its variables only. *)
LEMMA Frame ==
    ASSUME CoreInv
    PROVE  /\ UNCHANGED <<pending, sent>> => BookInv'
           /\ UNCHANGED circuit => CircuitInv'
           /\ UNCHANGED <<tokens, sent, now>> => RateInv'
           /\ UNCHANGED <<sent, answered, pending, lastSweep, phase, phaseEnds>> => AnswerInv'
           /\ UNCHANGED <<ring, risk>> => RingInv'
           /\ UNCHANGED <<sent, risk, pending, now>> => LiveIsCancellable'
           /\ UNCHANGED <<ids, now, sent>> => IdsInv'
           /\ UNCHANGED <<sent, failed, now, ids, risk, pending, ring>> => CidInv'
  <1>1. UNCHANGED <<pending, sent>> => BookInv'
    BY Zenon DEF CoreInv, BookInv, Counted, InStage, Linked
  <1>2. UNCHANGED circuit => CircuitInv'
    BY Zenon DEF CoreInv, CircuitInv
  <1>3. UNCHANGED <<tokens, sent, now>> => RateInv'
    BY Zenon DEF CoreInv, RateInv, RateIsBounded
  <1>4. UNCHANGED <<sent, answered, pending, lastSweep, phase, phaseEnds>> => AnswerInv'
    BY Zenon DEF CoreInv, AnswerInv, InStage, DrainAnswersAll
  <1>5. UNCHANGED <<ring, risk>> => RingInv'
    BY Zenon DEF CoreInv, RingInv
  <1>6. UNCHANGED <<sent, risk, pending, now>> => LiveIsCancellable'
    BY Zenon DEF CoreInv, LiveIsCancellable, Tracked
  <1>7. UNCHANGED <<ids, now, sent>> => IdsInv'
    BY DEF CoreInv, IdsInv, Ascending, Recorded
  <1>8. UNCHANGED <<sent, failed, now, ids, risk, pending, ring>> => CidInv'
    BY Zenon DEF CoreInv, CidInv, OneOrderPerCid, FailureFreesCid, Holds, Tracked
  <1> QED BY <1>1, <1>2, <1>3, <1>4, <1>5, <1>6, <1>7, <1>8

-----------------------------------------------------------------------------
(* The steps of a session, of risk, of the signal and of the clock.        *)

(* The orders sent, by their number. *)
LEMMA SentTypes ==
    ASSUME Types
    PROVE  /\ now \in Nat /\ Len(sent) \in Nat /\ DOMAIN sent = 1 .. Len(sent)
           /\ DOMAIN risk = DOMAIN sent
           /\ \A o \in DOMAIN sent : /\ o \in Nat /\ o >= 1 /\ o <= Len(sent)
                                     /\ sent[o].cid \in Cids /\ sent[o].at \in Nat
                                     /\ sent[o].at <= now
  <1>1. /\ sent \in Seq(Sends) /\ now \in Nat
        /\ \A o \in DOMAIN sent : sent[o].at <= now
    BY Zenon DEF Types
  <1>2. /\ Len(sent) \in Nat /\ DOMAIN sent = 1 .. Len(sent)
        /\ \A o \in DOMAIN sent : sent[o] \in Sends
    BY <1>1
  <1>3. DOMAIN risk = DOMAIN sent
    BY <1>2 DEF Types
  <1>4. \A o \in DOMAIN sent : sent[o].cid \in Cids /\ sent[o].at \in Nat
    BY <1>2, Zenon DEF Sends
  <1>5. \A o \in DOMAIN sent : o \in Nat /\ o >= 1 /\ o <= Len(sent)
    BY <1>2
  <1> QED BY <1>1, <1>2, <1>3, <1>4, <1>5, Zenon

(* The orders of the table are among those sent. *)
LEMMA TrackedAreSent ==
    ASSUME CoreInv
    PROVE  DOMAIN pending.orders \subseteq DOMAIN sent
  <1>1. pending \in Books(Len(sent)) /\ DOMAIN sent = 1 .. Len(sent)
    BY SentTypes, Zenon DEF CoreInv, BookInv
  <1>2. pending.orders \in Tables(Len(sent))
    BY <1>1 DEF Books
  <1>3. PICK S \in SUBSET (1 .. Len(sent)) : pending.orders \in [S -> Order]
    BY <1>2, Zenon DEF Tables
  <1>4. DOMAIN pending.orders = S
    BY <1>3, Zenon
  <1> QED BY <1>1, <1>3, <1>4, Zenon

LEMMA Spending ==
    ASSUME NEW t \in Nat, NEW u \in Nat, u <= t, NEW n \in Nat, NEW i \in Nat,
           NEW b \in Nat, NEW at \in Nat, NEW time \in Nat, t + n - i + 1 <= b + time - at
    PROVE  u + n - i + 1 <= b + time - at
  OBVIOUS

(* What a request spends keeps the bound on the rate. *)
LEMMA SpendStep ==
    ASSUME SpendPromise,
           CoreInv, tokens' = Spent(tokens), UNCHANGED <<sent, now>>
    PROVE  RateInv'
  <1>1. /\ tokens \in [Limiters -> Nat] /\ \A l \in Limiters : tokens[l] <= Burst[l]
        /\ \A l \in Limiters, i \in DOMAIN sent :
             tokens[l] + Len(sent) - i + 1 <= Burst[l] + now - sent[i].at
        /\ RateIsBounded
    BY Zenon DEF CoreInv, RateInv
  <1>2. tokens' \in [Limiters -> Nat] /\ \A l \in Limiters : tokens'[l] <= tokens[l]
    BY <1>1, Zenon DEF SpendPromise
  <1>3. \A l \in Limiters : tokens[l] \in Nat /\ tokens'[l] \in Nat /\ Burst[l] \in Nat
    BY <1>1, <1>2, OrdersAssumption, Zenon
  <1>4. /\ now \in Nat /\ Len(sent) \in Nat
        /\ \A i \in DOMAIN sent : i \in Nat /\ sent[i].at \in Nat
    BY SentTypes, Zenon DEF CoreInv
  <1>5. ASSUME NEW l \in Limiters, NEW i \in DOMAIN sent
        PROVE  tokens'[l] + Len(sent) - i + 1 <= Burst[l] + now - sent[i].at
    <2>1. tokens[l] + Len(sent) - i + 1 <= Burst[l] + now - sent[i].at
      BY <1>1, Zenon
    <2> QED BY <1>2, <1>3, <1>4, <2>1, Spending, Zenon
  <1>6. \A l \in Limiters : tokens'[l] <= Burst[l]
    BY <1>1, <1>2, <1>3
  <1>7. RateIsBounded'
    BY <1>1, Zenon DEF RateIsBounded
  <1> QED BY <1>2, <1>5, <1>6, <1>7, Zenon DEF RateInv

(* An order that is refused or not sent leaves everything but the buckets and
   the breaker as it was. *)
LEMMA NewOrderStep ==
    ASSUME SpendPromise, BreakerPromise,
           CoreInv, NEW c \in Conns, NEW cid \in Cids, NewOrder(c, cid)
    PROVE  CoreInv'
  <1>1. UNCHANGED <<now, stop, phase, phaseEnds, lastSweep, pending, ids, risk, ring, sent,
                    answered, failed>>
    BY Zenon DEF NewOrder, NewOrderRejected, NewOrderRefused, NewOrderUnsent, Handled, clock, loop,
           external
  <1>2. tokens' = Spent(tokens)
    BY Zenon DEF NewOrder, NewOrderRejected, NewOrderRefused, NewOrderUnsent
  <1>3. circuit \in Breakers /\ circuit.state # "HalfOpen" /\ now \in Nat
    BY Zenon DEF CoreInv, CircuitInv, Types
  <1>4. PICK a : a = AfterAllow(circuit, now)
    BY Zenon
  <1>5. CircuitInv'
    <2>1. CASE NewOrderRejected(c, cid)
      BY <1>3, <2>1, Zenon DEF NewOrderRejected, CircuitInv
    <2>2. CASE NewOrderRefused(c, cid)
      <3>1. circuit' = circuit \/ (circuit' = a /\ ~Allows(circuit, now))
        BY <1>4, <2>2, Zenon DEF NewOrderRefused
      <3> QED BY <1>3, <1>4, <3>1, Zenon DEF CircuitInv, BreakerPromise
    <2>3. CASE NewOrderUnsent(c, cid)
      <3>1. circuit' = RecordFailure(a, now) /\ Allows(circuit, now)
        BY <1>4, <2>3, Zenon DEF NewOrderUnsent
      <3> QED BY <1>3, <1>4, <3>1, Zenon DEF CircuitInv, BreakerPromise
    <2> QED BY <2>1, <2>2, <2>3, Zenon DEF NewOrder
  <1>6. RateInv'
    BY <1>1, <1>2, SpendStep, Zenon
  <1>7. Types'
    BY <1>1, Zenon DEF CoreInv, Types
  <1> QED BY <1>1, <1>5, <1>6, <1>7, Frame, Zenon DEF CoreInv

(* A cancel: the order may be on its way out at risk. *)
LEMMA CancelStep ==
    ASSUME SpendPromise, FindPromise,
           CoreInv, NEW c \in Conns, NEW cid \in Cids, Cancel(c, cid)
    PROVE  CoreInv'
  <1>1. UNCHANGED <<now, stop, phase, phaseEnds, lastSweep, pending, ids, circuit, ring, sent,
                    answered, failed>>
    BY Zenon DEF Cancel, Handled, clock, loop
  <1>2. tokens' = Spent(tokens)
    BY Zenon DEF Cancel
  <1>3. PICK o \in DOMAIN risk :
          risk' = [risk EXCEPT ![o] = IF risk[o] = "open" THEN "cancelling" ELSE risk[o]]
    <2>1. PICK n \in Nat : n = Len(sent)
      BY SentTypes, Zenon DEF CoreInv
    <2>2. PICK p \in Books(n) : p = pending
      BY <2>1, Zenon DEF CoreInv, BookInv
    <2>3. FindByCid(p, cid) \in DOMAIN p.orders
      BY <2>2, Zenon DEF Cancel, FindPromise
    <2>4. FindByCid(pending, cid) \in DOMAIN risk
      BY <2>2, <2>3, TrackedAreSent, SentTypes, Zenon DEF CoreInv
    <2> QED BY <2>4, Zenon DEF Cancel
  <1>4. risk \in Seq({"sent", "open", "cancelling", "gone"}) /\ Len(risk) = Len(sent)
    BY Zenon DEF CoreInv, Types
  <1>5. /\ risk' \in Seq({"sent", "open", "cancelling", "gone"}) /\ Len(risk') = Len(sent)
        /\ \A x \in DOMAIN risk :
             risk'[x] = risk[x] \/ (risk[x] = "open" /\ risk'[x] = "cancelling")
    <2>1. PICK v : v = IF risk[o] = "open" THEN "cancelling" ELSE risk[o]
      BY Zenon
    <2>2. v \in {"sent", "open", "cancelling", "gone"}
      BY <1>4, <2>1
    <2> QED BY <1>3, <1>4, <2>1, <2>2, Replaced
  <1>6. DOMAIN risk = DOMAIN sent
    BY SentTypes, Zenon DEF CoreInv
  <1>7. Types'
    BY <1>1, <1>5, Zenon DEF CoreInv, Types
  <1>8. RingInv'
    <2>1. \A k \in DOMAIN ring : ring[k].oid \in DOMAIN risk
      BY <1>6, Zenon DEF CoreInv, Types
    <2> QED BY <1>1, <1>5, <2>1 DEF CoreInv, RingInv
  <1>9. LiveIsCancellable'
    BY <1>1, <1>5, <1>6, Zenon DEF CoreInv, LiveIsCancellable, Tracked
  <1>10. CidInv'
    BY <1>1, <1>5, <1>6, Zenon DEF CoreInv, CidInv, OneOrderPerCid, FailureFreesCid, Holds, Tracked
  <1>11. RateInv'
    BY <1>1, <1>2, SpendStep, Zenon
  <1> QED BY <1>1, <1>7, <1>8, <1>9, <1>10, <1>11, Frame DEF CoreInv

(* What risk's answers do to an order. *)
LEMMA AnswerKinds ==
    ASSUME NEW a \in RiskAnswers
    PROVE  /\ a[1] \in {"sent", "open", "cancelling"} /\ a[2] \in Kinds /\ a[3] \in {"open", "gone"}
           /\ a[2] \in {"done", "failed"} => a[3] = "gone"
           /\ a[2] = "failed" => a[1] = "sent"
  BY DEF RiskAnswers, Kinds

(* Risk answers: the answer is under way, or lost. *)
LEMMA RiskAnswerStep ==
    ASSUME CoreInv, NEW o \in DOMAIN risk, NEW a \in RiskAnswers, RiskAnswer(o, a)
    PROVE  CoreInv'
  <1>1. UNCHANGED <<now, stop, phase, phaseEnds, lastSweep, pending, ids, circuit, tokens, sent,
                    answered, failed>>
    BY Zenon DEF RiskAnswer, clock, loop
  <1>2. PICK from, kind, to : from = a[1] /\ kind = a[2] /\ to = a[3]
    BY Zenon
  <1>3. /\ from \in {"sent", "open", "cancelling"} /\ kind \in Kinds /\ to \in {"open", "gone"}
        /\ kind \in {"done", "failed"} => to = "gone"
        /\ kind = "failed" => from = "sent"
    BY <1>2, AnswerKinds, Zenon
  <1>4. PICK e : e = [kind |-> kind, oid |-> o]
    BY Zenon
  <1>5. /\ risk[o] = from /\ risk' = [risk EXCEPT ![o] = to]
        /\ ring' = Append(ring, e) \/ ring' = ring
    BY <1>2, <1>4, Zenon DEF RiskAnswer
  <1>6. DOMAIN risk = DOMAIN sent /\ o \in DOMAIN sent /\ o \in Nat
    BY SentTypes, Zenon DEF CoreInv
  <1>7. /\ risk \in Seq({"sent", "open", "cancelling", "gone"}) /\ Len(risk) = Len(sent)
        /\ ring \in Seq([kind : Kinds, oid : Nat])
        /\ \A k \in DOMAIN ring : ring[k].oid \in DOMAIN sent
    BY Zenon DEF CoreInv, Types
  <1>8. /\ risk' \in Seq({"sent", "open", "cancelling", "gone"}) /\ Len(risk') = Len(sent)
        /\ risk'[o] = to /\ \A x \in DOMAIN risk : x # o => risk'[x] = risk[x]
    <2>1. to \in {"sent", "open", "cancelling", "gone"}
      BY <1>3, Zenon
    <2> QED BY <1>5, <1>7, <2>1, Replaced
  <1>9. e \in [kind : Kinds, oid : Nat] /\ e.kind = kind /\ e.oid = o
    BY <1>3, <1>4, <1>6, Zenon
  <1>10. /\ \A k \in DOMAIN ring : risk[ring[k].oid] # "sent"
         /\ \A k \in DOMAIN ring : ring[k].kind \in {"done", "failed"} => risk[ring[k].oid] = "gone"
         /\ \A k \in DOMAIN ring : ring[k].kind = "failed" =>
              \A j \in DOMAIN ring : ring[j].oid = ring[k].oid => j = k
    BY Zenon DEF CoreInv, RingInv
  <1>11. /\ \A x \in DOMAIN sent : risk[x] = "sent" => Tracked(pending, x) \/ ~Holds(x)
         /\ \A k \in DOMAIN ring : ring[k].kind = "failed" =>
              Tracked(pending, ring[k].oid) \/ ~Holds(ring[k].oid)
    BY Zenon DEF CoreInv, CidInv
  <1>12. \A x : (Holds(x)' <=> Holds(x)) /\ (Tracked(pending, x)' <=> Tracked(pending, x))
    BY <1>1, Zenon DEF Holds, Tracked
  <1>13. LiveIsCancellable'
    BY <1>1, <1>3, <1>5, <1>6, <1>8, Zenon DEF CoreInv, LiveIsCancellable, Tracked
  <1>14. /\ \A x \in DOMAIN sent : risk'[x] = "sent" => risk[x] = "sent"
         /\ \A k \in DOMAIN ring : risk'[ring[k].oid] # "sent"
         /\ \A k \in DOMAIN ring : ring[k].kind \in {"done", "failed"} => ring[k].oid # o
         /\ \A k \in DOMAIN ring : ring[k].kind \in {"done", "failed"} => risk'[ring[k].oid] = "gone"
    BY <1>3, <1>5, <1>6, <1>7, <1>8, <1>10
  <1>15. OneOrderPerCid' /\ FailureFreesCid'
         /\ \A x \in DOMAIN sent' : x \in failed' \/ now' - sent'[x].at > Window \/ Holds(x)'
    BY <1>1, <1>12, Zenon DEF CoreInv, CidInv, OneOrderPerCid, FailureFreesCid
  <1>16. CASE ring' = ring
    <2>1. Types'
      BY <1>1, <1>8, <1>16, Zenon DEF CoreInv, Types
    <2>2. RingInv'
      BY <1>10, <1>14, <1>16, Zenon DEF RingInv
    <2>3. CidInv'
      BY <1>1, <1>11, <1>12, <1>14, <1>15, <1>16 DEF CidInv
    <2> QED BY <1>1, <1>13, <2>1, <2>2, <2>3, Frame DEF CoreInv
  <1>17. CASE ring' = Append(ring, e)
    <2>1. PICK n \in Nat : n = Len(ring)
      BY <1>7
    <2>2. /\ ring' \in Seq([kind : Kinds, oid : Nat])
          /\ \A k \in DOMAIN ring' : k \in DOMAIN ring \/ k = n + 1
          /\ \A k \in DOMAIN ring : k # n + 1 /\ k \in DOMAIN ring' /\ ring'[k] = ring[k]
          /\ ring'[n + 1] = e
      BY <1>7, <1>9, <1>17, <2>1, Appended
    <2>3. \A k \in DOMAIN ring' :
            \/ k \in DOMAIN ring /\ k # n + 1 /\ ring'[k] = ring[k]
            \/ k = n + 1 /\ ring'[k].kind = kind /\ ring'[k].oid = o
      BY <1>9, <2>2, Zenon
    <2>4. Types'
      <3>1. \A k \in DOMAIN ring' : ring'[k].oid \in DOMAIN sent'
        BY <1>1, <1>6, <1>7, <2>3, Zenon
      <3> QED BY <1>1, <1>8, <2>2, <3>1, Zenon DEF CoreInv, Types
    <2>5. RingInv'
      <3>1. \A k \in DOMAIN ring' : risk'[ring'[k].oid] # "sent"
        BY <1>3, <1>8, <1>14, <2>3, Zenon
      <3>2. \A k \in DOMAIN ring' : ring'[k].kind \in {"done", "failed"}
                                    => risk'[ring'[k].oid] = "gone"
        BY <1>3, <1>8, <1>14, <2>3, Zenon
      <3>3. ASSUME NEW k \in DOMAIN ring', ring'[k].kind = "failed",
                   NEW j \in DOMAIN ring', ring'[j].oid = ring'[k].oid
            PROVE  j = k
        <4>1. CASE k = n + 1
          <5>1. kind = "failed" /\ ring'[j].oid = o
            BY <2>3, <3>3, <4>1, Zenon
          <5>2. risk[o] = "sent"
            BY <1>3, <1>5, <5>1, Zenon
          <5>3. j \in DOMAIN ring => risk[ring[j].oid] # "sent" /\ ring'[j] = ring[j]
            BY <1>10, <2>2, Zenon
          <5>4. j \notin DOMAIN ring
            BY <5>1, <5>2, <5>3, Zenon
          <5> QED BY <2>2, <4>1, <5>4, Zenon
        <4>2. CASE k \in DOMAIN ring
          <5>1. ring'[k] = ring[k] /\ ring[k].kind = "failed"
            BY <2>2, <3>3, <4>2, Zenon
          <5>2. ring[k].oid # o
            BY <1>14, <4>2, <5>1, Zenon
          <5>3. j \in DOMAIN ring /\ ring'[j] = ring[j]
            BY <2>3, <3>3, <5>1, <5>2
          <5> QED BY <1>10, <3>3, <4>2, <5>1, <5>3
        <4> QED BY <2>3, <4>1, <4>2, Zenon
      <3> QED BY <3>1, <3>2, <3>3, Zenon DEF RingInv
    <2>6. CidInv'
      <3>1. \A k \in DOMAIN ring' : ring'[k].kind = "failed" =>
              Tracked(pending, ring'[k].oid) \/ ~Holds(ring'[k].oid)
        BY <1>3, <1>5, <1>6, <1>11, <2>3
      <3>2. \A k \in DOMAIN ring' : ring'[k].kind = "failed" =>
              \/ ring'[k].oid \in DOMAIN pending'.orders
              \/ ids'.bound[sent'[ring'[k].oid].cid].oid # ring'[k].oid
        BY <1>1, <3>1, Zenon DEF Holds, Tracked
      <3>3. \A x \in DOMAIN sent' : risk'[x] = "sent" => Tracked(pending, x)' \/ ~Holds(x)'
        BY <1>1, <1>11, <1>12, <1>14, Zenon
      <3> QED BY <1>15, <3>2, <3>3, Zenon DEF CidInv, Holds, Tracked
    <2> QED BY <1>1, <1>13, <2>4, <2>5, <2>6, Frame DEF CoreInv
  <1> QED BY <1>5, <1>16, <1>17, Zenon

(* The shutdown signal. *)
LEMMA SignalStep ==
    ASSUME CoreInv, Signal
    PROVE  CoreInv'
  <1>1. UNCHANGED <<now, phase, phaseEnds, lastSweep, pending, ids, circuit, tokens, risk, ring,
                    sent, answered, failed>>
    BY Zenon DEF Signal, loop, external
  <1>2. stop' \in BOOLEAN
    BY Zenon DEF Signal
  <1>3. Types'
    BY <1>1, <1>2, Zenon DEF CoreInv, Types
  <1> QED BY <1>1, <1>3, Frame, Zenon DEF CoreInv

LEMMA Refilling ==
    ASSUME NEW t \in Nat, NEW u \in Nat, u <= t + 1, NEW n \in Nat, NEW i \in Nat,
           NEW b \in Nat, NEW at \in Nat, NEW time \in Nat, t + n - i + 1 <= b + time - at
    PROVE  u + n - i + 1 <= b + (time + 1) - at
  OBVIOUS

(* Time passes: the buckets refill, and orders age. *)
LEMMA TickStep ==
    ASSUME RefillPromise,
           CoreInv, Tick
    PROVE  CoreInv'
  <1>1. UNCHANGED <<stop, phase, phaseEnds, lastSweep, pending, ids, circuit, risk, ring,
                    sent, answered, failed>>
    BY Zenon DEF Tick, loop, external
  <1>2. now' = now + 1 /\ now - lastSweep < SweepEvery /\ tokens' = Refill(tokens)
    BY Zenon DEF Tick
  <1>3. /\ now \in Nat /\ lastSweep \in Nat /\ lastSweep <= now
        /\ Len(sent) \in Nat
        /\ \A o \in DOMAIN sent : o \in Nat /\ sent[o].at \in Nat /\ sent[o].at <= now
    BY SentTypes, Zenon DEF CoreInv, Types
  <1>4. Types'
    <2>1. now' \in Nat /\ lastSweep' <= now' /\ now' - lastSweep' <= SweepEvery
      BY <1>1, <1>2, <1>3, GatewayAssumption
    <2>2. \A o \in DOMAIN sent' : sent'[o].at <= now'
      BY <1>1, <1>2, <1>3
    <2> QED BY <1>1, <2>1, <2>2, Zenon DEF CoreInv, Types
  <1>5. RateInv'
    <2>1. /\ tokens \in [Limiters -> Nat] /\ \A l \in Limiters : tokens[l] <= Burst[l]
          /\ \A l \in Limiters, i \in DOMAIN sent :
               tokens[l] + Len(sent) - i + 1 <= Burst[l] + now - sent[i].at
          /\ RateIsBounded
      BY Zenon DEF CoreInv, RateInv
    <2>2. /\ tokens' \in [Limiters -> Nat]
          /\ \A l \in Limiters : tokens'[l] <= Burst[l] /\ tokens'[l] <= tokens[l] + 1
      BY <1>2, <2>1, Zenon DEF RefillPromise
    <2>3. \A l \in Limiters : tokens[l] \in Nat /\ tokens'[l] \in Nat /\ Burst[l] \in Nat
      BY <2>1, <2>2, OrdersAssumption, Zenon
    <2>4. ASSUME NEW l \in Limiters, NEW i \in DOMAIN sent
          PROVE  tokens'[l] + Len(sent) - i + 1 <= Burst[l] + (now + 1) - sent[i].at
      <3>1. tokens[l] + Len(sent) - i + 1 <= Burst[l] + now - sent[i].at
        BY <2>1, Zenon
      <3> QED BY <1>3, <2>2, <2>3, <3>1, Refilling, Zenon
    <2>5. RateIsBounded'
      BY <1>1, <2>1, Zenon DEF RateIsBounded
    <2> QED BY <1>1, <1>2, <2>2, <2>4, <2>5, Zenon DEF RateInv
  <1>6. LiveIsCancellable'
    <2>1. \A o \in DOMAIN sent : now - sent[o].at > Window => now' - sent[o].at > Window
      BY <1>2, <1>3, OrdersAssumption
    <2> QED BY <1>1, <2>1, Zenon DEF CoreInv, LiveIsCancellable, Tracked
  <1>7. IdsInv'
    <2>1. /\ ids \in Ledgers /\ Ascending(ids.inserted) /\ Recorded(ids)
          /\ \A i \in DOMAIN ids.inserted : ids.inserted[i].at <= now
          /\ \A c \in Cids : ids.bound[c] # Unbound =>
               ids.bound[c].oid \in DOMAIN sent /\ ids.bound[c].at = sent[ids.bound[c].oid].at
      BY Zenon DEF CoreInv, IdsInv
    <2>2. \A i \in DOMAIN ids.inserted : ids.inserted[i] \in Entries
      BY <2>1 DEF Ledgers
    <2>3. \A i \in DOMAIN ids.inserted : ids.inserted[i].at \in Nat
      BY <2>2, Zenon DEF Entries
    <2>4. \A i \in DOMAIN ids.inserted : ids.inserted[i].at <= now'
      BY <1>2, <1>3, <2>1, <2>3
    <2> QED BY <1>1, <2>1, <2>4, Zenon DEF IdsInv, Ascending, Recorded
  <1>8. CidInv'
    <2>1. \A o \in DOMAIN sent : now - sent[o].at > Window => now' - sent[o].at > Window
      BY <1>2, <1>3, OrdersAssumption
    <2> QED BY <1>1, <2>1 DEF CoreInv, CidInv, OneOrderPerCid, FailureFreesCid, Holds, Tracked
  <1> QED BY <1>1, <1>4, <1>5, <1>6, <1>7, <1>8, Frame DEF CoreInv

(* The rate when an order passes. *)
LEMMA PassStep ==
    ASSUME SpendPromise,
           CoreInv, tokens' = Spent(tokens), Refusals(tokens) = {}, now' = now,
           NEW cid \in Cids, sent' = Append(sent, [cid |-> cid, at |-> now])
    PROVE  RateInv'
  <1>1. PICK n \in Nat : n = Len(sent)
    BY SentTypes, Zenon DEF CoreInv
  <1>2. PICK s : s = [cid |-> cid, at |-> now]
    BY Zenon
  <1>3. now \in Nat /\ \A i \in DOMAIN sent : i \in Nat /\ sent[i].at \in Nat /\ i <= n
    BY <1>1, SentTypes, Zenon DEF CoreInv
  <1>4. s \in Sends /\ s.at = now /\ sent \in Seq(Sends)
    BY <1>2, <1>3, Zenon DEF Sends, CoreInv, Types
  <1>5. /\ Len(sent') = n + 1
        /\ \A i \in DOMAIN sent' : i \in DOMAIN sent \/ i = n + 1
        /\ \A i \in DOMAIN sent : sent'[i] = sent[i]
        /\ sent'[n + 1] = s
    BY <1>1, <1>2, <1>4, Appended
  <1>6. /\ tokens \in [Limiters -> Nat] /\ \A l \in Limiters : tokens[l] <= Burst[l]
        /\ \A l \in Limiters, i \in DOMAIN sent :
             tokens[l] + Len(sent) - i + 1 <= Burst[l] + now - sent[i].at
        /\ RateIsBounded
    BY Zenon DEF CoreInv, RateInv
  <1>7. /\ tokens' \in [Limiters -> Nat]
        /\ \A l \in Limiters : tokens[l] >= 1 /\ tokens'[l] = tokens[l] - 1
    BY <1>6, Zenon DEF SpendPromise
  <1>8. \A l \in Limiters : tokens[l] \in Nat /\ Burst[l] \in Nat
    BY <1>6, OrdersAssumption, Zenon
  <1>9. ASSUME NEW l \in Limiters, NEW i \in DOMAIN sent
        PROVE  /\ tokens'[l] + (n + 1) - i + 1 <= Burst[l] + now - sent[i].at
               /\ (n + 1) - i + 1 <= Burst[l] + now - sent[i].at
    <2>1. tokens[l] + n - i + 1 <= Burst[l] + now - sent[i].at
      BY <1>1, <1>6, Zenon
    <2>2. /\ i \in Nat /\ sent[i].at \in Nat /\ tokens[l] \in Nat /\ Burst[l] \in Nat
          /\ tokens[l] >= 1 /\ tokens'[l] = tokens[l] - 1 /\ now \in Nat
      BY <1>3, <1>7, <1>8, Zenon
    <2>3. PICK t, u, b, at : t = tokens[l] /\ u = tokens'[l] /\ b = Burst[l] /\ at = sent[i].at
      BY Zenon
    <2>4. /\ i \in Nat /\ at \in Nat /\ t \in Nat /\ b \in Nat /\ now \in Nat
          /\ t >= 1 /\ u = t - 1 /\ t + n - i + 1 <= b + now - at
      BY <2>1, <2>2, <2>3, Zenon
    <2>5. u + (n + 1) - i + 1 <= b + now - at /\ (n + 1) - i + 1 <= b + now - at
      BY <2>4
    <2> QED BY <2>3, <2>5, Zenon
  <1>10. ASSUME NEW l \in Limiters
         PROVE  /\ tokens'[l] + (n + 1) - (n + 1) + 1 <= Burst[l] + now - now
                /\ (n + 1) - (n + 1) + 1 <= Burst[l] + now - now
    <2>1. tokens[l] <= Burst[l] /\ tokens[l] >= 1 /\ tokens'[l] = tokens[l] - 1
      BY <1>6, <1>7, Zenon
    <2> QED BY <1>3, <1>8, <2>1
  <1>11. ASSUME NEW l \in Limiters, NEW i \in DOMAIN sent'
         PROVE  tokens'[l] + Len(sent') - i + 1 <= Burst[l] + now' - sent'[i].at
    <2>1. CASE i \in DOMAIN sent
      BY <1>5, <1>9, <2>1, Zenon
    <2>2. CASE i = n + 1
      BY <1>4, <1>5, <1>10, <2>2, Zenon
    <2> QED BY <1>5, <2>1, <2>2, Zenon
  <1>12. RateIsBounded'
    <2> SUFFICES ASSUME NEW i \in DOMAIN sent', NEW j \in DOMAIN sent', NEW l \in Limiters, i <= j
                 PROVE  j - i + 1 <= Burst[l] + sent'[j].at - sent'[i].at
      BY Zenon DEF RateIsBounded
    <2>1. CASE j \in DOMAIN sent
      <3>1. i \in DOMAIN sent
        BY <1>3, <1>5, <2>1
      <3> QED BY <1>5, <1>6, <2>1, <3>1, Zenon DEF RateIsBounded
    <2>2. CASE j = n + 1
      BY <1>4, <1>5, <1>9, <1>10, <2>2
    <2> QED BY <1>5, <2>1, <2>2, Zenon
  <1>13. \A l \in Limiters : tokens'[l] <= Burst[l]
    BY <1>6, <1>7, <1>8
  <1> QED BY <1>7, <1>11, <1>12, <1>13, Zenon DEF RateInv

(* An order is forwarded: it is sent, tracked, bound and counted. *)
LEMMA ForwardedStep ==
    ASSUME PushPromise, BindPromise, SpendPromise, BreakerPromise,
           CoreInv, NEW c \in Conns, NEW cid \in Cids, NewOrderForwarded(c, cid)
    PROVE  CoreInv'
  <1>1. UNCHANGED <<now, stop, phase, phaseEnds, lastSweep, ring, answered, failed>>
    BY Zenon DEF NewOrderForwarded, NewOrderSent, Handled, clock, loop
  <1>2. PICK n \in Nat : n = Len(sent)
    BY SentTypes, Zenon DEF CoreInv
  <1>3. PICK s : s = [cid |-> cid, at |-> now]
    BY Zenon
  <1>4. /\ sent' = Append(sent, s)
        /\ pending' = Push(pending, n + 1, [cid |-> cid, at |-> now, stage |-> "Submitted"])
        /\ ids' = Bind(ids, cid, n + 1, now)
        /\ circuit' = RecordSuccess(AfterAllow(circuit, now))
        /\ tokens' = Spent(tokens)
        /\ risk' = Append(risk, "sent")
    BY <1>2, <1>3, Zenon DEF NewOrderForwarded, NewOrderSent
  <1>5. /\ Refusals(tokens) = {} /\ Allows(circuit, now) /\ phase = "Serving" /\ ~IsFull(pending)
        /\ ids.bound[cid] = Unbound
    BY Zenon DEF NewOrderForwarded, NewOrderSent, Refused, Duplicate
  <1>6. /\ now \in Nat /\ DOMAIN sent = 1 .. n /\ DOMAIN risk = DOMAIN sent
        /\ lastSweep \in Nat /\ lastSweep <= now
        /\ \A o \in DOMAIN sent : /\ o \in Nat /\ o >= 1 /\ o <= n /\ o # n + 1
                                  /\ sent[o].cid \in Cids /\ sent[o].at \in Nat
                                  /\ sent[o].at <= now
    <2>1. /\ Types /\ now \in Nat /\ lastSweep \in Nat /\ lastSweep <= now
      BY Zenon DEF CoreInv, Types
    <2>2. \A o \in DOMAIN sent : o \in Nat /\ o >= 1 /\ o <= n
      BY <1>2, <2>1, SentTypes, Zenon
    <2>3. \A o \in DOMAIN sent : o # n + 1
      BY <2>2
    <2> QED BY <1>2, <2>1, <2>2, <2>3, SentTypes, Zenon
  <1>6a. \A o \in DOMAIN sent : o # n + 1 /\ sent[o].cid \in Cids
    BY <1>6, Zenon
  <1>6b. now \in Nat /\ \A o \in DOMAIN sent : sent[o].at \in Nat /\ sent[o].at <= now
    BY <1>6, Zenon
  <1>7. /\ sent \in Seq(Sends) /\ risk \in Seq({"sent", "open", "cancelling", "gone"})
        /\ Len(risk) = n /\ \A k \in DOMAIN ring : ring[k].oid \in DOMAIN sent
        /\ answered \subseteq DOMAIN sent /\ failed \subseteq DOMAIN sent
    BY <1>2, Zenon DEF CoreInv, Types
  <1>8. s \in Sends /\ s.cid = cid /\ s.at = now
    BY <1>3, <1>6b, Zenon DEF Sends
  <1>9. /\ sent' \in Seq(Sends) /\ Len(sent') = n + 1
        /\ \A o \in DOMAIN sent' : o \in DOMAIN sent \/ o = n + 1
        /\ \A o \in DOMAIN sent : o \in DOMAIN sent' /\ sent'[o] = sent[o]
        /\ n + 1 \in DOMAIN sent' /\ sent'[n + 1].cid = cid /\ sent'[n + 1].at = now
    <2>1. sent \in Seq(Sends) /\ sent' = Append(sent, s)
      BY <1>4, <1>7, Zenon
    <2> QED BY <1>2, <1>8, <2>1, Appended
  <1>9a. \A o \in DOMAIN sent' : o \in DOMAIN sent \/ o = n + 1
    BY <1>9, Zenon
  <1>9b. \A o \in DOMAIN sent : sent'[o] = sent[o]
    BY <1>9, Zenon
  <1>9c. sent'[n + 1].cid = cid /\ sent'[n + 1].at = now
    BY <1>9, Zenon
  <1>10. /\ risk' \in Seq({"sent", "open", "cancelling", "gone"}) /\ Len(risk') = n + 1
         /\ \A o \in DOMAIN sent : risk'[o] = risk[o]
         /\ risk'[n + 1] = "sent"
    <2>1. "sent" \in {"sent", "open", "cancelling", "gone"}
      BY Zenon
    <2>2. /\ risk \in Seq({"sent", "open", "cancelling", "gone"}) /\ Len(risk) = n
          /\ risk' = Append(risk, "sent") /\ DOMAIN risk = DOMAIN sent
      BY <1>4, <1>6, <1>7, Zenon
    <2> QED BY <2>1, <2>2, Appended
  <1>11. Types'
    <2>1. \A o \in DOMAIN sent' : sent'[o].at <= now'
      BY <1>1, <1>6b, <1>9a, <1>9b, <1>9c
    <2>2. /\ answered' \subseteq DOMAIN sent' /\ failed' \subseteq DOMAIN sent'
          /\ \A k \in DOMAIN ring' : ring'[k].oid \in DOMAIN sent'
      BY <1>1, <1>7, <1>9, Zenon
    <2>3. Len(risk') = Len(sent')
      BY <1>9, <1>10, Zenon
    <2>4. /\ now' \in Nat /\ lastSweep' \in Nat /\ lastSweep' <= now'
          /\ now' - lastSweep' <= SweepEvery
          /\ phase' \in Phases /\ phaseEnds' \in Nat /\ stop' \in BOOLEAN
          /\ ring' \in Seq([kind : Kinds, oid : Nat])
      BY <1>1, Zenon DEF CoreInv, Types
    <2>5. sent' \in Seq(Sends) /\ risk' \in Seq({"sent", "open", "cancelling", "gone"})
      BY <1>9, <1>10, Zenon
    <2> QED BY <2>1, <2>2, <2>3, <2>4, <2>5, Zenon DEF Types
  <1>12. /\ pending' \in Books(n + 1) /\ Counted(pending')
         /\ DOMAIN pending'.orders = DOMAIN pending.orders \cup {n + 1}
         /\ pending'.orders[n + 1] = [cid |-> cid, at |-> now, stage |-> "Submitted"]
         /\ \A o \in DOMAIN pending.orders : pending'.orders[o] = pending.orders[o]
    <2>1. pending \in Books(n) /\ Counted(pending)
      BY <1>2, Zenon DEF CoreInv, BookInv
    <2>2. PICK p, q, t : p = pending /\ q = pending' /\ t = now
      BY Zenon
    <2>3. /\ t \in Nat /\ p \in Books(n) /\ Counted(p) /\ ~IsFull(p)
          /\ q = Push(p, n + 1, [cid |-> cid, at |-> t, stage |-> "Submitted"])
      BY <1>4, <1>5, <1>6, <2>1, <2>2, Zenon
    <2>4. /\ q \in Books(n + 1) /\ Counted(q)
          /\ DOMAIN q.orders = DOMAIN p.orders \cup {n + 1}
          /\ q.orders[n + 1] = [cid |-> cid, at |-> t, stage |-> "Submitted"]
          /\ \A o \in DOMAIN p.orders : q.orders[o] = p.orders[o]
      BY <2>3 DEF PushPromise
    <2> QED BY <2>2, <2>4, Zenon
  <1>12a. /\ n + 1 \in DOMAIN pending'.orders
          /\ \A o \in DOMAIN pending.orders : o \in DOMAIN pending'.orders
    BY <1>12, Zenon
  <1>13. DOMAIN pending.orders \subseteq DOMAIN sent
    BY TrackedAreSent, Zenon
  <1>14. BookInv'
    <2>1. \A o \in DOMAIN pending'.orders :
            pending'.orders[o].cid = sent'[o].cid /\ pending'.orders[o].at = sent'[o].at
      <3>1. \A o \in DOMAIN pending.orders :
              pending.orders[o].cid = sent[o].cid /\ pending.orders[o].at = sent[o].at
        BY Zenon DEF CoreInv, BookInv, Linked
      <3>2. pending'.orders[n + 1].cid = cid /\ pending'.orders[n + 1].at = now
        <4>1. pending'.orders[n + 1] = [cid |-> cid, at |-> now, stage |-> "Submitted"]
          BY <1>12, Zenon
        <4> QED BY <4>1
      <3> QED BY <1>9b, <1>9c, <1>12, <1>13, <3>1, <3>2, Zenon
    <2>2. Counted(pending)'
      BY <1>12, Zenon DEF Counted, InStage
    <2> QED BY <1>9, <1>12, <2>1, <2>2, Zenon DEF BookInv, Linked
  <1>15. CircuitInv'
    <2>1. circuit \in Breakers /\ circuit.state # "HalfOpen"
      BY Zenon DEF CoreInv, CircuitInv
    <2> QED BY <1>4, <1>5, <1>6, <2>1, Zenon DEF CircuitInv, BreakerPromise
  <1>16. RateInv'
    BY <1>1, <1>3, <1>4, <1>5, PassStep
  <1>17. AnswerInv'
    <2>1. \A o \in DOMAIN sent \ answered :
            o \in InStage(pending, "Submitted") /\ lastSweep - Timeout <= sent[o].at
      BY Zenon DEF CoreInv, AnswerInv
    <2>2. lastSweep - Timeout <= now
      BY <1>6, GatewayAssumption
    <2>3. \A o \in DOMAIN sent \ answered : o \in DOMAIN pending'.orders
                                            /\ pending'.orders[o].stage = "Submitted"
      BY <1>12, <2>1, Zenon DEF InStage
    <2>4. n + 1 \in DOMAIN pending'.orders /\ pending'.orders[n + 1].stage = "Submitted"
      <3>1. pending'.orders[n + 1] = [cid |-> cid, at |-> now, stage |-> "Submitted"]
        BY <1>12, Zenon
      <3> QED BY <1>12a, <3>1
    <2>5. \A o \in DOMAIN sent' \ answered' :
            /\ o \in DOMAIN pending'.orders /\ pending'.orders[o].stage = "Submitted"
            /\ lastSweep' - Timeout <= sent'[o].at
      BY <1>1, <1>9a, <1>9b, <1>9c, <2>1, <2>2, <2>3, <2>4, Zenon
    <2>6. phase' = "Serving"
      BY <1>1, <1>5, Zenon
    <2> QED BY <2>5, <2>6, Zenon DEF AnswerInv, InStage, DrainAnswersAll
  <1>18. RingInv'
    <2>1. \A k \in DOMAIN ring : risk'[ring[k].oid] = risk[ring[k].oid]
      BY <1>7, <1>10, Zenon
    <2> QED BY <1>1, <2>1, Zenon DEF CoreInv, RingInv
  <1>19. LiveIsCancellable'
    <2>1. \A o \in DOMAIN sent : risk[o] \in {"sent", "open", "cancelling"} =>
            o \in DOMAIN pending.orders \/ now - sent[o].at > Window
      BY Zenon DEF CoreInv, LiveIsCancellable, Tracked
    <2> QED BY <1>1, <1>9, <1>10, <1>12, <2>1, Zenon DEF LiveIsCancellable, Tracked
  <1>20. /\ ids \in Ledgers /\ Ascending(ids.inserted) /\ Recorded(ids)
         /\ \A i \in DOMAIN ids.inserted : ids.inserted[i].at <= now
         /\ \A x \in Cids : ids.bound[x] # Unbound =>
              ids.bound[x].oid \in DOMAIN sent /\ ids.bound[x].at = sent[ids.bound[x].oid].at
    BY Zenon DEF CoreInv, IdsInv
  <1>21. /\ ids' \in Ledgers /\ Ascending(ids'.inserted) /\ Recorded(ids')
         /\ \A i \in DOMAIN ids'.inserted : ids'.inserted[i].at <= now
         /\ ids'.bound[cid].oid = n + 1 /\ ids'.bound[cid].at = now
         /\ \A x \in Cids : x # cid => ids'.bound[x] = ids.bound[x]
    <2>1. PICK d, e, t : d = ids /\ e = ids' /\ t = now
      BY Zenon
    <2>2. /\ d \in Ledgers /\ Ascending(d.inserted) /\ Recorded(d) /\ t \in Nat
          /\ \A i \in DOMAIN d.inserted : d.inserted[i].at <= t
      BY <1>6, <1>20, <2>1, Zenon
    <2>3. e = Bind(d, cid, n + 1, t)
      BY <1>4, <2>1, Zenon
    <2>3a. n + 1 \in Nat
      OBVIOUS
    <2>4. /\ e \in Ledgers /\ Ascending(e.inserted) /\ Recorded(e)
          /\ \A i \in DOMAIN e.inserted : e.inserted[i].at <= t
          /\ e.bound[cid].oid = n + 1 /\ e.bound[cid].at = t
          /\ \A x \in Cids : x # cid => e.bound[x] = d.bound[x]
      BY <2>2, <2>3, <2>3a DEF BindPromise
    <2> QED BY <2>1, <2>4, Zenon
  <1>21a. ids'.bound[cid].oid = n + 1 /\ ids'.bound[cid].at = now
    BY <1>21, Zenon
  <1>21b. \A x \in Cids : x # cid => ids'.bound[x] = ids.bound[x]
    BY <1>21, Zenon
  <1>22. IdsInv'
    <2>1. \A x \in Cids : ids'.bound[x] # Unbound =>
            ids'.bound[x].oid \in DOMAIN sent' /\ ids'.bound[x].at = sent'[ids'.bound[x].oid].at
      <3> SUFFICES ASSUME NEW x \in Cids, ids'.bound[x] # Unbound
                   PROVE  /\ ids'.bound[x].oid \in DOMAIN sent'
                          /\ ids'.bound[x].at = sent'[ids'.bound[x].oid].at
        BY Zenon
      <3>1. CASE x = cid
        BY <1>9, <1>21a, <3>1, Zenon
      <3>2. CASE x # cid
        BY <1>9, <1>20, <1>21b, <3>2, Zenon
      <3> QED BY <3>1, <3>2, Zenon
    <2> QED BY <1>1, <1>21, <2>1, Zenon DEF IdsInv, Ascending, Recorded
  <1>23. CidInv'
    <2>1. \A o \in DOMAIN sent : o \in failed \/ now - sent[o].at > Window
                                  \/ ids.bound[sent[o].cid].oid = o
      BY Zenon DEF CoreInv, CidInv, Holds
    <2>1a. \A i, j \in DOMAIN sent : i < j /\ sent[i].cid = sent[j].cid
             => i \in failed \/ sent[j].at - sent[i].at > Window
      BY Zenon DEF CoreInv, CidInv, OneOrderPerCid
    <2>1b. \A o \in failed : ids.bound[sent[o].cid].oid # o
      BY Zenon DEF CoreInv, CidInv, FailureFreesCid
    <2>1c. \A o \in DOMAIN sent : risk[o] = "sent" =>
             o \in DOMAIN pending.orders \/ ids.bound[sent[o].cid].oid # o
      BY Zenon DEF CoreInv, CidInv, Holds, Tracked
    <2>1d. \A k \in DOMAIN ring : ring[k].kind = "failed" =>
             \/ ring[k].oid \in DOMAIN pending.orders
             \/ ids.bound[sent[ring[k].oid].cid].oid # ring[k].oid
      BY Zenon DEF CoreInv, CidInv, Holds, Tracked
    <2>2. \A o \in DOMAIN sent : sent[o].cid = cid => o \in failed \/ now - sent[o].at > Window
      <3>1. ids.bound[cid].oid = 0
        <4>1. ids.bound[cid] = Unbound
          BY <1>5, Zenon
        <4> QED BY <4>1 DEF Unbound
      <3>2. \A o \in DOMAIN sent : o # 0
        BY <1>6
      <3> QED BY <2>1, <3>1, <3>2, Zenon
    <2>3. \A o \in DOMAIN sent : ids.bound[sent[o].cid].oid # o => ids'.bound[sent[o].cid].oid # o
      BY <1>6a, <1>21a, <1>21b, Zenon
    <2>4. \A o \in DOMAIN sent' : o \in failed' \/ now' - sent'[o].at > Window
                                  \/ ids'.bound[sent'[o].cid].oid = o
      <3>1. ASSUME NEW o \in DOMAIN sent
            PROVE  o \in failed' \/ now' - sent'[o].at > Window
                   \/ ids'.bound[sent'[o].cid].oid = o
        <4>1. sent'[o] = sent[o] /\ sent[o].cid \in Cids /\ now' = now /\ failed' = failed
          BY <1>1, <1>6a, <1>9b, Zenon
        <4>2. CASE sent[o].cid = cid
          BY <2>2, <4>1, <4>2, Zenon
        <4>3. CASE sent[o].cid # cid
          BY <1>21b, <2>1, <4>1, <4>3, Zenon
        <4> QED BY <4>2, <4>3, Zenon
      <3> QED BY <1>9a, <1>9c, <1>21a, <3>1, Zenon
    <2>5. OneOrderPerCid'
      <3> SUFFICES ASSUME NEW i \in DOMAIN sent', NEW j \in DOMAIN sent', i < j,
                          sent'[i].cid = sent'[j].cid
                   PROVE  i \in failed' \/ sent'[j].at - sent'[i].at > Window
        BY Zenon DEF OneOrderPerCid
      <3>1. i \in DOMAIN sent
        BY <1>6, <1>9a
      <3>2. CASE j \in DOMAIN sent
        BY <1>1, <1>9b, <2>1a, <3>1, <3>2, Zenon
      <3>3. CASE j = n + 1
        BY <1>1, <1>9b, <1>9c, <2>2, <3>1, <3>3, Zenon
      <3> QED BY <1>9a, <3>2, <3>3, Zenon
    <2>6. \A o \in failed' : ids'.bound[sent'[o].cid].oid # o
      <3> SUFFICES ASSUME NEW o \in failed PROVE ids'.bound[sent'[o].cid].oid # o
        BY <1>1, Zenon
      <3>1. o \in DOMAIN sent /\ ids.bound[sent[o].cid].oid # o
        BY <1>7, <2>1b, Zenon
      <3>2. sent'[o] = sent[o] /\ ids'.bound[sent[o].cid].oid # o
        BY <1>9b, <2>3, <3>1, Zenon
      <3> QED BY <3>2, Zenon
    <2>7. \A o \in DOMAIN sent' : risk'[o] = "sent" =>
            o \in DOMAIN pending'.orders \/ ids'.bound[sent'[o].cid].oid # o
      <3>1. ASSUME NEW o \in DOMAIN sent, risk[o] = "sent"
            PROVE  o \in DOMAIN pending'.orders \/ ids'.bound[sent'[o].cid].oid # o
        BY <1>9b, <1>12a, <2>1c, <2>3, <3>1, Zenon
      <3> QED BY <1>9a, <1>10, <1>12a, <3>1, Zenon
    <2>8. \A k \in DOMAIN ring' : ring'[k].kind = "failed" =>
            \/ ring'[k].oid \in DOMAIN pending'.orders
            \/ ids'.bound[sent'[ring'[k].oid].cid].oid # ring'[k].oid
      <3> SUFFICES ASSUME NEW k \in DOMAIN ring, ring[k].kind = "failed"
                   PROVE  \/ ring[k].oid \in DOMAIN pending'.orders
                          \/ ids'.bound[sent'[ring[k].oid].cid].oid # ring[k].oid
        BY <1>1, Zenon
      <3>1. PICK o \in DOMAIN sent : o = ring[k].oid
        BY <1>7, Zenon
      <3>2. o \in DOMAIN pending.orders \/ ids.bound[sent[o].cid].oid # o
        BY <2>1d, <3>1, Zenon
      <3>3. o \in DOMAIN pending'.orders \/ ids'.bound[sent'[o].cid].oid # o
        BY <1>9b, <1>12a, <2>3, <3>2, Zenon
      <3> QED BY <3>1, <3>3, Zenon
    <2> QED BY <2>4, <2>5, <2>6, <2>7, <2>8, Zenon DEF CidInv, FailureFreesCid, Holds, Tracked
  <1> QED BY <1>11, <1>14, <1>15, <1>16, <1>17, <1>18, <1>19, <1>22, <1>23 DEF CoreInv

LEMMA RouteStep ==
    ASSUME RoutePromise, ReleasePromise,
           CoreInv, RouteEvent
    PROVE  CoreInv'
  <1>1. UNCHANGED <<now, stop, phase, phaseEnds, lastSweep, circuit, tokens, risk, sent>>
    BY Zenon DEF RouteEvent, clock, loop
  <1>2. PICK e : e = Head(ring)
    BY Zenon
  <1>3. /\ \/ e.kind = "inserted" /\ pending' = MarkResting(pending, e.oid) /\ ids' = ids
           \/ e.kind = "done" /\ pending' = RemoveOrder(pending, e.oid) /\ ids' = ids
           \/ e.kind = "failed" /\ RouteFailed(e.oid)
           \/ e.kind = "fill" /\ pending' = pending /\ ids' = ids
        /\ answered' = IF e.kind = "fill" THEN answered ELSE answered \cup {e.oid}
        /\ failed' = IF e.kind = "failed" THEN failed \cup {e.oid} ELSE failed
        /\ ring # <<>> /\ ring' = Tail(ring)
    BY <1>2, Zenon DEF RouteEvent
  <1>4. /\ ring' \in Seq([kind : Kinds, oid : Nat]) /\ 1 \in DOMAIN ring /\ e = ring[1]
        /\ \A k \in DOMAIN ring' : k + 1 \in DOMAIN ring /\ k + 1 # 1 /\ ring'[k] = ring[k + 1]
    <2>1. ring \in Seq([kind : Kinds, oid : Nat])
      BY Zenon DEF CoreInv, Types
    <2> QED BY <1>2, <1>3, <2>1, Shifted
  <1>5. PICK o \in DOMAIN sent : o = e.oid
    BY <1>4, Zenon DEF CoreInv, Types
  <1>6. /\ risk[o] # "sent" /\ (e.kind \in {"done", "failed"} => risk[o] = "gone")
        /\ \A k \in DOMAIN ring' : ring'[k].kind = "failed" => ring'[k].oid # o
    BY <1>4, <1>5 DEF CoreInv, RingInv
  <1>7. PICK n \in Nat : n = Len(sent)
    BY SentTypes, Zenon DEF CoreInv
  <1>8. /\ pending' \in Books(n) /\ Counted(pending')
        /\ DOMAIN pending'.orders \subseteq DOMAIN pending.orders
        /\ \A x \in DOMAIN pending'.orders :
             /\ pending'.orders[x].cid = pending.orders[x].cid
             /\ pending'.orders[x].at = pending.orders[x].at
        /\ \A x \in DOMAIN pending.orders :
             x \in DOMAIN pending'.orders \/ (x = o /\ e.kind \in {"done", "failed"})
        /\ \A x \in DOMAIN pending'.orders :
             pending'.orders[x].stage = pending.orders[x].stage \/ (x = o /\ e.kind # "fill")
    <2>1. PICK p, q : p = pending /\ q = pending'
      BY Zenon
    <2>2. p \in Books(n) /\ Counted(p)
      BY <1>7, <2>1, Zenon DEF CoreInv, BookInv
    <2>3. \/ e.kind = "inserted" /\ q = MarkResting(p, e.oid)
          \/ e.kind \in {"done", "failed"} /\ q = RemoveOrder(p, e.oid)
          \/ e.kind = "fill" /\ q = p
      BY <1>3, <2>1, Zenon DEF RouteFailed
    <2>4. /\ q \in Books(n) /\ Counted(q)
          /\ DOMAIN q.orders \subseteq DOMAIN p.orders
          /\ \A x \in DOMAIN q.orders :
               q.orders[x].cid = p.orders[x].cid /\ q.orders[x].at = p.orders[x].at
          /\ \A x \in DOMAIN p.orders :
               x \in DOMAIN q.orders \/ (x = e.oid /\ e.kind \in {"done", "failed"})
          /\ \A x \in DOMAIN q.orders :
               q.orders[x].stage = p.orders[x].stage \/ (x = e.oid /\ e.kind # "fill")
      BY <2>2, <2>3, Zenon DEF RoutePromise
    <2> QED BY <1>5, <2>1, <2>4, Zenon
  <1>9. /\ ids \in Ledgers /\ Ascending(ids.inserted) /\ Recorded(ids)
        /\ \A i \in DOMAIN ids.inserted : ids.inserted[i].at <= now
        /\ \A x \in Cids : ids.bound[x] # Unbound =>
             ids.bound[x].oid \in DOMAIN sent /\ ids.bound[x].at = sent[ids.bound[x].oid].at
    BY Zenon DEF CoreInv, IdsInv
  <1>10. /\ \A x \in DOMAIN sent : x \in failed \/ now - sent[x].at > Window
                                   \/ ids.bound[sent[x].cid].oid = x
         /\ \A x \in failed : ids.bound[sent[x].cid].oid # x
         /\ \A x \in DOMAIN sent : risk[x] = "sent" =>
              x \in DOMAIN pending.orders \/ ids.bound[sent[x].cid].oid # x
         /\ \A k \in DOMAIN ring : ring[k].kind = "failed" =>
              \/ ring[k].oid \in DOMAIN pending.orders
              \/ ids.bound[sent[ring[k].oid].cid].oid # ring[k].oid
    BY Zenon DEF CoreInv, CidInv, FailureFreesCid, Holds, Tracked
  <1>11. /\ \A x \in DOMAIN sent : x \in Nat \ {0} /\ sent[x].cid \in Cids
         /\ failed \subseteq DOMAIN sent
    BY SentTypes DEF CoreInv, Types
  <1>12. /\ ids' \in Ledgers /\ ids'.inserted = ids.inserted /\ Recorded(ids')
         /\ e.kind = "failed" => ids'.bound[sent[o].cid].oid # o
         /\ \A x \in Cids :
              \/ ids'.bound[x] = ids.bound[x]
              \/ /\ ids'.bound[x] = Unbound /\ ids.bound[x].oid = o
                 /\ x = sent[o].cid /\ e.kind = "failed"
    <2>1. CASE e.kind = "failed" /\ o \in DOMAIN pending.orders
      <3>1. ids' = Release(ids, sent[o].cid, o)
        BY <1>3, <1>5, <2>1, Zenon DEF RouteFailed, Tracked, CoreInv, BookInv, Linked
      <3>2. PICK d, r, c : d = ids /\ r = ids' /\ c = sent[o].cid
        BY Zenon
      <3>3. d \in Ledgers /\ Recorded(d) /\ c \in Cids /\ o \in Nat \ {0} /\ r = Release(d, c, o)
        BY <1>9, <1>11, <3>1, <3>2, Zenon
      <3>4. /\ r \in Ledgers /\ r.inserted = d.inserted /\ Recorded(r) /\ r.bound[c].oid # o
            /\ \A x \in Cids : \/ r.bound[x] = d.bound[x]
                               \/ r.bound[x] = Unbound /\ x = c /\ d.bound[x].oid = o
        BY <3>3 DEF ReleasePromise
      <3> QED BY <2>1, <3>2, <3>4, Zenon
    <2>2. CASE e.kind = "failed" /\ o \notin DOMAIN pending.orders
      <3>1. ids' = ids
        BY <1>3, <1>5, <2>2, Zenon DEF RouteFailed, Tracked
      <3> QED BY <1>4, <1>5, <1>9, <1>10, <2>2, <3>1, Zenon
    <2>3. CASE e.kind # "failed"
      BY <1>3, <1>9, <2>3, Zenon
    <2> QED BY <2>1, <2>2, <2>3, Zenon
  <1>13. Types'
    <2>1. \A k \in DOMAIN ring' : ring'[k].oid \in DOMAIN sent'
      BY <1>1, <1>4, Zenon DEF CoreInv, Types
    <2>2. answered' \subseteq DOMAIN sent' /\ failed' \subseteq DOMAIN sent'
      BY <1>1, <1>3, <1>5, Zenon DEF CoreInv, Types
    <2> QED BY <1>1, <1>4, <2>1, <2>2, Zenon DEF CoreInv, Types
  <1>14. BookInv'
    <2>1. Counted(pending)'
      BY <1>8, Zenon DEF Counted, InStage
    <2>2. Linked'
      BY <1>1, <1>8, Zenon DEF CoreInv, BookInv, Linked
    <2> QED BY <1>1, <1>7, <1>8, <2>1, <2>2 DEF BookInv
  <1>15. AnswerInv'
    <2>1. \A x \in DOMAIN sent \ answered : /\ x \in DOMAIN pending.orders
                                            /\ pending.orders[x].stage = "Submitted"
                                            /\ lastSweep - Timeout <= sent[x].at
      BY Zenon DEF CoreInv, AnswerInv, InStage
    <2>2. \A x \in DOMAIN sent \ answered' : x \notin answered /\ (x # o \/ e.kind = "fill")
      BY <1>3, <1>5, Zenon
    <2>3. \A x \in DOMAIN sent' \ answered' : /\ x \in DOMAIN pending'.orders
                                              /\ pending'.orders[x].stage = "Submitted"
                                              /\ lastSweep' - Timeout <= sent'[x].at
      BY <1>1, <1>8, <2>1, <2>2
    <2>4. answered \subseteq answered'
      BY <1>3, Zenon
    <2> QED BY <1>1, <2>3, <2>4, Zenon DEF CoreInv, AnswerInv, InStage, DrainAnswersAll
  <1>16. RingInv'
    <2>1. \A j, k \in DOMAIN ring' : j + 1 = k + 1 => j = k
      BY <1>4
    <2> QED BY <1>1, <1>4, <2>1 DEF CoreInv, RingInv
  <1>17. LiveIsCancellable'
    BY <1>1, <1>6, <1>8, Zenon DEF CoreInv, LiveIsCancellable, Tracked
  <1>18. IdsInv'
    <2>1. \A x \in Cids : ids'.bound[x] # Unbound => ids'.bound[x] = ids.bound[x]
      BY <1>12, Zenon
    <2> QED BY <1>1, <1>9, <1>12, <2>1, Zenon DEF IdsInv
  <1>19. CidInv'
    <2>1. \A x \in DOMAIN sent' : x \in failed' \/ now' - sent'[x].at > Window
                                  \/ ids'.bound[sent'[x].cid].oid = x
      BY <1>1, <1>3, <1>5, <1>10, <1>11, <1>12
    <2>2. OneOrderPerCid'
      BY <1>1, <1>3, Zenon DEF CoreInv, CidInv, OneOrderPerCid
    <2>3. \A x \in DOMAIN sent : ids.bound[sent[x].cid].oid # x => ids'.bound[sent[x].cid].oid # x
      BY <1>11, <1>12 DEF Unbound
    <2>4. \A x \in failed' : ids'.bound[sent'[x].cid].oid # x
      <3> SUFFICES ASSUME NEW x \in failed' PROVE ids'.bound[sent[x].cid].oid # x
        BY <1>1, Zenon
      <3>1. CASE x \in failed
        BY <1>10, <1>11, <2>3, <3>1, Zenon
      <3>2. CASE x = o /\ e.kind = "failed"
        BY <1>12, <3>2, Zenon
      <3> QED BY <1>3, <1>5, <3>1, <3>2, Zenon
    <2>5. \A x \in DOMAIN sent' : risk'[x] = "sent" =>
            x \in DOMAIN pending'.orders \/ ids'.bound[sent'[x].cid].oid # x
      BY <1>1, <1>6, <1>8, <1>10, <2>3
    <2>6. \A k \in DOMAIN ring' : ring'[k].kind = "failed" =>
            \/ ring'[k].oid \in DOMAIN pending'.orders
            \/ ids'.bound[sent'[ring'[k].oid].cid].oid # ring'[k].oid
      <3> SUFFICES ASSUME NEW k \in DOMAIN ring', ring'[k].kind = "failed"
                   PROVE  \/ ring'[k].oid \in DOMAIN pending'.orders
                          \/ ids'.bound[sent'[ring'[k].oid].cid].oid # ring'[k].oid
        BY Zenon
      <3>1. PICK x : x = ring'[k].oid
        BY Zenon
      <3>2. x \in DOMAIN sent /\ x # o
        BY <1>4, <1>6, <3>1, Zenon DEF CoreInv, Types
      <3>3. x \in DOMAIN pending.orders \/ ids.bound[sent[x].cid].oid # x
        BY <1>4, <1>10, <3>1
      <3> QED BY <1>1, <1>8, <2>3, <3>1, <3>2, <3>3
    <2> QED BY <2>1, <2>2, <2>4, <2>5, <2>6, Zenon DEF CidInv, FailureFreesCid, Holds, Tracked
  <1> QED BY <1>1, <1>13, <1>14, <1>15, <1>16, <1>17, <1>18, <1>19, Frame DEF CoreInv

(* advance_shutdown: where a turn may go from a phase. *)
LEMMA PhaseStep ==
    ASSUME CoreInv, Running, NEW p, phase' = NextPhase(p)[1], phaseEnds' = NextPhase(p)[2]
    PROVE  /\ phase' \in Phases /\ phaseEnds' \in Nat
           /\ phase' = "Draining" => \/ phase = "Draining" /\ phaseEnds' = phaseEnds
                                     \/ phaseEnds' = now + DrainBound
           /\ phase' \in {"Closing", "Exited"} =>
                \/ phase \in {"Closing", "Exited"}
                \/ phase = "Draining" /\ (p.inFlight = 0 \/ now >= phaseEnds)
  <1>1. /\ phase \in {"Serving", "Draining", "Closing"} /\ phaseEnds \in Nat /\ now \in Nat
        /\ DrainBound \in Nat /\ CloseGrace \in Nat
    BY GatewayAssumption DEF CoreInv, Types, Phases, Running, DrainBound
  <1>2. now + DrainBound \in Nat /\ now + CloseGrace \in Nat
    BY <1>1
  <1>3. CASE ~stop
    BY <1>1, <1>3, Zenon DEF NextPhase, Phases
  <1>4. CASE stop /\ phase = "Serving"
    <2>1. NextPhase(p) = <<"Draining", now + DrainBound>>
      BY <1>4, Zenon DEF NextPhase
    <2> QED BY <1>2, <1>4, <2>1 DEF Phases
  <1>5. CASE stop /\ phase = "Draining"
    <2>1. NextPhase(p) = IF p.inFlight = 0 \/ now >= phaseEnds
                         THEN <<"Closing", now + CloseGrace>> ELSE <<phase, phaseEnds>>
      BY <1>5, Zenon DEF NextPhase
    <2> QED BY <1>1, <1>2, <1>5, <2>1 DEF Phases
  <1>6. CASE stop /\ phase = "Closing"
    <2>1. NextPhase(p) = IF SessionsGone \/ now >= phaseEnds
                         THEN <<"Exited", phaseEnds>> ELSE <<phase, phaseEnds>>
      BY <1>6, Zenon DEF NextPhase
    <2> QED BY <1>1, <1>6, <2>1 DEF Phases
  <1> QED BY <1>1, <1>3, <1>4, <1>5, <1>6, Zenon

LEMMA TurnStep ==
    ASSUME SweepPromise, ExpirePromise, FlightPromise,
           CoreInv, NEW idle, Turn(idle)
    PROVE  CoreInv'
  <1>1. UNCHANGED <<now, stop, circuit, tokens, risk, ring, sent, failed>>
    BY Zenon DEF Turn, clock, external
  <1>2. /\ pending' = IF SweepDue THEN Swept ELSE pending
        /\ ids' = IF SweepDue THEN Expire(ids, now) ELSE ids
        /\ lastSweep' = IF SweepDue THEN now ELSE lastSweep
        /\ phase' = NextPhase(pending')[1] /\ phaseEnds' = NextPhase(pending')[2]
        /\ answered' = answered \cup TimedOutNow
        /\ Running
    BY Zenon DEF Turn
  <1>3. PICK n \in Nat : n = Len(sent)
    BY SentTypes, Zenon DEF CoreInv
  <1>4. /\ now \in Nat /\ Window \in Nat /\ Timeout \in Nat /\ SweepEvery \in Nat
        /\ lastSweep \in Nat /\ lastSweep <= now /\ now - lastSweep <= SweepEvery
        /\ \A o \in DOMAIN sent : /\ o \in Nat \ {0} /\ sent[o].cid \in Cids
                                  /\ sent[o].at \in Nat /\ sent[o].at <= now
        /\ failed \subseteq DOMAIN sent /\ answered \subseteq DOMAIN sent
        /\ \A k \in DOMAIN ring : ring[k].oid \in DOMAIN sent
    BY SentTypes, GatewayAssumption, OrdersAssumption DEF CoreInv, Types
  <1>5. DOMAIN pending.orders \subseteq DOMAIN sent
    BY TrackedAreSent, Zenon
  <1>6. /\ \A o \in DOMAIN pending.orders : pending.orders[o].at = sent[o].at
        /\ \A o \in DOMAIN sent \ answered : /\ o \in DOMAIN pending.orders
                                             /\ pending.orders[o].stage = "Submitted"
                                             /\ lastSweep - Timeout <= sent[o].at
    BY Zenon DEF CoreInv, BookInv, Linked, AnswerInv, InStage
  <1>7. /\ pending' \in Books(n) /\ Counted(pending')
        /\ DOMAIN pending'.orders \subseteq DOMAIN pending.orders
        /\ \A o \in DOMAIN pending'.orders :
             /\ pending'.orders[o].cid = pending.orders[o].cid
             /\ pending'.orders[o].at = pending.orders[o].at
        /\ \A o \in DOMAIN pending.orders :
             o \in DOMAIN pending'.orders \/ (SweepDue /\ pending.orders[o].at < now - Window)
        /\ \A o \in DOMAIN pending.orders :
             pending.orders[o].stage = "Submitted" /\ o \notin TimedOutNow
               => o \in DOMAIN pending'.orders /\ pending'.orders[o].stage = "Submitted"
    <2>1. PICK p, q, m, a, b, stale :
            /\ p = pending /\ q = pending' /\ a = now - Timeout /\ b = now - Window
            /\ stale = StaleOrders(pending, now - Timeout)
            /\ m = TimeOut(pending, now - Timeout)
      BY Zenon
    <2>2. p \in Books(n) /\ Counted(p)
      BY <1>3, <2>1, Zenon DEF CoreInv, BookInv
    <2>3. CASE SweepDue
      <3>0. a \in Int /\ b \in Int
        BY <1>4, <2>1
      <3>1. stale = StaleOrders(p, a) /\ m = TimeOut(p, a) /\ q = DropTimedOut(m, b)
        BY <1>2, <2>1, <2>3, Zenon DEF Swept
      <3>2. /\ q \in Books(n) /\ Counted(q)
            /\ DOMAIN q.orders \subseteq DOMAIN p.orders
            /\ \A o \in DOMAIN q.orders :
                 q.orders[o].cid = p.orders[o].cid /\ q.orders[o].at = p.orders[o].at
            /\ \A o \in DOMAIN p.orders : o \in DOMAIN q.orders \/ p.orders[o].at < b
            /\ \A o \in DOMAIN p.orders : p.orders[o].stage = "Submitted" /\ o \notin stale
                 => o \in DOMAIN q.orders /\ q.orders[o].stage = "Submitted"
        <4>1. SweepLeaves(n, p, q, b, stale)
          BY <2>2, <3>0, <3>1, Zenon DEF SweepPromise
        <4> QED BY <4>1, Zenon DEF SweepLeaves
      <3>3. TimedOutNow = stale
        BY <2>1, <2>3, Zenon DEF TimedOutNow
      <3> QED BY <2>1, <2>3, <3>2, <3>3, Zenon
    <2>4. CASE ~SweepDue
      BY <1>2, <2>1, <2>2, <2>4, Zenon
    <2> QED BY <2>3, <2>4, Zenon
  <1>8. \A o \in DOMAIN sent \ answered' : /\ o \in DOMAIN pending'.orders
                                           /\ pending'.orders[o].stage = "Submitted"
                                           /\ lastSweep' - Timeout <= sent[o].at
    <2> SUFFICES ASSUME NEW o \in DOMAIN sent, o \notin answered, o \notin TimedOutNow
                 PROVE  /\ o \in DOMAIN pending'.orders
                        /\ pending'.orders[o].stage = "Submitted"
                        /\ lastSweep' - Timeout <= sent[o].at
      BY <1>2, Zenon
    <2>1. /\ o \in DOMAIN pending.orders /\ pending.orders[o].stage = "Submitted"
          /\ pending.orders[o].at = sent[o].at /\ lastSweep - Timeout <= sent[o].at
      BY <1>6, Zenon
    <2>2. CASE SweepDue
      <3>1. ~(pending.orders[o].at < now - Timeout)
        BY <2>1, <2>2, Zenon DEF TimedOutNow, StaleOrders, InStage
      <3> QED BY <1>2, <1>4, <1>7, <2>1, <2>2, <3>1
    <2>3. CASE ~SweepDue
      BY <1>2, <1>7, <2>1, <2>3, Zenon
    <2> QED BY <2>2, <2>3, Zenon
  <1>9. /\ ids \in Ledgers /\ Ascending(ids.inserted) /\ Recorded(ids)
        /\ \A i \in DOMAIN ids.inserted : ids.inserted[i].at <= now
        /\ \A x \in Cids : ids.bound[x] # Unbound =>
             ids.bound[x].oid \in DOMAIN sent /\ ids.bound[x].at = sent[ids.bound[x].oid].at
    BY Zenon DEF CoreInv, IdsInv
  <1>10. /\ ids' \in Ledgers /\ Ascending(ids'.inserted) /\ Recorded(ids')
         /\ \A i \in DOMAIN ids'.inserted : ids'.inserted[i].at <= now
         /\ \A x \in Cids :
              \/ ids'.bound[x] = ids.bound[x]
              \/ ids'.bound[x] = Unbound /\ ids.bound[x].at < now - Window
         /\ SweepDue => \A x \in Cids : ids.bound[x].at < now - Window => ids'.bound[x] = Unbound
    <2>1. PICK d, r, t : d = ids /\ r = ids' /\ t = now
      BY Zenon
    <2>2. CASE SweepDue
      <3>1. d \in Ledgers /\ Ascending(d.inserted) /\ Recorded(d) /\ t \in Nat /\ r = Expire(d, t)
        BY <1>2, <1>4, <1>9, <2>1, <2>2
      <3>2. /\ r \in Ledgers /\ Ascending(r.inserted) /\ Recorded(r)
            /\ \A i \in DOMAIN r.inserted : \E j \in DOMAIN d.inserted :
                 r.inserted[i] = d.inserted[j]
            /\ \A c \in Cids : d.bound[c] = Unbound => r.bound[c] = Unbound
            /\ \A c \in Cids : d.bound[c] # Unbound /\ d.bound[c].at < t - Window
                 => r.bound[c] = Unbound
            /\ \A c \in Cids : d.bound[c] # Unbound /\ ~(d.bound[c].at < t - Window)
                 => r.bound[c] = d.bound[c]
        BY <3>1 DEF ExpirePromise
      <3>3. \A i \in DOMAIN r.inserted : r.inserted[i].at <= t
        BY <1>9, <2>1, <3>2, Zenon
      <3>4. \A x \in Cids : \/ r.bound[x] = d.bound[x]
                            \/ r.bound[x] = Unbound /\ d.bound[x].at < t - Window
        BY <3>2, Zenon
      <3>5. \A x \in Cids : d.bound[x].at < t - Window => r.bound[x] = Unbound
        BY <3>2, Zenon
      <3> QED BY <2>1, <3>2, <3>3, <3>4, <3>5
    <2>3. CASE ~SweepDue
      BY <1>2, <1>9, <2>3, Zenon
    <2> QED BY <2>2, <2>3, Zenon
  <1>11. /\ phase' \in Phases /\ phaseEnds' \in Nat
         /\ phase' = "Draining" => \/ phase = "Draining" /\ phaseEnds' = phaseEnds
                                   \/ phaseEnds' = now + DrainBound
         /\ phase' \in {"Closing", "Exited"} =>
              \/ phase \in {"Closing", "Exited"}
              \/ phase = "Draining" /\ (pending'.inFlight = 0 \/ now >= phaseEnds)
    BY <1>2, PhaseStep, Zenon
  <1>12. TimedOutNow \subseteq DOMAIN sent
    BY <1>5, Zenon DEF TimedOutNow, StaleOrders, InStage
  <1>13. lastSweep' \in Nat /\ lastSweep' <= now /\ now - lastSweep' <= SweepEvery
    BY <1>2, <1>4
  <1>14. Types'
    <2>1. answered' \subseteq DOMAIN sent'
      BY <1>1, <1>2, <1>4, <1>12, Zenon
    <2> QED BY <1>1, <1>11, <1>13, <2>1, Zenon DEF CoreInv, Types
  <1>15. BookInv'
    <2>1. Counted(pending)'
      BY <1>7, Zenon DEF Counted, InStage
    <2>2. Linked'
      BY <1>1, <1>7, Zenon DEF CoreInv, BookInv, Linked
    <2> QED BY <1>1, <1>3, <1>7, <2>1, <2>2 DEF BookInv
  <1>16. AnswerInv'
    <2>1. phase' = "Draining" => \A o \in DOMAIN sent' : sent'[o].at <= phaseEnds' - DrainBound
      <3>1. DrainBound \in Nat
        BY <1>4 DEF DrainBound
      <3>2. phase = "Draining" => \A o \in DOMAIN sent : sent[o].at <= phaseEnds - DrainBound
        BY Zenon DEF CoreInv, AnswerInv
      <3> QED BY <1>1, <1>4, <1>11, <3>1, <3>2
    <2>2. phase' \in {"Closing", "Exited"} => DOMAIN sent \subseteq answered'
      <3>1. CASE phase \in {"Closing", "Exited"}
        BY <1>2, <3>1, Zenon DEF CoreInv, AnswerInv, DrainAnswersAll
      <3>2. CASE pending'.inFlight = 0
        <4>1. PICK q \in Books(n) : q = pending'
          BY <1>7, Zenon
        <4>2. Counted(q) /\ q.inFlight = 0
          BY <1>7, <3>2, <4>1, Zenon
        <4>3. InStage(q, "Submitted") = {}
          BY <4>2, Zenon DEF FlightPromise
        <4> QED BY <1>8, <4>1, <4>3, Zenon DEF InStage
      <3>3. CASE phase = "Draining" /\ now >= phaseEnds
        <4>1. \A o \in DOMAIN sent : sent[o].at <= phaseEnds - (Timeout + SweepEvery)
          BY <3>3, Zenon DEF CoreInv, AnswerInv, DrainBound
        <4>2. phaseEnds \in Nat
          BY Zenon DEF CoreInv, Types
        <4>3. CASE SweepDue
          BY <1>2, <1>4, <1>8, <3>3, <4>1, <4>2, <4>3, GatewayAssumption
        <4>4. CASE ~SweepDue
          BY <1>2, <1>4, <1>8, <3>3, <4>1, <4>2, <4>4 DEF SweepDue
        <4> QED BY <4>3, <4>4, Zenon
      <3> QED BY <1>11, <3>1, <3>2, <3>3
    <2> QED BY <1>1, <1>8, <2>1, <2>2 DEF AnswerInv, InStage, DrainAnswersAll
  <1>17. LiveIsCancellable'
    <2>1. \A o \in DOMAIN pending.orders :
            o \in DOMAIN pending'.orders \/ now - sent[o].at > Window
      BY <1>4, <1>5, <1>6, <1>7
    <2> QED BY <1>1, <2>1, Zenon DEF CoreInv, LiveIsCancellable, Tracked
  <1>18. IdsInv'
    <2>1. \A x \in Cids : ids'.bound[x] # Unbound => ids'.bound[x] = ids.bound[x]
      BY <1>10, Zenon
    <2> QED BY <1>1, <1>9, <1>10, <2>1 DEF IdsInv, Ascending, Recorded
  <1>19. CidInv'
    <2>1. /\ \A x \in DOMAIN sent : x \in failed \/ now - sent[x].at > Window
                                    \/ ids.bound[sent[x].cid].oid = x
          /\ \A x \in failed : ids.bound[sent[x].cid].oid # x
          /\ \A x \in DOMAIN sent : risk[x] = "sent" =>
               x \in DOMAIN pending.orders \/ ids.bound[sent[x].cid].oid # x
          /\ \A k \in DOMAIN ring : ring[k].kind = "failed" =>
               \/ ring[k].oid \in DOMAIN pending.orders
               \/ ids.bound[sent[ring[k].oid].cid].oid # ring[k].oid
      BY Zenon DEF CoreInv, CidInv, FailureFreesCid, Holds, Tracked
    <2>2. \A x \in DOMAIN sent : ids.bound[sent[x].cid].oid = x =>
            ids.bound[sent[x].cid].at = sent[x].at
      <3>1. Unbound.oid = 0
        BY Zenon DEF Unbound
      <3> QED BY <1>4, <1>9, <3>1, Zenon
    <2>3. \A x \in DOMAIN sent : ids.bound[sent[x].cid].oid # x => ids'.bound[sent[x].cid].oid # x
      BY <1>4, <1>10 DEF Unbound
    <2>4. \A x \in DOMAIN pending.orders :
            x \in DOMAIN pending'.orders \/ ids'.bound[sent[x].cid].oid # x
      <3> SUFFICES ASSUME NEW x \in DOMAIN pending.orders, x \notin DOMAIN pending'.orders
                   PROVE  ids'.bound[sent[x].cid].oid # x
        BY Zenon
      <3>1. x \in DOMAIN sent /\ x # 0 /\ sent[x].cid \in Cids
        BY <1>4, <1>5, Zenon
      <3>2. SweepDue /\ sent[x].at < now - Window
        BY <1>6, <1>7, Zenon
      <3>3. CASE ids.bound[sent[x].cid].oid = x
        BY <1>10, <2>2, <3>1, <3>2, <3>3 DEF Unbound
      <3>4. CASE ids.bound[sent[x].cid].oid # x
        BY <2>3, <3>1, <3>4, Zenon
      <3> QED BY <3>3, <3>4, Zenon
    <2>5. \A x \in DOMAIN sent' : x \in failed' \/ now' - sent'[x].at > Window
                                  \/ ids'.bound[sent'[x].cid].oid = x
      <3> SUFFICES ASSUME NEW x \in DOMAIN sent, ids.bound[sent[x].cid].oid = x,
                          ids'.bound[sent[x].cid].oid # x
                   PROVE  now - sent[x].at > Window
        BY <1>1, <2>1, Zenon
      <3>1. ids.bound[sent[x].cid].at < now - Window
        BY <1>4, <1>10, Zenon
      <3> QED BY <1>4, <2>2, <3>1
    <2>6. OneOrderPerCid'
      BY <1>1, Zenon DEF CoreInv, CidInv, OneOrderPerCid
    <2>7. \A x \in failed' : ids'.bound[sent'[x].cid].oid # x
      BY <1>1, <1>4, <2>1, <2>3, Zenon
    <2>8. \A x \in DOMAIN sent' : risk'[x] = "sent" =>
            x \in DOMAIN pending'.orders \/ ids'.bound[sent'[x].cid].oid # x
      BY <1>1, <2>1, <2>3, <2>4, Zenon
    <2>9. \A k \in DOMAIN ring' : ring'[k].kind = "failed" =>
            \/ ring'[k].oid \in DOMAIN pending'.orders
            \/ ids'.bound[sent'[ring'[k].oid].cid].oid # ring'[k].oid
      <3> SUFFICES ASSUME NEW k \in DOMAIN ring, ring[k].kind = "failed"
                   PROVE  \/ ring[k].oid \in DOMAIN pending'.orders
                          \/ ids'.bound[sent[ring[k].oid].cid].oid # ring[k].oid
        BY <1>1, Zenon
      <3>1. PICK x \in DOMAIN sent : x = ring[k].oid
        BY <1>4, Zenon
      <3>2. x \in DOMAIN pending.orders \/ ids.bound[sent[x].cid].oid # x
        BY <2>1, <3>1, Zenon
      <3> QED BY <2>3, <2>4, <3>1, <3>2, Zenon
    <2> QED BY <2>5, <2>6, <2>7, <2>8, <2>9 DEF CidInv, FailureFreesCid, Holds, Tracked
  <1> QED BY <1>1, <1>14, <1>15, <1>16, <1>17, <1>18, <1>19, Frame DEF CoreInv

-----------------------------------------------------------------------------
(* Every step.                                                            *)

LEMMA SessionStep ==
    ASSUME CoreInv, UNCHANGED core
    PROVE  CoreInv'
  <1>1. UNCHANGED <<now, stop, phase, phaseEnds, lastSweep, pending, ids, circuit, tokens,
                    risk, ring, sent, answered, failed>>
    BY Zenon DEF core
  <1>2. Types'
    BY <1>1, Zenon DEF CoreInv, Types
  <1> QED BY <1>1, <1>2, Frame, Zenon DEF CoreInv

LEMMA CoreNext == Promises /\ CoreInv /\ [Next]_vars => CoreInv'
  <1> SUFFICES ASSUME Promises, CoreInv, [Next]_vars PROVE CoreInv'
    BY Zenon
  <1>1. CASE UNCHANGED vars
    <2>1. UNCHANGED core
      BY <1>1, Zenon DEF vars, core, clock, loop, external
    <2> QED BY <2>1, SessionStep, Zenon
  <1>2. ASSUME NEW c \in Conns, Session(c) PROVE CoreInv'
    <2>1. CASE AddConnection(c) \/ EndSession(c) \/ WriteMessage(c) \/ Wake(c)
      <3>1. UNCHANGED core
        BY <2>1, Zenon DEF AddConnection, EndSession, WriteMessage, Wake, core, clock, loop, external
      <3> QED BY <3>1, SessionStep, Zenon
    <2>2. ASSUME NEW cid \in Cids,
                 NewOrder(c, cid) \/ NewOrderForwarded(c, cid) \/ Cancel(c, cid)
          PROVE  CoreInv'
      BY <2>2, NewOrderStep, ForwardedStep, CancelStep, Zenon DEF Promises
    <2> QED BY <1>2, <2>1, <2>2, Zenon DEF Session
  <1>3. ASSUME NEW o \in DOMAIN risk, NEW a \in RiskAnswers, RiskAnswer(o, a) PROVE CoreInv'
    BY <1>3, RiskAnswerStep, Zenon
  <1>4. CASE RouteEvent
    BY <1>4, RouteStep, Zenon DEF Promises
  <1>5. ASSUME NEW idle \in SUBSET Conns, Turn(idle) PROVE CoreInv'
    BY <1>5, TurnStep, Zenon DEF Promises
  <1>6. CASE Signal
    BY <1>6, SignalStep, Zenon
  <1>7. CASE Tick
    BY <1>7, TickStep, Zenon DEF Promises
  <1> QED BY <1>1, <1>2, <1>3, <1>4, <1>5, <1>6, <1>7 DEF Next

-----------------------------------------------------------------------------
(* The sessions: what each step leaves of what a session is due.           *)

\* A session: what it is due is what it writes and what is queued, it writes
\* while it has something to write, and a queued message has set the wake.  The
\* messages are of some set: their form does not matter here.
Sessions(M) == [at : {"down", "write", "wait"}, wake : BOOLEAN,
                writing : Seq(M), outbound : Seq(M), due : Seq(M)]
Served(s) ==
  /\ \E M : s \in Sessions(M)
  /\ s.due = s.writing \o s.outbound
  /\ s.at = "write" <=> s.writing # <<>>
  /\ s.outbound # <<>> => s.wake

\* The close has woken every session that waits.
SessionInv ==
  /\ conns = [c \in Conns |-> conns[c]]
  /\ \A c \in Conns :
       Served(conns[c]) /\ (conns[c].at = "wait" /\ phase = "Closing" => conns[c].wake)

-----------------------------------------------------------------------------
(* Queues, and what the operations on one session leave.                   *)

LEMMA QueueFacts ==
    ASSUME NEW M, NEW s \in Seq(M), NEW t \in Seq(M)
    PROVE  /\ s \o t \in Seq(M) /\ <<>> \o s = s /\ s \o <<>> = s
           /\ s # <<>> => /\ Tail(s \o t) = Tail(s) \o t /\ Tail(s) \in Seq(M)
                          /\ s \o t # <<>>
  OBVIOUS

LEMMA QueueGrows ==
    ASSUME NEW M, NEW N, M \subseteq N, NEW s \in Seq(M)
    PROVE  s \in Seq(N)
  OBVIOUS

LEMMA QueueAppends ==
    ASSUME NEW M, NEW s \in Seq(M), NEW t \in Seq(M), NEW m \in M
    PROVE  Append(s \o t, m) = s \o Append(t, m) /\ Append(t, m) \in Seq(M)
  <1>1. Append(s \o t, m) = s \o Append(t, m)
    OBVIOUS
  <1> QED BY <1>1

LEMMA QueueJoins ==
    ASSUME NEW M, NEW s \in Seq(M), NEW t \in Seq(M), NEW u \in Seq(M)
    PROVE  (s \o t) \o u = s \o (t \o u) /\ t \o u \in Seq(M)
  <1>1. (s \o t) \o u = s \o (t \o u)
    OBVIOUS
  <1> QED BY <1>1

LEMMA ClosedSession == Served(NoSession) /\ NoSession.at = "down"
  BY DEF Served, Sessions, NoSession

(* A message for a session is queued with the wake set, or closes it. *)
LEMMA QueueOutboundServed ==
    ASSUME NEW s, Served(s), NEW m, NEW r, r = QueueOutbound(s, m)
    PROVE  Served(r) /\ (r.at = "wait" => s.at = "wait" /\ (s.wake => r.wake))
  <1>1. CASE s.at = "down"
    BY <1>1 DEF QueueOutbound
  <1>2. CASE s.at # "down" /\ Len(s.outbound) >= MaxOutbound
    BY <1>2, ClosedSession DEF QueueOutbound
  <1>3. CASE s.at # "down" /\ ~(Len(s.outbound) >= MaxOutbound)
    <2>1. PICK M : s \in Sessions(M)
      BY DEF Served
    <2>2. PICK N : N = M \cup {m}
      BY Zenon
    <2>3. s.writing \in Seq(M) /\ s.outbound \in Seq(M) /\ s.due \in Seq(M)
      BY <2>1 DEF Sessions
    <2>4. s.writing \in Seq(N) /\ s.outbound \in Seq(N) /\ s.due \in Seq(N) /\ m \in N
      BY <2>2, <2>3, QueueGrows
    <2>5. PICK w, b, o, d : /\ w = s.writing /\ b = s.outbound
                            /\ o = Append(b, m) /\ d = Append(s.due, m)
      BY Zenon
    <2>6. o \in Seq(N) /\ d \in Seq(N) /\ d = s.writing \o o
      <3>1. s.due = w \o b
        BY <2>5 DEF Served
      <3>2. w \in Seq(N) /\ b \in Seq(N) /\ m \in N
        BY <2>4, <2>5
      <3>3. d = Append(w \o b, m)
        BY <2>5, <3>1, Zenon
      <3>4. /\ Append(w \o b, m) = w \o Append(b, m)
            /\ Append(b, m) \in Seq(N)
        <4>1. ASSUME NEW x \in Seq(N), NEW y \in Seq(N), NEW z \in N
              PROVE  Append(x \o y, z) = x \o Append(y, z) /\ Append(y, z) \in Seq(N)
          BY QueueAppends
        <4> QED BY <3>2, <4>1, Zenon
      <3>5. o = Append(b, m)
        BY <2>5, Zenon
      <3>6. o \in Seq(N) /\ d = w \o o
        BY <3>3, <3>4, <3>5, Zenon
      <3>7. w \o o \in Seq(N)
        BY <3>2, <3>6, QueueFacts
      <3> QED BY <2>5, <3>6, <3>7, Zenon
    <2>7. r = [s EXCEPT !.outbound = o, !.due = d, !.wake = TRUE]
      BY <1>3, <2>5 DEF QueueOutbound
    <2>8. /\ r \in Sessions(N) /\ r.at = s.at /\ r.writing = s.writing
          /\ r.outbound = o /\ r.due = d /\ r.wake = TRUE
      BY <2>1, <2>4, <2>6, <2>7, Zenon DEF Sessions
    <2> QED BY <2>6, <2>8 DEF Served
  <1> QED BY <1>1, <1>2, <1>3

LEMMA QueueAllServed ==
    ASSUME NEW s, Served(s), NEW L, NEW msgs \in Seq(L), NEW r, r = QueueAll(s, msgs)
    PROVE  Served(r) /\ (r.at = "wait" => s.at = "wait" /\ (s.wake => r.wake))
  <1>1. CASE s.at = "down" \/ msgs = <<>>
    BY <1>1 DEF QueueAll
  <1>2. CASE s.at # "down" /\ msgs # <<>> /\ Len(s.outbound) + Len(msgs) > MaxOutbound
    BY <1>2, ClosedSession DEF QueueAll
  <1>3. CASE s.at # "down" /\ msgs # <<>> /\ ~(Len(s.outbound) + Len(msgs) > MaxOutbound)
    <2>1. PICK M : s \in Sessions(M)
      BY DEF Served
    <2>2. PICK N : N = M \cup L
      BY Zenon
    <2>3. s.writing \in Seq(M) /\ s.outbound \in Seq(M) /\ s.due \in Seq(M)
      BY <2>1 DEF Sessions
    <2>4. s.writing \in Seq(N) /\ s.outbound \in Seq(N) /\ s.due \in Seq(N) /\ msgs \in Seq(N)
      BY <2>2, <2>3, QueueGrows
    <2>5. PICK w, b, o, d : /\ w = s.writing /\ b = s.outbound
                            /\ o = b \o msgs /\ d = s.due \o msgs
      BY Zenon
    <2>6. o \in Seq(N) /\ d \in Seq(N) /\ d = s.writing \o o
      <3>1. s.due = w \o b
        BY <2>5 DEF Served
      <3>2. w \in Seq(N) /\ b \in Seq(N) /\ msgs \in Seq(N)
        BY <2>4, <2>5
      <3>3. d = (w \o b) \o msgs
        BY <2>5, <3>1, Zenon
      <3>4. (w \o b) \o msgs = w \o (b \o msgs) /\ b \o msgs \in Seq(N)
        BY <3>2, QueueJoins
      <3>5. o = b \o msgs
        BY <2>5, Zenon
      <3>6. o \in Seq(N) /\ d = w \o o
        BY <3>3, <3>4, <3>5, Zenon
      <3>7. w \o o \in Seq(N)
        BY <3>2, <3>6, QueueFacts
      <3> QED BY <2>5, <3>6, <3>7, Zenon
    <2>7. r = [s EXCEPT !.outbound = o, !.due = d, !.wake = TRUE]
      BY <1>3, <2>5 DEF QueueAll
    <2>8. /\ r \in Sessions(N) /\ r.at = s.at /\ r.writing = s.writing
          /\ r.outbound = o /\ r.due = d /\ r.wake = TRUE
      BY <2>1, <2>4, <2>6, <2>7, Zenon DEF Sessions
    <2> QED BY <2>6, <2>8 DEF Served
  <1> QED BY <1>1, <1>2, <1>3

(* The top of the session's loop: what is queued is written, and a session
   waits only while the gateway is not closing. *)
LEMMA ResumedServed ==
    ASSUME NEW M, NEW s \in Sessions(M), s.writing = <<>>, s.due = s.outbound,
           NEW r, r = Resumed(s)
    PROVE  Served(r) /\ (r.at = "wait" => phase # "Closing")
  <1>1. s.outbound \in Seq(M) /\ s.due \in Seq(M) /\ <<>> \in Seq(M)
    BY DEF Sessions
  <1>2. CASE s.outbound # <<>>
    <2>1. r = [s EXCEPT !.at = "write", !.writing = s.outbound, !.outbound = <<>>]
      BY <1>2 DEF Resumed
    <2>2. PICK w : w = s.outbound
      BY Zenon
    <2>3. r = [s EXCEPT !.at = "write", !.writing = w, !.outbound = <<>>]
      BY <2>1, <2>2
    <2>4. /\ r \in Sessions(M) /\ r.at = "write" /\ r.writing = w
          /\ r.outbound = <<>> /\ r.due = s.due
      BY <1>1, <2>2, <2>3, Zenon DEF Sessions
    <2>5. w \o <<>> = w
      BY <1>1, <2>2, QueueFacts
    <2> QED BY <1>2, <2>2, <2>4, <2>5 DEF Served
  <1>3. CASE s.outbound = <<>> /\ phase = "Closing"
    BY <1>3, ClosedSession DEF Resumed
  <1>4. CASE s.outbound = <<>> /\ phase # "Closing"
    <2>1. r = [s EXCEPT !.at = "wait"]
      BY <1>4 DEF Resumed
    <2>2. /\ r \in Sessions(M) /\ r.at = "wait" /\ r.writing = <<>> /\ r.outbound = <<>>
          /\ r.due = <<>>
      BY <1>4, <2>1 DEF Sessions
    <2>3. <<>> \o <<>> = <<>>
      BY <1>1, QueueFacts
    <2> QED BY <1>4, <2>2, <2>3 DEF Served
  <1> QED BY <1>2, <1>3, <1>4

(* A write ends: the message goes from both what is due and what is written. *)
LEMMA WrittenServed ==
    ASSUME NEW s, Served(s), s.at = "write", NEW r, r = Written(s)
    PROVE  Served(r) /\ (r.at = "wait" => phase # "Closing")
  <1>1. PICK M : s \in Sessions(M)
    BY DEF Served
  <1>2. PICK w, b, x, y : w = s.writing /\ b = s.outbound /\ x = Tail(s.writing) /\ y = Tail(s.due)
    BY Zenon
  <1>3. w \in Seq(M) /\ b \in Seq(M) /\ w # <<>> /\ s.due = w \o b
    BY <1>1, <1>2 DEF Served, Sessions
  <1>4. x \in Seq(M) /\ y = x \o b /\ y \in Seq(M)
    <2>1. Tail(w \o b) = Tail(w) \o b /\ Tail(w) \in Seq(M)
      BY <1>3, QueueFacts
    <2>2. x = Tail(w) /\ y = Tail(w \o b)
      BY <1>2, <1>3, Zenon
    <2>3. x \in Seq(M) /\ y = x \o b
      BY <2>1, <2>2, Zenon
    <2> QED BY <1>3, <2>3, QueueFacts
  <1>5. PICK t : t = [s EXCEPT !.writing = x, !.due = y]
    BY Zenon
  <1>6. /\ t \in Sessions(M) /\ t.at = "write" /\ t.writing = x /\ t.due = y
        /\ t.outbound = b /\ t.wake = s.wake
    BY <1>1, <1>2, <1>4, <1>5, Zenon DEF Sessions
  <1>7. b # <<>> => s.wake
    BY <1>2 DEF Served
  <1>8. r = IF t.writing # <<>> THEN t
            ELSE IF phase = "Closing" THEN NoSession ELSE [t EXCEPT !.at = "wait"]
    BY <1>2, <1>5 DEF Written
  <1>9. CASE x # <<>>
    BY <1>4, <1>6, <1>7, <1>8, <1>9, Zenon DEF Served
  <1>10. CASE x = <<>> /\ phase = "Closing"
    BY <1>6, <1>8, <1>10, ClosedSession
  <1>11. CASE x = <<>> /\ phase # "Closing"
    <2>1. r = [t EXCEPT !.at = "wait"]
      BY <1>6, <1>8, <1>11
    <2>2. /\ r \in Sessions(M) /\ r.at = "wait" /\ r.writing = x /\ r.due = y
          /\ r.outbound = b /\ r.wake = s.wake
      BY <1>6, <2>1 DEF Sessions
    <2> QED BY <1>4, <1>7, <1>11, <2>2 DEF Served
  <1> QED BY <1>9, <1>10, <1>11

-----------------------------------------------------------------------------
(* The steps.                                                              *)

(* One session changes, to one that is served and does not wait while the
   gateway closes. *)
LEMMA OneSession ==
    ASSUME SessionInv, UNCHANGED phase, NEW c \in Conns, NEW r, Served(r),
           r.at = "wait" => phase # "Closing", conns' = [conns EXCEPT ![c] = r]
    PROVE  SessionInv'
  <1>1. \A d \in Conns : conns'[d] = IF d = c THEN r ELSE conns[d]
    BY DEF SessionInv
  <1>2. conns' = [d \in Conns |-> conns'[d]]
    BY DEF SessionInv
  <1>3. ASSUME NEW d \in Conns
        PROVE  Served(conns'[d]) /\ (conns'[d].at = "wait" /\ phase' = "Closing" => conns'[d].wake)
    BY <1>1 DEF SessionInv
  <1>4. \A d \in Conns : Served(conns[d])'
    BY <1>3, Zenon DEF Served, Sessions
  <1> QED BY <1>2, <1>3, <1>4 DEF SessionInv

(* Every session changes to one that is served. *)
LEMMA AllSessions ==
    ASSUME NEW f, conns' = [c \in Conns |-> f[c]],
           \A c \in Conns : Served(f[c]) /\ (f[c].at = "wait" /\ phase' = "Closing" => f[c].wake)
    PROVE  SessionInv'
  <1>1. conns' = [c \in Conns |-> conns'[c]] /\ \A c \in Conns : conns'[c] = f[c]
    OBVIOUS
  <1>2. ASSUME NEW c \in Conns
        PROVE  Served(conns'[c]) /\ (conns'[c].at = "wait" /\ phase' = "Closing" => conns'[c].wake)
    BY <1>1, Zenon
  <1>3. \A c \in Conns : Served(conns[c])'
    BY <1>2, Zenon DEF Served, Sessions
  <1> QED BY <1>1, <1>2, <1>3 DEF SessionInv

LEMMA SessionInit == Init => SessionInv
  BY ClosedSession DEF Init, SessionInv

(* A session that waits resumes, whatever its wake bit. *)
LEMMA ResumeStep ==
    ASSUME SessionInv, UNCHANGED phase, NEW c \in Conns, conns[c].at = "wait",
           NEW bit \in BOOLEAN, NEW s, s = [conns[c] EXCEPT !.wake = bit],
           conns' = [conns EXCEPT ![c] = Resumed(s)]
    PROVE  SessionInv'
  <1>1. PICK k : k = conns[c]
    BY Zenon
  <1>2. Served(k) /\ k.at = "wait" /\ s = [k EXCEPT !.wake = bit]
    BY <1>1 DEF SessionInv
  <1>3. PICK M : k \in Sessions(M)
    BY <1>2 DEF Served
  <1>4. k.writing = <<>> /\ k.due = k.writing \o k.outbound /\ k.outbound \in Seq(M)
    BY <1>2, <1>3 DEF Served, Sessions
  <1>5. k.due = k.outbound
    BY <1>4, QueueFacts
  <1>6. s \in Sessions(M) /\ s.writing = <<>> /\ s.due = s.outbound
    BY <1>2, <1>3, <1>4, <1>5 DEF Sessions
  <1>7. PICK r : r = Resumed(s)
    BY Zenon
  <1>8. Served(r) /\ (r.at = "wait" => phase # "Closing")
    BY <1>6, <1>7, ResumedServed, Zenon
  <1> QED BY <1>7, <1>8, OneSession, Zenon

LEMMA HandledStep ==
    ASSUME SessionInv, NEW c \in Conns, Handled(c)
    PROVE  SessionInv'
  <1>1. /\ conns[c].at = "wait" /\ conns' = [conns EXCEPT ![c] = Resumed(conns[c])]
        /\ UNCHANGED phase
    BY DEF Handled, loop
  <1>2. PICK k, bit : k = conns[c] /\ bit = k.wake
    BY Zenon
  <1>3. bit \in BOOLEAN /\ k = [k EXCEPT !.wake = bit]
    BY <1>2, Zenon DEF SessionInv, Served, Sessions
  <1>4. conns' = [conns EXCEPT ![c] = Resumed(k)] /\ k = [conns[c] EXCEPT !.wake = bit]
    BY <1>1, <1>2, <1>3
  <1> QED BY <1>1, <1>3, <1>4, ResumeStep, Zenon

LEMMA OpenStep ==
    ASSUME SessionInv, NEW c \in Conns, AddConnection(c)
    PROVE  SessionInv'
  <1>1. PICK s, q : /\ s = [NoSession EXCEPT !.at = "wait"]
                    /\ q = [s EXCEPT !.outbound = Append(@, Heartbeat),
                                     !.due = Append(@, Heartbeat), !.wake = TRUE]
    BY Zenon
  <1>2. /\ s.at = "wait" /\ s.outbound = <<>> /\ s.writing = <<>> /\ s.due = <<>>
        /\ s \in Sessions({Heartbeat})
    <2>1. NoSession \in Sessions({Heartbeat})
      BY DEF NoSession, Sessions
    <2>2. s \in Sessions({Heartbeat})
      BY <1>1, <2>1 DEF Sessions
    <2>3. s.at = "wait" /\ s.outbound = <<>> /\ s.writing = <<>> /\ s.due = <<>>
      BY <1>1 DEF NoSession
    <2> QED BY <2>2, <2>3, Zenon
  <1>3. Len(s.outbound) = 0 /\ ~(0 >= MaxOutbound)
    BY <1>2, GatewayAssumption
  <1>4. QueueOutbound(s, Heartbeat) = q
    BY <1>1, <1>2, <1>3 DEF QueueOutbound
  <1>5. PICK h : h = Append(<<>>, Heartbeat)
    BY Zenon
  <1>6. h \in Seq({Heartbeat})
    BY <1>5
  <1>7. q = [s EXCEPT !.outbound = h, !.due = h, !.wake = TRUE]
    BY <1>1, <1>2, <1>5, Zenon
  <1>8. q \in Sessions({Heartbeat}) /\ q.writing = <<>> /\ q.due = q.outbound
    BY <1>2, <1>6, <1>7, Zenon DEF Sessions
  <1>9. PICK r : r = Resumed(q)
    BY Zenon
  <1>10. Served(r) /\ (r.at = "wait" => phase # "Closing")
    BY <1>8, <1>9, ResumedServed
  <1>11. conns' = [conns EXCEPT ![c] = r] /\ UNCHANGED phase
    BY <1>1, <1>4, <1>9, Zenon DEF AddConnection
  <1> QED BY <1>10, <1>11, OneSession, Zenon

LEMMA OwnStep ==
    ASSUME SessionInv, NEW c \in Conns,
           EndSession(c) \/ WriteMessage(c) \/ Wake(c)
    PROVE  SessionInv'
  <1>1. CASE EndSession(c)
    <2>1. conns' = [conns EXCEPT ![c] = NoSession] /\ UNCHANGED phase
      BY <1>1 DEF EndSession, loop
    <2>2. PICK r : r = NoSession
      BY Zenon
    <2>3. Served(r) /\ r.at = "down" /\ conns' = [conns EXCEPT ![c] = r]
      BY <2>1, <2>2, ClosedSession
    <2> QED BY <2>1, <2>3, OneSession, Zenon
  <1>2. CASE WriteMessage(c)
    <2>1. /\ conns[c].at = "write" /\ conns' = [conns EXCEPT ![c] = Written(conns[c])]
          /\ UNCHANGED phase
      BY <1>2 DEF WriteMessage, loop
    <2>2. PICK s, r : s = conns[c] /\ r = Written(s)
      BY Zenon
    <2>3. Served(s) /\ s.at = "write" /\ conns' = [conns EXCEPT ![c] = r]
      BY <2>1, <2>2 DEF SessionInv
    <2>4. Served(r) /\ (r.at = "wait" => phase # "Closing")
      BY <2>2, <2>3, WrittenServed
    <2> QED BY <2>1, <2>3, <2>4, OneSession, Zenon
  <1>3. CASE Wake(c)
    <2>1. PICK s : s = [conns[c] EXCEPT !.wake = FALSE]
      BY Zenon
    <2>2. /\ conns[c].at = "wait" /\ conns' = [conns EXCEPT ![c] = Resumed(s)]
          /\ UNCHANGED phase
      BY <1>3, <2>1 DEF Wake, loop
    <2>3. FALSE \in BOOLEAN
      OBVIOUS
    <2> QED BY <2>1, <2>2, <2>3, ResumeStep, Zenon
  <1> QED BY <1>1, <1>2, <1>3

LEMMA PushStep ==
    ASSUME SessionInv, UNCHANGED phase, NEW m, conns' = PushToUser(conns, m)
    PROVE  SessionInv'
  <1>1. PICK f : f = [c \in Conns |-> QueueOutbound(conns[c], m)]
    BY Zenon
  <1>2. conns' = [c \in Conns |-> f[c]]
    BY <1>1 DEF PushToUser
  <1>3. ASSUME NEW c \in Conns
        PROVE  Served(f[c]) /\ (f[c].at = "wait" /\ phase' = "Closing" => f[c].wake)
    <2>1. PICK s, r : s = conns[c] /\ r = QueueOutbound(s, m)
      BY Zenon
    <2>2. Served(s) /\ (s.at = "wait" /\ phase = "Closing" => s.wake) /\ f[c] = r
      BY <1>1, <2>1 DEF SessionInv
    <2>3. Served(r) /\ (r.at = "wait" => s.at = "wait" /\ (s.wake => r.wake))
      BY <2>1, <2>2, QueueOutboundServed
    <2> QED BY <2>2, <2>3
  <1> QED BY <1>2, <1>3, AllSessions, Zenon

(* Sessions are closed only after the drain. *)
LEMMA ClosingAfterDraining ==
    ASSUME phase \in Phases, Running, NEW p, NextPhase(p)[1] = "Closing", phase # "Closing"
    PROVE  phase = "Draining"
  <1>1. phase \in {"Serving", "Draining"}
    BY DEF Phases, Running
  <1>2. CASE ~stop
    BY <1>2 DEF NextPhase
  <1>3. CASE stop /\ phase = "Serving"
    <2>1. NextPhase(p) = <<"Draining", now + DrainBound>>
      BY <1>3 DEF NextPhase
    <2> QED BY <2>1
  <1> QED BY <1>1, <1>2, <1>3

(* A turn: timeouts, the wake of the close and the heartbeat reach a session
   in this order. *)
LEMMA TurnSessions ==
    ASSUME SessionInv, phase \in Phases, Cardinality(TimedOutNow) \in Nat, NEW idle, Turn(idle)
    PROVE  SessionInv'
  <1>1. PICK k, msgs : /\ k = Cardinality(TimedOutNow)
                       /\ msgs = [i \in 1 .. k |-> [kind |-> "timeout", oid |-> Nth(TimedOutNow, i)]]
    BY Zenon
  <1>2. k \in Nat
    BY <1>1
  <1>3. PICK L : msgs \in Seq(L)
    <2>1. PICK L : L = {msgs[i] : i \in 1 .. k}
      BY Zenon
    <2>2. msgs \in [1 .. k -> L]
      BY <1>1, <2>1
    <2>3. msgs \in Seq(L)
      BY <1>2, <2>2
    <2> QED BY <2>3
  <1>4. PICK to, beat : to = NextPhase(pending')[1] /\ beat = (now - lastBeat >= BeatEvery)
    BY Zenon
  <1>5. msgs = [i \in 1 .. Cardinality(TimedOutNow) |->
                  [kind |-> "timeout", oid |-> Nth(TimedOutNow, i)]]
    BY <1>1, Zenon
  <1>6. /\ phase' = to /\ phaseEnds' = NextPhase(pending')[2] /\ Running
        /\ conns' = IF to = "Exited" THEN [c \in Conns |-> NoSession]
                    ELSE [c \in Conns |->
                            IF c \in idle THEN NoSession
                            ELSE (IF beat
                                  THEN PushToUser(Signalled(PushAll(conns, msgs), to), Heartbeat)
                                  ELSE Signalled(PushAll(conns, msgs), to))[c]]
    BY <1>4, <1>5, Zenon DEF Turn
  <1>7. to = "Closing" /\ phase # "Closing" => phase = "Draining"
    BY <1>4, <1>6, ClosingAfterDraining, Zenon
  <1>8. CASE to = "Exited"
    <2>1. PICK f : f = [c \in Conns |-> NoSession]
      BY Zenon
    <2>2. conns' = [c \in Conns |-> f[c]] /\ \A c \in Conns : f[c] = NoSession
      BY <1>8, <1>6, <2>1
    <2> QED BY <2>2, ClosedSession, AllSessions
  <1>9. CASE to # "Exited"
    <2>1. PICK f : f = [c \in Conns |->
                          IF c \in idle THEN NoSession
                          ELSE (IF beat
                                THEN PushToUser(Signalled(PushAll(conns, msgs), to), Heartbeat)
                                ELSE Signalled(PushAll(conns, msgs), to))[c]]
      BY Zenon
    <2>2. conns' = [c \in Conns |-> f[c]]
      BY <1>9, <1>6, <2>1
    <2>3. ASSUME NEW c \in Conns
          PROVE  Served(f[c]) /\ (f[c].at = "wait" /\ phase' = "Closing" => f[c].wake)
      <3>1. PICK s, r : s = conns[c] /\ r = QueueAll(s, msgs)
        BY Zenon
      <3>2. PICK t : t = IF to = "Closing" /\ phase = "Draining" /\ r.at # "down"
                         THEN [r EXCEPT !.wake = TRUE] ELSE r
        BY Zenon
      <3>3. PICK u : u = IF beat THEN QueueOutbound(t, Heartbeat) ELSE t
        BY Zenon
      <3>4. f[c] = IF c \in idle THEN NoSession ELSE u
        BY <2>1, <3>1, <3>2, <3>3 DEF PushToUser, Signalled, PushAll
      <3>5. Served(s) /\ (s.at = "wait" /\ phase = "Closing" => s.wake)
        BY <3>1 DEF SessionInv
      <3>6. Served(r) /\ (r.at = "wait" => s.at = "wait" /\ (s.wake => r.wake))
        BY <1>3, <3>1, <3>5, QueueAllServed
      <3>7. Served(t) /\ (t.at = "wait" /\ to = "Closing" => t.wake)
        <4>1. CASE to = "Closing" /\ phase = "Draining" /\ r.at # "down"
          <5>1. PICK M : r \in Sessions(M)
            BY <3>6 DEF Served
          <5>2. t = [r EXCEPT !.wake = TRUE]
            BY <3>2, <4>1
          <5>3. /\ t \in Sessions(M) /\ t.at = r.at /\ t.wake = TRUE /\ t.writing = r.writing
                /\ t.outbound = r.outbound /\ t.due = r.due
            BY <5>1, <5>2, Zenon DEF Sessions
          <5> QED BY <3>6, <5>3 DEF Served
        <4>2. CASE ~(to = "Closing" /\ phase = "Draining" /\ r.at # "down")
          <5>1. t = r
            BY <3>2, <4>2
          <5>2. r.at = "wait" => r.at # "down"
            OBVIOUS
          <5> QED BY <1>7, <3>5, <3>6, <4>2, <5>1, <5>2
        <4> QED BY <4>1, <4>2
      <3>8. Served(u) /\ (u.at = "wait" /\ to = "Closing" => u.wake)
        <4>1. CASE beat
          <5>1. u = QueueOutbound(t, Heartbeat)
            BY <3>3, <4>1
          <5>2. PICK m : m = Heartbeat
            BY Zenon
          <5>3. Served(u) /\ (u.at = "wait" => t.at = "wait" /\ (t.wake => u.wake))
            BY <3>7, <5>1, <5>2, QueueOutboundServed
          <5> QED BY <3>7, <5>3
        <4>2. CASE ~beat
          BY <3>3, <3>7, <4>2
        <4> QED BY <4>1, <4>2
      <3> QED BY <1>6, <3>4, <3>8, ClosedSession
    <2> QED BY <2>2, <2>3, AllSessions
  <1> QED BY <1>8, <1>9

LEMMA SessionNext ==
    ASSUME SessionInv, phase \in Phases, Cardinality(TimedOutNow) \in Nat, [Next]_vars
    PROVE  SessionInv'
  <1>1. CASE UNCHANGED <<conns, phase>>
    BY <1>1, Zenon DEF SessionInv, Served, Sessions
  <1>2. CASE UNCHANGED vars
    BY <1>1, <1>2 DEF vars, loop
  <1>3. ASSUME NEW c \in Conns, Session(c) PROVE SessionInv'
    <2>1. CASE AddConnection(c)
      BY <2>1, OpenStep
    <2>2. CASE EndSession(c) \/ WriteMessage(c) \/ Wake(c)
      BY <2>2, OwnStep
    <2>3. ASSUME NEW cid \in Cids,
                 NewOrder(c, cid) \/ NewOrderForwarded(c, cid) \/ Cancel(c, cid)
          PROVE  SessionInv'
      <3>1. Handled(c)
        BY <2>3 DEF NewOrder, NewOrderForwarded, Cancel
      <3> QED BY <3>1, HandledStep
    <2> QED BY <1>3, <2>1, <2>2, <2>3 DEF Session
  <1>4. ASSUME NEW o \in DOMAIN risk, NEW a \in RiskAnswers, RiskAnswer(o, a) PROVE SessionInv'
    BY <1>1, <1>4 DEF RiskAnswer, loop
  <1>5. CASE RouteEvent
    <2>1. PICK m : m = Head(ring)
      BY Zenon
    <2>2. conns' = PushToUser(conns, m) /\ UNCHANGED phase
      BY <1>5, <2>1 DEF RouteEvent, loop
    <2> QED BY <2>2, PushStep
  <1>6. ASSUME NEW idle \in SUBSET Conns, Turn(idle) PROVE SessionInv'
    BY <1>6, TurnSessions
  <1>7. CASE Signal
    BY <1>1, <1>7 DEF Signal, loop
  <1>8. CASE Tick
    BY <1>1, <1>8 DEF Tick, loop
  <1> QED BY <1>2, <1>3, <1>4, <1>5, <1>6, <1>7, <1>8 DEF Next
=============================================================================
