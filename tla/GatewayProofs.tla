---------------------------- MODULE GatewayProofs ----------------------------
(***************************************************************************)
(* Theorems about the gateway, for every capacity, window, rate, clock and *)
(* number of orders, connections and client order ids.                     *)
(***************************************************************************)
EXTENDS GatewayStepProofs, GatewayOrdersProofs

(* The tables keep their promises. *)
LEMMA TablesKeep == Promises
  <1>1. PushPromise
    BY PushBook DEF PushPromise
  <1>2. RoutePromise
    BY RouteBook DEF RoutePromise
  <1>3. SweepPromise
    BY SweptBook DEF SweepPromise, SweepLeaves
  <1>4. FlightPromise
    BY InFlight DEF FlightPromise
  <1>5. BindPromise
    BY BindIds DEF BindPromise
  <1>6. ReleasePromise
    BY ReleaseIds DEF ReleasePromise
  <1>7. ExpirePromise
    BY ExpireIds DEF ExpirePromise
  <1>8. SpendPromise
    BY SpentTokens DEF SpendPromise
  <1>9. RefillPromise
    BY RefilledTokens DEF RefillPromise
  <1>10. BreakerPromise
    BY BreakerOutcomes DEF BreakerPromise
  <1>11. FindPromise
    <2> SUFFICES ASSUME NEW n \in Nat, NEW p \in Books(n), NEW cid, FindByCid(p, cid) # None
                 PROVE  FindByCid(p, cid) \in DOMAIN p.orders
      BY Zenon DEF FindPromise
    <2>1. PICK hits : hits = {o \in DOMAIN p.orders : p.orders[o].cid = cid}
      BY Zenon
    <2>2. hits # {} /\ FindByCid(p, cid) = Min(hits)
      BY <2>1, Zenon DEF FindByCid
    <2>3. hits \subseteq DOMAIN p.orders /\ DOMAIN p.orders \subseteq 1 .. n
      BY <2>1, BookShape, Zenon
    <2>4. hits \subseteq Nat
      BY <2>3
    <2>5. Min(hits) \in hits
      BY <2>2, <2>4, MinIsLeast, Zenon
    <2> QED BY <2>2, <2>3, <2>5, Zenon
  <1> QED BY <1>1, <1>2, <1>3, <1>4, <1>5, <1>6, <1>7, <1>8, <1>9, <1>10, <1>11, Zenon DEF Promises

LEMMA CoreInit == Init => CoreInv
  <1> SUFFICES ASSUME Init PROVE CoreInv
    BY Zenon
  <1>1. /\ sent = <<>> /\ risk = <<>> /\ ring = <<>> /\ answered = {} /\ failed = {}
        /\ now = 0 /\ stop = FALSE /\ phase = "Serving" /\ phaseEnds = 0 /\ lastSweep = 0
        /\ pending = NoOrders /\ ids = NoBindings /\ circuit = ClosedCircuit /\ tokens = Burst
    BY Zenon DEF Init
  <1>2. /\ DOMAIN sent = {} /\ Len(sent) = 0 /\ Len(risk) = 0 /\ DOMAIN ring = {}
        /\ sent \in Seq(Sends)
        /\ risk \in Seq({"sent", "open", "cancelling", "gone"})
        /\ ring \in Seq([kind : Kinds, oid : Nat])
    BY <1>1
  <1>3. Types
    <2>1. 0 - 0 <= SweepEvery
      BY GatewayAssumption
    <2>2. /\ now \in Nat /\ lastSweep \in Nat /\ lastSweep <= now /\ now - lastSweep <= SweepEvery
          /\ phase \in Phases /\ phaseEnds \in Nat
      BY <1>1, <2>1 DEF Phases
    <2>3. answered \subseteq DOMAIN sent /\ failed \subseteq DOMAIN sent /\ Len(risk) = Len(sent)
      BY <1>1, <1>2, Zenon
    <2>4. stop \in BOOLEAN
      BY <1>1, Zenon
    <2> QED BY <1>2, <2>2, <2>3, <2>4, Zenon DEF Types
  <1>4. BookInv
    <2>1. DOMAIN pending.orders = {}
      BY <1>1 DEF NoOrders
    <2>2. pending \in Books(0)
      <3>1. <<>> \in Tables(0)
        <4>1. <<>> \in [{} -> Order] /\ {} \in SUBSET (1 .. 0)
          OBVIOUS
        <4> QED BY <4>1, Zenon DEF Tables
      <3>2. PICK e : e = <<>>
        BY Zenon
      <3>3. NoOrders = [orders |-> e, count |-> 0, inFlight |-> 0, timedOut |-> 0]
        BY <3>2, Zenon DEF NoOrders
      <3> QED BY <1>1, <3>1, <3>2, <3>3 DEF Books
    <2>3. \A stage : InStage(pending, stage) = {}
      BY <2>1, Zenon DEF InStage
    <2>4. Counted(pending)
      <3>1. Cardinality({}) = 0
        BY FS_EmptySet, Zenon
      <3>2. pending.count = 0 /\ pending.inFlight = 0 /\ pending.timedOut = 0
        BY <1>1, Zenon DEF NoOrders
      <3>3. 0 <= Capacity
        BY OrdersAssumption
      <3> QED BY <2>1, <2>3, <3>1, <3>2, <3>3, Zenon DEF Counted
    <2> QED BY <1>2, <2>1, <2>2, <2>4, Zenon DEF BookInv, Linked
  <1>5. CircuitInv
    BY <1>1, Zenon DEF CircuitInv, ClosedCircuit, Breakers
  <1>6. RateInv
    <2>1. \A l \in Limiters : Burst[l] \in Nat
      BY OrdersAssumption, Zenon
    <2> QED BY <1>1, <1>2, <2>1, OrdersAssumption DEF RateInv, RateIsBounded
  <1>7. AnswerInv
    BY <1>1, <1>2, Zenon DEF AnswerInv, DrainAnswersAll
  <1>8. RingInv
    BY <1>2, Zenon DEF RingInv
  <1>9. LiveIsCancellable
    BY <1>2, Zenon DEF LiveIsCancellable
  <1>10. IdsInv
    <2>1. PICK e : e = <<>>
      BY Zenon
    <2>2. e \in Seq(Entries) /\ DOMAIN e = {}
      BY <2>1
    <2>3. PICK b : b = [c \in Cids |-> Unbound]
      BY Zenon
    <2>4. b \in [Cids -> Bindings] /\ \A c \in Cids : b[c] = Unbound
      BY <2>3, Zenon DEF Bindings, Unbound
    <2>5. ids = [bound |-> b, inserted |-> e]
      BY <1>1, <2>1, <2>3, Zenon DEF NoBindings
    <2>6. ids \in Ledgers /\ ids.bound = b /\ ids.inserted = e
      BY <2>2, <2>4, <2>5, Zenon DEF Ledgers
    <2> QED BY <2>2, <2>4, <2>6, Zenon DEF IdsInv, Ascending, Recorded
  <1>11. CidInv
    BY <1>1, <1>2, Zenon DEF CidInv, OneOrderPerCid, FailureFreesCid
  <1> QED BY <1>3, <1>4, <1>5, <1>6, <1>7, <1>8, <1>9, <1>10, <1>11 DEF CoreInv

LEMMA CoreAlways == Spec => []CoreInv
  BY CoreInit, CoreNext, TablesKeep, PTL DEF Spec

(* For every window, capacity and course of answers, losses and timeouts, a
   client order id stands for one order (admit_order, route_order_failed,
   ClientOrderIds::expire). *)
THEOREM OneOrderForEachCid == Spec => []CidNamesOneOrder
  <1>1. CoreInv => CidNamesOneOrder
    <2> SUFFICES ASSUME CoreInv PROVE CidNamesOneOrder
      BY Zenon
    <2>1. now \in Nat /\ Window \in Nat /\ \A o \in DOMAIN sent : sent[o].at \in Nat
      BY SentTypes, OrdersAssumption, Zenon DEF CoreInv
    <2>2. \A o \in DOMAIN sent : o \in failed \/ now - sent[o].at > Window
                                 \/ ids.bound[sent[o].cid].oid = o
      BY Zenon DEF CoreInv, CidInv, Holds
    <2>3. WindowIsKept
      BY <2>1, <2>2 DEF WindowIsKept
    <2> QED BY <2>3, Zenon DEF CoreInv, CidInv, CidNamesOneOrder
  <1> QED BY <1>1, CoreAlways, PTL

(* For every capacity, timeout and window, an order that lives at risk is
   tracked here, and so can be cancelled, for at least the window
   (time_out, drop_timed_out, complete_pending). *)
THEOREM LiveOrdersCancellable == Spec => []LiveIsCancellable
  <1>1. CoreInv => LiveIsCancellable
    BY Zenon DEF CoreInv
  <1> QED BY <1>1, CoreAlways, PTL

(* For every capacity, threshold and bucket, the counters of the pending
   orders are their counts and within the capacity, no request leaves the
   breaker half open, and the orders passed keep within the rate. *)
THEOREM SoundAdmission == Spec => []AdmissionIsSound
  <1>1. CoreInv => AdmissionIsSound
    BY Zenon DEF CoreInv, BookInv, Counted, CircuitInv, RateInv, AdmissionIsSound, CountersAgree,
           ProbeIsReturned
  <1> QED BY <1>1, CoreAlways, PTL

(* For every timeout and sweep interval, an order forwarded is answered within
   their sum, and before the gateway closes, whatever becomes of risk's answer
   (expire_stale_orders, advance_shutdown). *)
THEOREM OrdersAnswered == Spec => []EveryOrderIsAnswered
  <1>1. CoreInv => EveryOrderIsAnswered
    <2> SUFFICES ASSUME CoreInv PROVE EveryOrderIsAnswered
      BY Zenon
    <2>1. /\ now \in Nat /\ lastSweep \in Nat /\ now - lastSweep <= SweepEvery
          /\ Timeout \in Nat /\ SweepEvery \in Nat
      BY GatewayAssumption, Zenon DEF CoreInv, Types
    <2>2. \A o \in DOMAIN sent \ answered : sent[o].at \in Nat /\ lastSweep - Timeout <= sent[o].at
      BY SentTypes, Zenon DEF CoreInv, AnswerInv
    <2>3. AnsweredInTime
      BY <2>1, <2>2 DEF AnsweredInTime
    <2> QED BY <2>3, Zenon DEF CoreInv, AnswerInv, EveryOrderIsAnswered
  <1> QED BY <1>1, CoreAlways, PTL

(* For every queue bound, an open session was sent or still holds, in order,
   every message its user was due, and never waits with something to do
   (queue_outbound, EgressWaker, serve_session, advance_shutdown). *)
THEOREM ServedSessions == Spec => []SessionsAreServed
  <1>1. Init => SessionInv
    BY SessionInit, Zenon
  <1>2. CoreInv /\ SessionInv /\ [Next]_vars => SessionInv'
    <2> SUFFICES ASSUME CoreInv, SessionInv, [Next]_vars PROVE SessionInv'
      BY Zenon
    <2>1. phase \in Phases
      BY Zenon DEF CoreInv, Types
    <2>2. Cardinality(TimedOutNow) \in Nat
      <3>1. PICK n \in Nat : n = Len(sent)
        BY SentTypes, Zenon DEF CoreInv
      <3>2. PICK p \in Books(n) : p = pending
        BY <3>1, Zenon DEF CoreInv, BookInv
      <3>3. Cardinality(StaleOrders(p, now - Timeout)) \in Nat
        BY InFlight, Zenon
      <3>4. Cardinality({}) \in Nat
        BY FS_EmptySet
      <3> QED BY <3>2, <3>3, <3>4, Zenon DEF TimedOutNow
    <2> QED BY <2>1, <2>2, SessionNext, Zenon
  <1>3. SessionInv => SessionsAreServed
    BY Zenon DEF SessionInv, Served, SessionsAreServed, SessionIsComplete, NoLostWake
  <1> QED BY <1>1, <1>2, <1>3, CoreAlways, PTL DEF Spec
=============================================================================
