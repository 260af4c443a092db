------------------------ MODULE GatewayOrdersProofs -------------------------
(***************************************************************************)
(* What the operations on the gateway's pending orders, client order ids,  *)
(* token buckets and circuit breaker leave, for every capacity, window and *)
(* number of orders.                                                       *)
(***************************************************************************)
EXTENDS GatewayOrders, FiniteSetTheorems, WellFoundedInduction, TLAPS

-----------------------------------------------------------------------------
(* Numbers: the least one of a set.                                       *)

(* A non-empty set of natural numbers has a least element. *)
LEMMA LeastExists ==
    ASSUME NEW S, S \subseteq Nat, S # {}
    PROVE  \E x \in S : \A y \in S : x <= y
  <1>1. PICK x \in S : \A y \in S : ~ (<<y, x>> \in OpToRel(<, Nat))
    BY NatLessThanWellFounded, WFMin
  <1>2. ASSUME NEW y \in S PROVE x <= y
    <2>1. ~ (<<y, x>> \in OpToRel(<, Nat))
      BY <1>1
    <2>2. ~(y < x)
      BY <2>1 DEF OpToRel
    <2> QED BY <2>2
  <1> QED BY <1>2

(* Min of such a set is its least element. *)
LEMMA MinIsLeast ==
    ASSUME NEW S, S \subseteq Nat, S # {}
    PROVE  Min(S) \in S /\ \A y \in S : Min(S) <= y
  BY LeastExists, Zenon DEF Min

-----------------------------------------------------------------------------
(* Sequences.                                                              *)

LEMMA RestateElement ==
    ASSUME NEW T, NEW s \in Seq(T), NEW o \in DOMAIN s, NEW v \in T,
           NEW r, r = [s EXCEPT ![o] = v]
    PROVE  /\ r \in Seq(T) /\ Len(r) = Len(s)
           /\ r[o] = v /\ \A x \in DOMAIN s : x # o => r[x] = s[x]
  OBVIOUS

LEMMA AppendElements ==
    ASSUME NEW T, NEW s \in Seq(T), NEW e \in T, NEW r, r = Append(s, e)
    PROVE  /\ r \in Seq(T) /\ Len(s) \in Nat /\ Len(r) = Len(s) + 1
           /\ DOMAIN s = 1 .. Len(s) /\ DOMAIN r = 1 .. Len(s) + 1
           /\ \A k \in DOMAIN r : k \in DOMAIN s \/ k = Len(s) + 1
           /\ \A k \in DOMAIN s : k # Len(s) + 1 /\ k \in DOMAIN r /\ r[k] = s[k]
           /\ r[Len(s) + 1] = e
  OBVIOUS

LEMMA TailElements ==
    ASSUME NEW T, NEW s \in Seq(T), s # <<>>, NEW r, r = Tail(s)
    PROVE  /\ r \in Seq(T) /\ 1 \in DOMAIN s /\ Head(s) = s[1]
           /\ \A k \in DOMAIN r : k + 1 \in DOMAIN s /\ k + 1 # 1 /\ r[k] = s[k + 1]
  OBVIOUS

(* The elements that are left when the front of a queue is cut off. *)
LEMMA Suffix ==
    ASSUME NEW T, NEW q \in Seq(T), NEW n \in 0 .. Len(q), NEW r, r = SubSeq(q, n + 1, Len(q))
    PROVE  /\ r \in Seq(T) /\ Len(r) = Len(q) - n
           /\ \A i \in 1 .. Len(q) - n : r[i] = q[i + n]
  OBVIOUS

-----------------------------------------------------------------------------
(* The pending table: what each of its operations leaves.                  *)

(* The orders of a table are finitely many, whatever set of them is taken. *)
LEMMA TableIsFinite ==
    ASSUME NEW n \in Nat, NEW S \in SUBSET (1 .. n)
    PROVE  IsFiniteSet(S) /\ Cardinality(S) \in Nat
  <1>1. IsFiniteSet(1 .. n)
    BY FS_Interval
  <1>2. IsFiniteSet(S)
    BY <1>1, FS_Subset, Zenon
  <1> QED BY <1>2, FS_CardinalityType

LEMMA BookShape ==
    ASSUME NEW n \in Nat, NEW p \in Books(n)
    PROVE  /\ DOMAIN p.orders \in SUBSET (1 .. n)
           /\ p.orders \in [DOMAIN p.orders -> Order]
           /\ p.count \in Int /\ p.inFlight \in Int /\ p.timedOut \in Int
           /\ \A stage : InStage(p, stage) \in SUBSET (1 .. n)
  <1>1. p.orders \in Tables(n) /\ p.count \in Int /\ p.inFlight \in Int /\ p.timedOut \in Int
    BY DEF Books
  <1>2. PICK S \in SUBSET (1 .. n) : p.orders \in [S -> Order]
    BY <1>1 DEF Tables
  <1>3. DOMAIN p.orders = S
    BY <1>2
  <1> QED BY <1>1, <1>2, <1>3, Zenon DEF InStage

(* enter and leave move the counter of the stage, and nothing else. *)
LEMMA EnterFields ==
    ASSUME NEW n \in Nat, NEW p \in Books(n), NEW q, q = Enter(p, "Submitted")
    PROVE  /\ q \in Books(n) /\ q.orders = p.orders /\ q.count = p.count
           /\ q.inFlight = p.inFlight + 1 /\ q.timedOut = p.timedOut
  <1>1. q = [p EXCEPT !.inFlight = p.inFlight + 1, !.timedOut = p.timedOut]
    BY DEF Enter
  <1>2. p.inFlight + 1 \in Int /\ p.timedOut \in Int
    BY BookShape
  <1> QED BY <1>1, <1>2, Zenon DEF Books

LEMMA LeaveFields ==
    ASSUME NEW n \in Nat, NEW p \in Books(n), NEW stage, NEW q, q = Leave(p, stage)
    PROVE  /\ q \in Books(n) /\ q.orders = p.orders /\ q.count = p.count
           /\ q.inFlight = IF stage = "Submitted" THEN p.inFlight - 1 ELSE p.inFlight
           /\ q.timedOut = IF stage = "TimedOut" THEN p.timedOut - 1 ELSE p.timedOut
  <1>1. PICK b : b = IF stage = "Submitted" THEN p.inFlight - 1 ELSE p.inFlight
    BY Zenon
  <1>2. PICK c : c = IF stage = "TimedOut" THEN p.timedOut - 1 ELSE p.timedOut
    BY Zenon
  <1>3. p.inFlight \in Int /\ p.timedOut \in Int
    BY BookShape
  <1>4. b \in Int /\ c \in Int
    BY <1>1, <1>2, <1>3
  <1>5. q = [p EXCEPT !.inFlight = b, !.timedOut = c]
    BY <1>1, <1>2 DEF Leave
  <1> QED BY <1>1, <1>2, <1>4, <1>5, Zenon DEF Books

(* push of an order in flight, when the table is not full. *)
LEMMA PushBook ==
    ASSUME NEW n \in Nat, NEW p \in Books(n), Counted(p), ~IsFull(p),
           NEW cid \in Cids, NEW at \in Nat,
           NEW q, q = Push(p, n + 1, [cid |-> cid, at |-> at, stage |-> "Submitted"])
    PROVE  /\ q \in Books(n + 1) /\ Counted(q)
           /\ DOMAIN q.orders = DOMAIN p.orders \cup {n + 1}
           /\ q.orders[n + 1] = [cid |-> cid, at |-> at, stage |-> "Submitted"]
           /\ \A o \in DOMAIN p.orders : q.orders[o] = p.orders[o]
  <1> DEFINE D == DOMAIN p.orders
             new == [cid |-> cid, at |-> at, stage |-> "Submitted"]
             t == [o \in D \cup {n + 1} |-> IF o = n + 1 THEN new ELSE p.orders[o]]
  <1>1. /\ D \in SUBSET (1 .. n) /\ p.orders \in [D -> Order]
        /\ p.count \in Int /\ p.inFlight \in Int /\ p.timedOut \in Int
        /\ \A stage : InStage(p, stage) \in SUBSET (1 .. n)
    BY BookShape
  <1>2. new \in Order
    BY DEF Order
  <1>3. n + 1 \notin D /\ D \cup {n + 1} \in SUBSET (1 .. n + 1)
    BY <1>1
  <1>4. t \in [D \cup {n + 1} -> Order]
    BY <1>1, <1>2
  <1>5. /\ q \in Books(n + 1) /\ q.orders = t /\ q.count = p.count + 1
        /\ q.inFlight = p.inFlight + 1 /\ q.timedOut = p.timedOut
    <2>1. PICK r : r = Enter(p, "Submitted")
      BY Zenon
    <2>2. /\ r \in Books(n) /\ r.orders = p.orders /\ r.count = p.count
          /\ r.inFlight = p.inFlight + 1 /\ r.timedOut = p.timedOut
      BY <2>1, EnterFields
    <2>3. q = [r EXCEPT !.orders = t, !.count = r.count + 1]
      BY <2>1, <2>2, Zenon DEF Push
    <2>4. r.count + 1 \in Int /\ n + 1 \in Nat
      BY <2>2, BookShape
    <2>5. t \in Tables(n + 1)
      BY <1>3, <1>4, Zenon DEF Tables
    <2>6. PICK a \in Int, u \in Tables(n + 1) : a = r.count + 1 /\ u = t
      BY <2>4, <2>5
    <2>7. q = [r EXCEPT !.orders = u, !.count = a]
      BY <2>3, <2>6
    <2>8. /\ q \in Books(n + 1) /\ q.orders = u /\ q.count = a
          /\ q.inFlight = r.inFlight /\ q.timedOut = r.timedOut
      BY <2>2, <2>7, Zenon DEF Books
    <2> QED BY <2>2, <2>6, <2>8
  <1>8. /\ DOMAIN q.orders = D \cup {n + 1} /\ q.orders[n + 1] = new
        /\ \A o \in D : q.orders[o] = p.orders[o]
    BY <1>3, <1>5
  <1>9. InStage(q, "Submitted") = InStage(p, "Submitted") \cup {n + 1}
    BY <1>3, <1>8 DEF InStage
  <1>10. InStage(q, "TimedOut") = InStage(p, "TimedOut")
    BY <1>3, <1>8 DEF InStage
  <1>11. Cardinality(D \cup {n + 1}) = Cardinality(D) + 1
    BY <1>1, <1>3, TableIsFinite, FS_AddElement, Zenon
  <1>12. n + 1 \notin InStage(p, "Submitted")
    BY <1>3 DEF InStage
  <1>13. Cardinality(InStage(p, "Submitted") \cup {n + 1}) = Cardinality(InStage(p, "Submitted")) + 1
    BY <1>1, <1>12, TableIsFinite, FS_AddElement, Zenon
  <1>14. q.inFlight <= Capacity
    BY <1>1, <1>5, OrdersAssumption DEF IsFull
  <1>15. Counted(q)
    BY <1>1, <1>5, <1>8, <1>9, <1>10, <1>11, <1>13, <1>14, Zenon DEF Counted
  <1> QED BY <1>5, <1>8, <1>15

(* An order leaves a stage, or the table. *)
LEMMA LeavesStage ==
    ASSUME NEW n \in Nat, NEW p \in Books(n), Counted(p), NEW oid \in DOMAIN p.orders,
           NEW stage \in {"Submitted", "TimedOut"}
    PROVE  Cardinality(InStage(p, stage) \ {oid})
             = IF p.orders[oid].stage = stage THEN Cardinality(InStage(p, stage)) - 1
               ELSE Cardinality(InStage(p, stage))
  <1>1. IsFiniteSet(InStage(p, stage)) /\ Cardinality(InStage(p, stage)) \in Nat
    BY BookShape, TableIsFinite, Zenon
  <1>2. CASE p.orders[oid].stage = stage
    <2>1. oid \in InStage(p, stage)
      BY <1>2 DEF InStage
    <2> QED BY <1>1, <1>2, <2>1, FS_RemoveElement, Zenon
  <1>3. CASE p.orders[oid].stage # stage
    <2>1. InStage(p, stage) \ {oid} = InStage(p, stage)
      BY <1>3 DEF InStage
    <2> QED BY <1>1, <1>3, <2>1
  <1> QED BY <1>2, <1>3

(* remove: the order is gone, the others are as they were. *)
LEMMA RemoveBook ==
    ASSUME NEW n \in Nat, NEW p \in Books(n), Counted(p), NEW oid,
           NEW q, q = RemoveOrder(p, oid)
    PROVE  /\ q \in Books(n) /\ Counted(q)
           /\ DOMAIN q.orders = DOMAIN p.orders \ {oid}
           /\ \A o \in DOMAIN q.orders : q.orders[o] = p.orders[o]
  <1>1. CASE oid \notin DOMAIN p.orders
    BY <1>1 DEF RemoveOrder, Tracked
  <1>2. CASE oid \in DOMAIN p.orders
    <2> DEFINE D == DOMAIN p.orders
               t == [o \in D \ {oid} |-> p.orders[o]]
    <2>1. /\ D \in SUBSET (1 .. n) /\ p.orders \in [D -> Order]
          /\ p.count \in Int /\ p.inFlight \in Int /\ p.timedOut \in Int
      BY BookShape
    <2>2. D \ {oid} \in SUBSET (1 .. n) /\ t \in [D \ {oid} -> Order]
      BY <2>1
    <2>3. PICK r : r = Leave(p, p.orders[oid].stage)
      BY Zenon
    <2>4. /\ r \in Books(n) /\ r.orders = p.orders /\ r.count = p.count
          /\ r.inFlight = IF p.orders[oid].stage = "Submitted" THEN p.inFlight - 1 ELSE p.inFlight
          /\ r.timedOut = IF p.orders[oid].stage = "TimedOut" THEN p.timedOut - 1 ELSE p.timedOut
      BY <2>3, LeaveFields
    <2>5. q = [r EXCEPT !.orders = t, !.count = r.count - 1]
      BY <1>2, <2>3, <2>4 DEF RemoveOrder, Tracked, Restrict
    <2>6. /\ q \in Books(n) /\ q.orders = t /\ q.count = p.count - 1
          /\ q.inFlight = r.inFlight /\ q.timedOut = r.timedOut
      <3>1. r.count - 1 \in Int
        BY <2>4, BookShape
      <3>2. t \in Tables(n)
        BY <2>2, Zenon DEF Tables
      <3>3. PICK a \in Int, u \in Tables(n) : a = r.count - 1 /\ u = t
        BY <3>1, <3>2
      <3>4. q = [r EXCEPT !.orders = u, !.count = a]
        BY <2>5, <3>3
      <3>5. /\ q \in Books(n) /\ q.orders = u /\ q.count = a
            /\ q.inFlight = r.inFlight /\ q.timedOut = r.timedOut
        BY <2>4, <3>4, Zenon DEF Books
      <3> QED BY <2>4, <3>3, <3>5
    <2>7. /\ DOMAIN q.orders = D \ {oid} /\ \A o \in D \ {oid} : q.orders[o] = p.orders[o]
      BY <2>6
    <2>8. \A stage : InStage(q, stage) = InStage(p, stage) \ {oid}
      BY <2>7 DEF InStage
    <2>9. Cardinality(D \ {oid}) = Cardinality(D) - 1
      BY <1>2, <2>1, TableIsFinite, FS_RemoveElement, Zenon
    <2>10. /\ q.inFlight = Cardinality(InStage(q, "Submitted"))
           /\ q.timedOut = Cardinality(InStage(q, "TimedOut"))
      <3>1. /\ Cardinality(InStage(p, "Submitted") \ {oid})
                 = IF p.orders[oid].stage = "Submitted"
                   THEN Cardinality(InStage(p, "Submitted")) - 1
                   ELSE Cardinality(InStage(p, "Submitted"))
            /\ Cardinality(InStage(p, "TimedOut") \ {oid})
                 = IF p.orders[oid].stage = "TimedOut"
                   THEN Cardinality(InStage(p, "TimedOut")) - 1
                   ELSE Cardinality(InStage(p, "TimedOut"))
        BY <1>2, LeavesStage
      <3> QED BY <2>4, <2>6, <2>8, <3>1 DEF Counted
    <2>11. q.inFlight <= Capacity
      BY <2>1, <2>4, <2>6, OrdersAssumption DEF Counted
    <2>12. Counted(q)
      BY <2>6, <2>7, <2>9, <2>10, <2>11 DEF Counted
    <2> QED BY <2>6, <2>7, <2>12
  <1> QED BY <1>1, <1>2

(* Restaging keeps the orders, and what is not their stage. *)
LEMMA Restaged ==
    ASSUME NEW D, NEW f \in [D -> Order], NEW which, NEW stage,
           stage = "Resting" \/ stage = "TimedOut",
           NEW t, t = WithStage(f, which, stage)
    PROVE  /\ t \in [D -> Order]
           /\ \A o \in D :
                /\ t[o].cid = f[o].cid /\ t[o].at = f[o].at
                /\ o \in which => t[o].stage = stage
                /\ o \notin which => t[o].stage = f[o].stage
  <1>1. ASSUME NEW o \in D
        PROVE /\ t[o] \in Order
              /\ t[o].cid = f[o].cid /\ t[o].at = f[o].at
              /\ o \in which => t[o].stage = stage
              /\ o \notin which => t[o].stage = f[o].stage
    <2>1. f[o] \in Order
      OBVIOUS
    <2>2. t[o] = IF o \in which THEN [f[o] EXCEPT !.stage = stage] ELSE f[o]
      BY DEF WithStage
    <2> QED BY <2>1, <2>2 DEF Order
  <1>2. t = [o \in D |-> t[o]]
    BY DEF WithStage
  <1> QED BY <1>1, <1>2

(* mark_resting: the order rests, and nothing else changes. *)
LEMMA RestBook ==
    ASSUME NEW n \in Nat, NEW p \in Books(n), Counted(p), NEW oid,
           NEW q, q = MarkResting(p, oid)
    PROVE  /\ q \in Books(n) /\ Counted(q)
           /\ DOMAIN q.orders = DOMAIN p.orders
           /\ \A o \in DOMAIN p.orders :
                q.orders[o].cid = p.orders[o].cid /\ q.orders[o].at = p.orders[o].at
           /\ \A o \in DOMAIN p.orders :
                q.orders[o].stage = IF o = oid THEN "Resting" ELSE p.orders[o].stage
  <1>1. CASE oid \notin DOMAIN p.orders
    BY <1>1 DEF MarkResting, Tracked
  <1>2. CASE oid \in DOMAIN p.orders
    <2>1. /\ DOMAIN p.orders \in SUBSET (1 .. n) /\ p.orders \in [DOMAIN p.orders -> Order]
          /\ p.count \in Int /\ p.inFlight \in Int /\ p.timedOut \in Int
      BY BookShape
    <2>2. PICK t : t = WithStage(p.orders, {oid}, "Resting")
      BY Zenon
    <2>3. /\ t \in [DOMAIN p.orders -> Order]
          /\ \A o \in DOMAIN p.orders :
               /\ t[o].cid = p.orders[o].cid /\ t[o].at = p.orders[o].at
               /\ o \in {oid} => t[o].stage = "Resting"
               /\ o \notin {oid} => t[o].stage = p.orders[o].stage
      BY <2>1, <2>2, Restaged
    <2>4. t \in Tables(n)
      BY <2>1, <2>3 DEF Tables
    <2>5. PICK r : r = Leave(p, p.orders[oid].stage)
      BY Zenon
    <2>6. /\ r \in Books(n) /\ r.orders = p.orders /\ r.count = p.count
          /\ r.inFlight = IF p.orders[oid].stage = "Submitted" THEN p.inFlight - 1 ELSE p.inFlight
          /\ r.timedOut = IF p.orders[oid].stage = "TimedOut" THEN p.timedOut - 1 ELSE p.timedOut
      BY <2>5, LeaveFields
    <2>7. q = [r EXCEPT !.orders = t]
      BY <1>2, <2>2, <2>5, <2>6 DEF MarkResting, Tracked
    <2>8. /\ q \in Books(n) /\ q.orders = t /\ q.count = p.count
          /\ q.inFlight = r.inFlight /\ q.timedOut = r.timedOut
      BY <2>4, <2>6, <2>7 DEF Books
    <2>9. /\ DOMAIN q.orders = DOMAIN p.orders
          /\ \A o \in DOMAIN p.orders :
               /\ q.orders[o].cid = p.orders[o].cid /\ q.orders[o].at = p.orders[o].at
               /\ q.orders[o].stage = IF o = oid THEN "Resting" ELSE p.orders[o].stage
      BY <2>2, <2>3, <2>8, Zenon
    <2>10. /\ InStage(q, "Submitted") = InStage(p, "Submitted") \ {oid}
           /\ InStage(q, "TimedOut") = InStage(p, "TimedOut") \ {oid}
      BY <2>9 DEF InStage
    <2>11. /\ q.inFlight = Cardinality(InStage(q, "Submitted"))
           /\ q.timedOut = Cardinality(InStage(q, "TimedOut"))
      <3>1. /\ Cardinality(InStage(p, "Submitted") \ {oid})
                 = IF p.orders[oid].stage = "Submitted"
                   THEN Cardinality(InStage(p, "Submitted")) - 1
                   ELSE Cardinality(InStage(p, "Submitted"))
            /\ Cardinality(InStage(p, "TimedOut") \ {oid})
                 = IF p.orders[oid].stage = "TimedOut"
                   THEN Cardinality(InStage(p, "TimedOut")) - 1
                   ELSE Cardinality(InStage(p, "TimedOut"))
        BY <1>2, LeavesStage
      <3> QED BY <2>6, <2>8, <2>10, <3>1 DEF Counted
    <2>12. q.inFlight <= Capacity
      BY <2>1, <2>6, <2>8, OrdersAssumption DEF Counted
    <2>13. Counted(q)
      BY <2>8, <2>9, <2>11, <2>12 DEF Counted
    <2> QED BY <2>8, <2>9, <2>13
  <1> QED BY <1>1, <1>2

(* Of a set of orders, the rest and a part are as many as the whole. *)
LEMMA PartOf ==
    ASSUME NEW n \in Nat, NEW S \in SUBSET (1 .. n), NEW part \in SUBSET S
    PROVE  /\ Cardinality(S) \in Nat /\ Cardinality(part) \in Nat
           /\ Cardinality(S \ part) = Cardinality(S) - Cardinality(part)
           /\ Cardinality(part) <= Cardinality(S)
  <1>1. part \in SUBSET (1 .. n)
    OBVIOUS
  <1>2. /\ IsFiniteSet(S) /\ Cardinality(S) \in Nat
        /\ IsFiniteSet(part) /\ Cardinality(part) \in Nat
    BY <1>1, TableIsFinite
  <1>3. S \cap part = part
    BY Zenon
  <1>4. Cardinality(S \ part) = Cardinality(S) - Cardinality(S \cap part)
    BY <1>2, FS_Difference, Zenon
  <1>5. Cardinality(part) <= Cardinality(S)
    BY <1>2, FS_Subset, Zenon
  <1> QED BY <1>2, <1>3, <1>4, <1>5

LEMMA JoinOf ==
    ASSUME NEW n \in Nat, NEW S \in SUBSET (1 .. n), NEW T \in SUBSET (1 .. n), S \cap T = {}
    PROVE  Cardinality(S \cup T) = Cardinality(S) + Cardinality(T)
  <1>1. /\ IsFiniteSet(S) /\ Cardinality(S) \in Nat
        /\ IsFiniteSet(T) /\ Cardinality(T) \in Nat
    BY TableIsFinite, Zenon
  <1>2. Cardinality(S \cup T) = Cardinality(S) + Cardinality(T) - Cardinality(S \cap T)
    BY <1>1, FS_Union
  <1>3. Cardinality(S \cap T) = 0
    BY FS_EmptySet, Zenon
  <1> QED BY <1>1, <1>2, <1>3

(* time_out: the stale orders are timed out, and the counters moved by as many. *)
LEMMA TimeOutBook ==
    ASSUME NEW n \in Nat, NEW p \in Books(n), Counted(p), NEW cutoff \in Int,
           NEW stale, stale = StaleOrders(p, cutoff), NEW q, q = TimeOut(p, cutoff)
    PROVE  /\ q \in Books(n) /\ Counted(q)
           /\ DOMAIN q.orders = DOMAIN p.orders
           /\ \A o \in DOMAIN p.orders :
                q.orders[o].cid = p.orders[o].cid /\ q.orders[o].at = p.orders[o].at
           /\ \A o \in DOMAIN p.orders :
                q.orders[o].stage = IF o \in stale THEN "TimedOut" ELSE p.orders[o].stage
  <1>1. /\ DOMAIN p.orders \in SUBSET (1 .. n) /\ p.orders \in [DOMAIN p.orders -> Order]
        /\ p.count \in Int /\ p.inFlight \in Int /\ p.timedOut \in Int
        /\ InStage(p, "Submitted") \in SUBSET (1 .. n) /\ InStage(p, "TimedOut") \in SUBSET (1 .. n)
    BY BookShape
  <1>2. /\ stale \in SUBSET InStage(p, "Submitted") /\ stale \in SUBSET DOMAIN p.orders
        /\ stale \in SUBSET (1 .. n)
    BY <1>1 DEF StaleOrders, InStage
  <1>3. PICK k \in Nat : k = Cardinality(stale)
    BY <1>2, TableIsFinite, Zenon
  <1>4. PICK t : t = WithStage(p.orders, stale, "TimedOut")
    BY Zenon
  <1>5. /\ t \in [DOMAIN p.orders -> Order]
        /\ \A o \in DOMAIN p.orders :
             /\ t[o].cid = p.orders[o].cid /\ t[o].at = p.orders[o].at
             /\ o \in stale => t[o].stage = "TimedOut"
             /\ o \notin stale => t[o].stage = p.orders[o].stage
    BY <1>1, <1>4, Restaged
  <1>6. t \in Tables(n)
    BY <1>1, <1>5 DEF Tables
  <1>7. PICK a \in Int, b \in Int : a = p.inFlight - k /\ b = p.timedOut + k
    BY <1>1
  <1>8. q = [p EXCEPT !.orders = t, !.inFlight = a, !.timedOut = b]
    BY <1>3, <1>4, <1>7 DEF TimeOut
  <1>9. /\ q \in Books(n) /\ q.orders = t /\ q.count = p.count
        /\ q.inFlight = a /\ q.timedOut = b
    BY <1>6, <1>8, Zenon DEF Books
  <1>10. /\ DOMAIN q.orders = DOMAIN p.orders
         /\ \A o \in DOMAIN p.orders :
              /\ q.orders[o].cid = p.orders[o].cid /\ q.orders[o].at = p.orders[o].at
              /\ q.orders[o].stage = IF o \in stale THEN "TimedOut" ELSE p.orders[o].stage
    BY <1>4, <1>5, <1>9
  <1>11. InStage(q, "Submitted") = InStage(p, "Submitted") \ stale
    BY <1>10 DEF InStage
  <1>12. InStage(q, "TimedOut") = InStage(p, "TimedOut") \cup stale
    BY <1>2, <1>10 DEF InStage
  <1>13. InStage(p, "TimedOut") \cap stale = {}
    BY <1>2 DEF InStage
  <1>14. q.inFlight = Cardinality(InStage(q, "Submitted"))
    <2>1. Cardinality(InStage(p, "Submitted") \ stale) = Cardinality(InStage(p, "Submitted")) - k
      <3>1. PICK S \in SUBSET (1 .. n) : S = InStage(p, "Submitted")
        BY <1>1, Zenon
      <3>2. Cardinality(S \ stale) = Cardinality(S) - Cardinality(stale)
        <4>1. stale \in SUBSET S
          BY <1>2, <3>1, Zenon
        <4> QED BY <4>1, PartOf, Zenon
      <3> QED BY <1>3, <3>1, <3>2, Zenon
    <2> QED BY <1>7, <1>9, <1>11, <2>1 DEF Counted
  <1>15. q.timedOut = Cardinality(InStage(q, "TimedOut"))
    <2>1. Cardinality(InStage(p, "TimedOut") \cup stale) = Cardinality(InStage(p, "TimedOut")) + k
      <3>1. PICK S \in SUBSET (1 .. n) : S = InStage(p, "TimedOut")
        BY <1>1, Zenon
      <3>2. Cardinality(S \cup stale) = Cardinality(S) + Cardinality(stale)
        <4>1. stale \in SUBSET (1 .. n) /\ S \cap stale = {}
          BY <1>2, <1>13, <3>1, Zenon
        <4> QED BY <4>1, JoinOf, Zenon
      <3> QED BY <1>3, <3>1, <3>2, Zenon
    <2> QED BY <1>7, <1>9, <1>12, <2>1, Zenon DEF Counted
  <1>16. q.inFlight <= Capacity
    BY <1>1, <1>7, <1>9, OrdersAssumption DEF Counted
  <1>17. Counted(q)
    BY <1>9, <1>10, <1>14, <1>15, <1>16 DEF Counted
  <1> QED BY <1>9, <1>10, <1>17

(* drop_timed_out: the aged ones are gone, the others are as they were. *)
LEMMA DropBook ==
    ASSUME NEW n \in Nat, NEW p \in Books(n), Counted(p), NEW cutoff \in Int,
           NEW q, q = DropTimedOut(p, cutoff)
    PROVE  /\ q \in Books(n) /\ Counted(q)
           /\ \A o \in DOMAIN p.orders :
                \/ o \in DOMAIN q.orders
                \/ p.orders[o].stage = "TimedOut" /\ p.orders[o].at < cutoff
           /\ DOMAIN q.orders \subseteq DOMAIN p.orders
           /\ \A o \in DOMAIN q.orders : q.orders[o] = p.orders[o]
  <1> DEFINE D == DOMAIN p.orders
  <1>1. /\ D \in SUBSET (1 .. n) /\ p.orders \in [D -> Order]
        /\ p.count \in Int /\ p.inFlight \in Int /\ p.timedOut \in Int
        /\ InStage(p, "TimedOut") \in SUBSET (1 .. n)
    BY BookShape
  <1>2. PICK dropped : dropped = {o \in InStage(p, "TimedOut") : p.orders[o].at < cutoff}
    BY Zenon
  <1>3. /\ dropped \in SUBSET InStage(p, "TimedOut") /\ dropped \in SUBSET D
        /\ dropped \in SUBSET (1 .. n)
    BY <1>1, <1>2 DEF InStage
  <1>4. PICK k \in Nat : k = Cardinality(dropped)
    BY <1>3, TableIsFinite
  <1>5. PICK t : t = [o \in D \ dropped |-> p.orders[o]]
    BY Zenon
  <1>6. t \in Tables(n)
    <2>1. D \ dropped \in SUBSET (1 .. n) /\ t \in [D \ dropped -> Order]
      BY <1>1, <1>5
    <2> QED BY <2>1 DEF Tables
  <1>7. PICK a \in Int, b \in Int : a = p.count - k /\ b = p.timedOut - k
    BY <1>1
  <1>8. q = [p EXCEPT !.orders = t, !.count = a, !.timedOut = b]
    BY <1>2, <1>4, <1>5, <1>7 DEF DropTimedOut, Restrict
  <1>9. /\ q \in Books(n) /\ q.orders = t /\ q.count = a
        /\ q.inFlight = p.inFlight /\ q.timedOut = b
    BY <1>6, <1>8, Zenon DEF Books
  <1>10. DOMAIN q.orders = D \ dropped /\ \A o \in D \ dropped : q.orders[o] = p.orders[o]
    BY <1>5, <1>9
  <1>11. InStage(q, "Submitted") = InStage(p, "Submitted")
    BY <1>3, <1>10 DEF InStage
  <1>12. InStage(q, "TimedOut") = InStage(p, "TimedOut") \ dropped
    BY <1>10 DEF InStage
  <1>13. q.timedOut = Cardinality(InStage(q, "TimedOut"))
    <2>1. Cardinality(InStage(p, "TimedOut") \ dropped) = Cardinality(InStage(p, "TimedOut")) - k
      <3>1. PICK S \in SUBSET (1 .. n) : S = InStage(p, "TimedOut")
        BY <1>1, Zenon
      <3>2. Cardinality(S \ dropped) = Cardinality(S) - Cardinality(dropped)
        <4>1. dropped \in SUBSET S
          BY <1>3, <3>1, Zenon
        <4> QED BY <4>1, PartOf, Zenon
      <3> QED BY <1>4, <3>1, <3>2, Zenon
    <2> QED BY <1>7, <1>9, <1>12, <2>1 DEF Counted
  <1>14. q.count = Cardinality(DOMAIN q.orders)
    <2>1. Cardinality(D \ dropped) = Cardinality(D) - k
      BY <1>1, <1>3, <1>4, PartOf, Zenon
    <2> QED BY <1>7, <1>9, <1>10, <2>1 DEF Counted
  <1>15. Counted(q)
    BY <1>9, <1>11, <1>13, <1>14 DEF Counted
  <1>16. \A o \in D : o \in dropped => p.orders[o].stage = "TimedOut" /\ p.orders[o].at < cutoff
    BY <1>2 DEF InStage
  <1> QED BY <1>9, <1>10, <1>15, <1>16

(* What routing an event leaves of the pending table: only its order may go
   or change its stage, and a fill leaves the table alone. *)
LEMMA RouteBook ==
    ASSUME NEW n \in Nat, NEW p \in Books(n), Counted(p), NEW e, NEW q,
           \/ e.kind = "inserted" /\ q = MarkResting(p, e.oid)
           \/ e.kind \in {"done", "failed"} /\ q = RemoveOrder(p, e.oid)
           \/ e.kind = "fill" /\ q = p
    PROVE  /\ q \in Books(n) /\ Counted(q)
           /\ DOMAIN q.orders \subseteq DOMAIN p.orders
           /\ \A o \in DOMAIN q.orders :
                q.orders[o].cid = p.orders[o].cid /\ q.orders[o].at = p.orders[o].at
           /\ \A o \in DOMAIN p.orders :
                o \in DOMAIN q.orders \/ (o = e.oid /\ e.kind \in {"done", "failed"})
           /\ \A o \in DOMAIN q.orders :
                q.orders[o].stage = p.orders[o].stage \/ (o = e.oid /\ e.kind # "fill")
  <1>1. CASE e.kind = "inserted" /\ q = MarkResting(p, e.oid)
    BY <1>1, RestBook
  <1>2. CASE e.kind \in {"done", "failed"} /\ q = RemoveOrder(p, e.oid)
    BY <1>2, RemoveBook
  <1>3. CASE e.kind = "fill" /\ q = p
    BY <1>3
  <1> QED BY <1>1, <1>2, <1>3

(* The sweep: the orders in flight since before a time out, and the timed-out
   ones sent before b are dropped; nothing else changes. *)
LEMMA SweptBook ==
    ASSUME NEW n \in Nat, NEW p \in Books(n), Counted(p), NEW a \in Int, NEW b \in Int,
           NEW stale, stale = StaleOrders(p, a), NEW m, m = TimeOut(p, a),
           NEW q, q = DropTimedOut(m, b)
    PROVE  /\ q \in Books(n) /\ Counted(q)
           /\ DOMAIN q.orders \subseteq DOMAIN p.orders
           /\ \A o \in DOMAIN q.orders :
                q.orders[o].cid = p.orders[o].cid /\ q.orders[o].at = p.orders[o].at
           /\ \A o \in DOMAIN p.orders : o \in DOMAIN q.orders \/ p.orders[o].at < b
           /\ \A o \in DOMAIN p.orders : p.orders[o].stage = "Submitted" /\ o \notin stale
                => o \in DOMAIN q.orders /\ q.orders[o].stage = "Submitted"
  <1>1. /\ m \in Books(n) /\ Counted(m)
        /\ DOMAIN m.orders = DOMAIN p.orders
        /\ \A o \in DOMAIN p.orders :
             m.orders[o].cid = p.orders[o].cid /\ m.orders[o].at = p.orders[o].at
        /\ \A o \in DOMAIN p.orders :
             m.orders[o].stage = IF o \in stale THEN "TimedOut" ELSE p.orders[o].stage
    BY TimeOutBook
  <1>2. /\ q \in Books(n) /\ Counted(q)
        /\ \A o \in DOMAIN m.orders :
             \/ o \in DOMAIN q.orders
             \/ m.orders[o].stage = "TimedOut" /\ m.orders[o].at < b
        /\ DOMAIN q.orders \subseteq DOMAIN m.orders
        /\ \A o \in DOMAIN q.orders : q.orders[o] = m.orders[o]
    BY <1>1, DropBook
  <1> QED BY <1>1, <1>2

(* The orders that time out are finitely many; and with a counter of zero
   there is no order in flight. *)
LEMMA InFlight ==
    ASSUME NEW n \in Nat, NEW p \in Books(n)
    PROVE  /\ \A cutoff : Cardinality(StaleOrders(p, cutoff)) \in Nat
           /\ Counted(p) /\ p.inFlight = 0 => InStage(p, "Submitted") = {}
  <1>1. PICK S \in SUBSET (1 .. n) : S = InStage(p, "Submitted")
    BY BookShape
  <1>2. ASSUME NEW cutoff PROVE Cardinality(StaleOrders(p, cutoff)) \in Nat
    <2>1. StaleOrders(p, cutoff) \in SUBSET (1 .. n)
      BY <1>1 DEF StaleOrders
    <2> QED BY <2>1, TableIsFinite, Zenon
  <1>3. ASSUME Counted(p), p.inFlight = 0 PROVE S = {}
    <2>1. IsFiniteSet(S) /\ Cardinality(S) = 0
      BY <1>1, <1>3, TableIsFinite, Zenon DEF Counted
    <2> QED BY <2>1, FS_EmptySet
  <1> QED BY <1>1, <1>2, <1>3

-----------------------------------------------------------------------------
(* The client order ids: what bind, release and expire leave.              *)

(* bind: the cid is bound, with an entry at the end of the queue. *)
LEMMA BindIds ==
    ASSUME NEW d \in Ledgers, Ascending(d.inserted), Recorded(d), NEW t \in Nat,
           \A i \in DOMAIN d.inserted : d.inserted[i].at <= t,
           NEW cid \in Cids, NEW oid \in Nat, NEW e, e = Bind(d, cid, oid, t)
    PROVE  /\ e \in Ledgers /\ Ascending(e.inserted) /\ Recorded(e)
           /\ \A i \in DOMAIN e.inserted : e.inserted[i].at <= t
           /\ e.bound[cid].oid = oid /\ e.bound[cid].at = t
           /\ \A c \in Cids : c # cid => e.bound[c] = d.bound[c]
  <1>1. PICK q, entry : q = d.inserted /\ entry = [at |-> t, cid |-> cid]
    BY Zenon
  <1>2. q \in Seq(Entries) /\ d.bound \in [Cids -> Bindings]
    BY <1>1 DEF Ledgers
  <1>3. entry \in Entries /\ entry.at = t /\ entry.cid = cid
    BY <1>1 DEF Entries
  <1>4. PICK r : r = Append(q, entry)
    BY Zenon
  <1>5. PICK n \in Nat : n = Len(q)
    BY <1>2
  <1>6. /\ r \in Seq(Entries)
        /\ \A k \in DOMAIN r : k \in DOMAIN q \/ k = n + 1
        /\ \A k \in DOMAIN q : k \in DOMAIN r /\ r[k] = q[k] /\ k \in Nat /\ k <= n
        /\ r[n + 1] = entry /\ n + 1 \in DOMAIN r
    BY <1>2, <1>3, <1>4, <1>5, AppendElements
  <1>7. PICK b : b = [d.bound EXCEPT ![cid] = [oid |-> oid, at |-> t]]
    BY Zenon
  <1>8. /\ b \in [Cids -> Bindings] /\ b[cid].oid = oid /\ b[cid].at = t
        /\ \A c \in Cids : c # cid => b[c] = d.bound[c]
    BY <1>2, <1>7 DEF Bindings
  <1>9. e = [d EXCEPT !.bound = b, !.inserted = r]
    BY <1>1, <1>4, <1>7 DEF Bind
  <1>10. e \in Ledgers /\ e.bound = b /\ e.inserted = r
    BY <1>6, <1>8, <1>9, Zenon DEF Ledgers
  <1>11. \A k \in DOMAIN q : q[k].at \in Nat /\ q[k].at <= t
    <2>1. \A k \in DOMAIN q : q[k] \in Entries
      BY <1>2
    <2> QED BY <1>1, <2>1 DEF Entries
  <1>12. \A k \in DOMAIN r : r[k].at <= t
    BY <1>3, <1>6, <1>11
  <1>13. Ascending(r)
    <2> SUFFICES ASSUME NEW i \in DOMAIN r, NEW j \in DOMAIN r, i <= j
                 PROVE  r[i].at <= r[j].at
      BY DEF Ascending
    <2>1. CASE j = n + 1
      BY <1>3, <1>6, <1>12, <2>1
    <2>2. CASE j \in DOMAIN q
      <3>1. i \in DOMAIN q
        BY <1>6, <2>2
      <3> QED BY <1>1, <1>6, <2>2, <3>1 DEF Ascending
    <2> QED BY <1>6, <2>1, <2>2
  <1>14. Recorded(e)
    <2> SUFFICES ASSUME NEW c \in Cids, b[c] # Unbound
                 PROVE  \E i \in DOMAIN r : r[i].at = b[c].at /\ r[i].cid = c
      BY <1>10 DEF Recorded
    <2>1. CASE c = cid
      BY <1>3, <1>6, <1>8, <2>1
    <2>2. CASE c # cid
      <3>1. PICK i \in DOMAIN q : q[i].at = d.bound[c].at /\ q[i].cid = c
        BY <1>1, <1>8, <2>2 DEF Recorded
      <3> QED BY <1>6, <1>8, <2>2, <3>1
    <2> QED BY <2>1, <2>2
  <1> QED BY <1>8, <1>10, <1>12, <1>13, <1>14

(* release unbinds the cid if it is bound by that order. *)
LEMMA ReleaseIds ==
    ASSUME NEW d \in Ledgers, Recorded(d), NEW cid \in Cids, NEW oid \in Nat \ {0},
           NEW e, e = Release(d, cid, oid)
    PROVE  /\ e \in Ledgers /\ e.inserted = d.inserted /\ Recorded(e)
           /\ e.bound[cid].oid # oid
           /\ \A x \in Cids : \/ e.bound[x] = d.bound[x]
                              \/ e.bound[x] = Unbound /\ x = cid /\ d.bound[x].oid = oid
  <1>1. d.bound \in [Cids -> Bindings] /\ d.inserted \in Seq(Entries)
    BY DEF Ledgers
  <1>2. Unbound \in Bindings /\ Unbound.oid = 0
    BY DEF Unbound, Bindings
  <1>3. CASE d.bound[cid].oid # oid
    BY <1>3 DEF Release
  <1>4. CASE d.bound[cid].oid = oid
    <2>1. PICK b : b = [d.bound EXCEPT ![cid] = Unbound]
      BY Zenon
    <2>2. /\ b \in [Cids -> Bindings] /\ b[cid] = Unbound
          /\ \A x \in Cids : x # cid => b[x] = d.bound[x]
      BY <1>1, <1>2, <2>1
    <2>3. e = [d EXCEPT !.bound = b]
      BY <1>4, <2>1 DEF Release
    <2>4. e \in Ledgers /\ e.bound = b /\ e.inserted = d.inserted
      BY <2>2, <2>3 DEF Ledgers
    <2>5. Recorded(e)
      BY <2>2, <2>4 DEF Recorded
    <2> QED BY <1>2, <1>4, <2>2, <2>4, <2>5
  <1> QED BY <1>3, <1>4

(* The entries that expire are those older than the cutoff. *)
LEMMA ExpiredAreOld ==
    ASSUME NEW q \in Seq(Entries), Ascending(q), NEW cutoff \in Int, NEW d, d.inserted = q,
           NEW n, n = Expired(d, cutoff)
    PROVE  n \in 0 .. Len(q) /\ \A i \in DOMAIN q : i <= n <=> q[i].at < cutoff
  <1> DEFINE young == {i \in DOMAIN q : q[i].at >= cutoff}
  <1>1. DOMAIN q = 1 .. Len(q) /\ Len(q) \in Nat /\ \A i \in DOMAIN q : q[i].at \in Nat
    <2>1. DOMAIN q = 1 .. Len(q) /\ Len(q) \in Nat /\ \A i \in DOMAIN q : q[i] \in Entries
      OBVIOUS
    <2> QED BY <2>1 DEF Entries
  <1>2. n = IF young = {} THEN Len(q) ELSE Min(young) - 1
    <2>1. {i \in DOMAIN d.inserted : d.inserted[i].at >= cutoff} = young
      OBVIOUS
    <2> HIDE DEF young
    <2> QED BY <2>1, Zenon DEF Expired
  <1>3. CASE young = {}
    <2>1. \A i \in DOMAIN q : ~(q[i].at >= cutoff)
      BY <1>3
    <2> QED BY <1>1, <1>2, <1>3, <2>1
  <1>4. CASE young # {}
    <2>1. young \subseteq Nat
      BY <1>1
    <2>2. Min(young) \in young /\ \A y \in young : Min(young) <= y
      <3> HIDE DEF young
      <3> QED BY <1>4, <2>1, MinIsLeast, Zenon
    <2>3. PICK m \in DOMAIN q : m = Min(young) /\ q[m].at >= cutoff
      BY <2>2, Zenon
    <2>4. n = m - 1
      BY <1>2, <1>4, <2>3
    <2>5. ASSUME NEW i \in DOMAIN q PROVE i <= n <=> q[i].at < cutoff
      <3>1. CASE i < m
        <4>1. i \notin young
          <5>1. i \in young => m <= i
            BY <2>2, <2>3
          <5>2. i \in Nat /\ m \in Nat
            BY <1>1
          <5> QED BY <3>1, <5>1, <5>2
        <4> QED BY <1>1, <2>4, <3>1, <4>1
      <3>2. CASE m <= i
        <4>1. q[m].at <= q[i].at
          BY <3>2 DEF Ascending
        <4> QED BY <1>1, <2>3, <2>4, <3>2, <4>1
      <3> QED BY <1>1, <3>1, <3>2
    <2> QED BY <1>1, <2>3, <2>4, <2>5
  <1> QED BY <1>3, <1>4

(* expire unbinds the cids bound before the cutoff, and no other. *)
LEMMA ExpireIds ==
    ASSUME NEW d \in Ledgers, Ascending(d.inserted), Recorded(d), NEW t \in Nat,
           NEW e, e = Expire(d, t)
    PROVE  /\ e \in Ledgers /\ Ascending(e.inserted) /\ Recorded(e)
           /\ \A i \in DOMAIN e.inserted : \E j \in DOMAIN d.inserted :
                e.inserted[i] = d.inserted[j]
           /\ \A c \in Cids : d.bound[c] = Unbound => e.bound[c] = Unbound
           /\ \A c \in Cids : d.bound[c] # Unbound /\ d.bound[c].at < t - Window
                => e.bound[c] = Unbound
           /\ \A c \in Cids : d.bound[c] # Unbound /\ ~(d.bound[c].at < t - Window)
                => e.bound[c] = d.bound[c]
  <1>1. PICK q : q = d.inserted
    BY Zenon
  <1>2. q \in Seq(Entries) /\ d.bound \in [Cids -> Bindings] /\ Ascending(q)
    BY <1>1 DEF Ledgers
  <1>3. t - Window \in Int
    BY OrdersAssumption
  <1>4. PICK n : n = Expired(d, t - Window)
    BY Zenon
  <1>5. n \in 0 .. Len(q) /\ \A i \in DOMAIN q : i <= n <=> q[i].at < t - Window
    BY <1>1, <1>2, <1>3, <1>4, ExpiredAreOld
  <1>6. DOMAIN q = 1 .. Len(q) /\ Len(q) \in Nat /\ \A i \in DOMAIN q : q[i] \in Entries
    BY <1>2
  <1>7. PICK out : out = {q[i].cid : i \in {j \in 1 .. n : d.bound[q[j].cid].at = q[j].at}}
    BY Zenon
  <1>8. PICK b : b = [c \in Cids |-> IF c \in out THEN Unbound ELSE d.bound[c]]
    BY Zenon
  <1>9. PICK r : r = SubSeq(q, n + 1, Len(q))
    BY Zenon
  <1>10. e = [bound |-> b, inserted |-> r]
    BY <1>1, <1>4, <1>7, <1>8, <1>9 DEF Expire
  <1>11. Unbound \in Bindings /\ b \in [Cids -> Bindings]
    BY <1>2, <1>8 DEF Unbound, Bindings
  <1>12. /\ r \in Seq(Entries) /\ Len(r) = Len(q) - n
         /\ \A i \in 1 .. Len(q) - n : r[i] = q[i + n]
    BY <1>2, <1>5, <1>9, Suffix
  <1>13. DOMAIN r = 1 .. Len(q) - n
    BY <1>12
  <1>14. e \in Ledgers /\ e.bound = b /\ e.inserted = r
    BY <1>10, <1>11, <1>12 DEF Ledgers
  <1>15. \A i \in DOMAIN r : i + n \in DOMAIN q /\ r[i] = q[i + n]
    BY <1>5, <1>6, <1>12, <1>13
  <1>16. Ascending(r)
    <2> SUFFICES ASSUME NEW i \in DOMAIN r, NEW j \in DOMAIN r, i <= j
                 PROVE  r[i].at <= r[j].at
      BY DEF Ascending
    <2>1. i + n <= j + n
      BY <1>5, <1>6, <1>13
    <2> QED BY <1>2, <1>15, <2>1 DEF Ascending
  <1>17. ASSUME NEW c \in Cids, d.bound[c] # Unbound
         PROVE  /\ c \in out <=> d.bound[c].at < t - Window
                /\ ~(d.bound[c].at < t - Window) =>
                     \E i \in DOMAIN r : r[i].at = d.bound[c].at /\ r[i].cid = c
    <2>1. PICK i \in DOMAIN q : q[i].at = d.bound[c].at /\ q[i].cid = c
      BY <1>1, <1>17 DEF Recorded
    <2>2. ASSUME d.bound[c].at < t - Window PROVE c \in out
      <3>1. i <= n
        BY <1>5, <2>1, <2>2
      <3>2. i \in 1 .. n
        BY <1>5, <1>6, <3>1
      <3> QED BY <1>7, <2>1, <3>2
    <2>3. ASSUME c \in out PROVE d.bound[c].at < t - Window
      <3>1. PICK j \in 1 .. n : d.bound[q[j].cid].at = q[j].at /\ q[j].cid = c
        BY <1>7, <2>3
      <3>2. j \in DOMAIN q /\ j <= n
        BY <1>5, <1>6
      <3> QED BY <1>5, <3>1, <3>2
    <2>4. ASSUME ~(d.bound[c].at < t - Window)
          PROVE  \E k \in DOMAIN r : r[k].at = d.bound[c].at /\ r[k].cid = c
      <3>1. ~(i <= n)
        BY <1>5, <2>1, <2>4
      <3>2. i - n \in DOMAIN r /\ (i - n) + n = i
        BY <1>5, <1>6, <1>13, <3>1
      <3>3. r[i - n] = q[i]
        BY <1>15, <3>2
      <3> QED BY <2>1, <3>2, <3>3
    <2> QED BY <2>2, <2>3, <2>4
  <1>18. \A c \in Cids : b[c] = IF c \in out THEN Unbound ELSE d.bound[c]
    BY <1>8
  <1>19. Recorded(e)
    <2> SUFFICES ASSUME NEW c \in Cids, b[c] # Unbound
                 PROVE  \E i \in DOMAIN r : r[i].at = b[c].at /\ r[i].cid = c
      BY <1>14 DEF Recorded
    <2>1. c \notin out /\ b[c] = d.bound[c]
      BY <1>18
    <2> QED BY <1>17, <2>1
  <1> QED BY <1>1, <1>14, <1>15, <1>16, <1>17, <1>18, <1>19

-----------------------------------------------------------------------------
(* The token buckets and the breaker.                                      *)

(* A request takes a token of no bucket or one of each it passes; one that is
   let through takes one of each. *)
LEMMA SpentTokens ==
    ASSUME NEW b \in [Limiters -> Nat]
    PROVE  /\ Spent(b) \in [Limiters -> Nat]
           /\ \A l \in Limiters : Spent(b)[l] <= b[l]
           /\ Refusals(b) = {} => \A l \in Limiters : b[l] >= 1 /\ Spent(b)[l] = b[l] - 1
  <1> DEFINE upTo == IF b["ip"] = 0 THEN {}
                     ELSE IF b["user"] = 0 THEN {"ip"}
                     ELSE IF b["instance"] = 0 THEN {"ip", "user"}
                     ELSE Limiters
  <1>1. Spent(b) = [l \in Limiters |-> IF l \in upTo THEN b[l] - 1 ELSE b[l]]
    BY DEF Spent
  <1>2. \A l \in upTo : b[l] # 0
    BY DEF Limiters
  <1>3. \A l \in Limiters : b[l] \in Nat
    OBVIOUS
  <1>4. \A l \in Limiters : (IF l \in upTo THEN b[l] - 1 ELSE b[l]) \in Nat
    <2> HIDE DEF upTo
    <2> QED BY <1>2, <1>3
  <1>5. ASSUME Refusals(b) = {} PROVE upTo = Limiters /\ \A l \in Limiters : b[l] # 0
    BY <1>5 DEF Refusals, Limiters
  <1> HIDE DEF upTo
  <1> QED BY <1>1, <1>3, <1>4, <1>5

LEMMA RefilledTokens ==
    ASSUME NEW b \in [Limiters -> Nat], \A l \in Limiters : b[l] <= Burst[l]
    PROVE  /\ Refill(b) \in [Limiters -> Nat]
           /\ \A l \in Limiters : Refill(b)[l] <= Burst[l] /\ Refill(b)[l] <= b[l] + 1
  <1>1. \A l \in Limiters : b[l] \in Nat /\ Burst[l] \in Nat
    BY OrdersAssumption
  <1>2. Refill(b) = [l \in Limiters |-> IF b[l] < Burst[l] THEN b[l] + 1 ELSE b[l]]
    BY DEF Refill
  <1> QED BY <1>1, <1>2

(* allow leaves a breaker half open only for the request it lets through,
   whose outcome closes or opens it. *)
LEMMA BreakerOutcomes ==
    ASSUME NEW cb \in Breakers, cb.state # "HalfOpen", NEW t \in Nat,
           NEW a, a = AfterAllow(cb, t)
    PROVE  /\ a \in Breakers
           /\ ~Allows(cb, t) => a.state # "HalfOpen"
           /\ Allows(cb, t) => /\ RecordSuccess(a) \in Breakers
                               /\ RecordSuccess(a).state # "HalfOpen"
                               /\ RecordFailure(a, t) \in Breakers
                               /\ RecordFailure(a, t).state # "HalfOpen"
  <1>1. PICK c : c = Cooled(cb, t)
    BY Zenon
  <1>2. c \in Breakers /\ (c.state = "HalfOpen" => ~c.used)
    BY <1>1, Zenon DEF Cooled, Breakers
  <1>3. a = IF c.state = "HalfOpen" THEN [c EXCEPT !.used = TRUE] ELSE c
    BY <1>1 DEF AfterAllow
  <1>4. a \in Breakers /\ a.state = c.state
    <2>1. CASE c.state = "HalfOpen"
      <3>1. a = [c EXCEPT !.used = TRUE]
        BY <1>3, <2>1
      <3> QED BY <1>2, <3>1, Zenon DEF Breakers
    <2>2. CASE c.state # "HalfOpen"
      BY <1>2, <1>3, <2>2
    <2> QED BY <2>1, <2>2
  <1>5. Allows(cb, t) <=> c.state = "Closed" \/ c.state = "HalfOpen"
    BY <1>1, <1>2 DEF Allows
  <1>6. RecordSuccess(a) \in Breakers
    BY <1>4, Zenon DEF RecordSuccess, Breakers
  <1>7. RecordSuccess(a).state # "HalfOpen"
    BY <1>4 DEF RecordSuccess, Breakers
  <1>8. PICK f : f = [a EXCEPT !.fails = a.fails + 1, !.failedAt = t]
    BY Zenon
  <1>9. f \in Breakers /\ f.state = a.state
    <2>1. PICK m \in Nat : m = a.fails + 1
      BY <1>4 DEF Breakers
    <2>2. f = [a EXCEPT !.fails = m, !.failedAt = t] /\ t \in Nat \cup {None}
      BY <1>8, <2>1
    <2> QED BY <1>4, <2>2, Zenon DEF Breakers
  <1>10. RecordFailure(a, t) =
           CASE f.state = "Closed" ->
                  IF f.fails >= Threshold THEN [f EXCEPT !.state = "Open"] ELSE f
             [] f.state = "HalfOpen" -> [f EXCEPT !.state = "Open", !.used = FALSE]
             [] OTHER -> f
    BY <1>8 DEF RecordFailure
  <1>11. RecordFailure(a, t) \in Breakers
    BY <1>9, <1>10, Zenon DEF Breakers
  <1>12. RecordFailure(a, t).state # "HalfOpen"
    BY <1>9, <1>10 DEF Breakers
  <1> QED BY <1>4, <1>5, <1>6, <1>7, <1>11, <1>12
=============================================================================
