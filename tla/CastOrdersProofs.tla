-------------------------- MODULE CastOrdersProofs --------------------------
(***************************************************************************)
(* Proof that the matching engine handles every order and cancel of a      *)
(* casting stream at most once and in the order of sending, for every ring *)
(* size, retry budget, number of records and number of datagrams in        *)
(* flight, although it skips the gaps it cannot fill.                      *)
(***************************************************************************)
EXTENDS CastOrders, FiniteSetTheorems, TLAPS

(* What the argument needs of the types. *)
Typed ==
    /\ appended \in Nat /\ nextSeq \in Nat \ {0}
    /\ net \subseteq [t : {"data", "hb"}, seq : Nat]
    /\ naks \subseteq [from : Nat, count : Nat]
    /\ expected \in Nat /\ highestSeen \in Nat /\ tip \in Nat
    /\ fault \in [on : BOOLEAN, last : Nat, from : Nat, to : Nat]

(* Sequence number 0 is the empty slot: no data packet carries it. *)
Numbered == \A m \in net : m.t = "data" => m.seq >= 1

(* The receiver expects a record behind everything delivered so far; before
   it is synchronised nothing is. *)
Ahead == tip < expected \/ (tip = 0 /\ expected = 0)

(* A fault names a gap of a synchronised stream.  It reaches as far as the
   record the running call may still deliver, and the call that entered it
   delivers at most the first record of the gap. *)
GapCovers ==
    fault.on =>
        /\ expected >= 1
        /\ fault.to >= tip
        /\ polling => fault.to >= expected

IInv == Typed /\ Numbered /\ Ahead /\ GapCovers

-----------------------------------------------------------------------------
(* oldest_missing_run counts records: it is a natural number. *)
LEMMA MissingRunType ==
    ASSUME NEW exp \in Nat, NEW hs \in Nat, NEW ring
    PROVE  MissingRun(exp, hs, ring) \in Nat
  <1> DEFINE upper == Smaller(hs, exp + ReorderCap)
             run == {s \in exp .. upper : \A r \in exp .. s : ring[SlotOf(r)] # r}
  <1>1. upper \in Nat
    BY CastAssumption DEF Smaller
  <1>2. IsFiniteSet(exp .. upper)
    BY <1>1, FS_Interval
  <1>3. IsFiniteSet(run)
    <2>1. run \subseteq exp .. upper
      OBVIOUS
    <2> QED BY <1>2, <2>1, FS_Subset, Zenon
  <1>4. Cardinality(run) \in Nat
    BY <1>3, FS_CardinalityType
  <1> QED BY <1>4 DEF MissingRun

(* A fault that maybe_nak enters is about a gap that starts at the expected
   record of a synchronised stream. *)
LEMMA MaybeNakEffect ==
    ASSUME Typed, NEW hs \in Nat, NEW ring, MaybeNak(expected, hs, ring)
    PROVE  /\ naks' \subseteq [from : Nat, count : Nat]
           /\ fault' \in [on : BOOLEAN, last : Nat, from : Nat, to : Nat]
           /\ \/ fault' = fault
              \/ expected >= 1 /\ fault'.to >= expected
  <1> DEFINE run == MissingRun(expected, hs, ring)
  <1>0. expected \in Nat
    BY DEF Typed
  <1>1. run \in Nat
    BY <1>0, MissingRunType
  <1>2. CASE UNCHANGED <<naks, gapVars>>
    BY <1>2 DEF gapVars, Typed
  <1>3. CASE run # 0 /\ SendNak(expected, run)
    <2>1. expected >= 1
      BY <1>0, <1>3 DEF MissingRun
    <2> HIDE DEF run
    <2>2. expected - 1 \in Nat /\ expected + run - 1 \in Nat
          /\ expected + run - 1 >= expected
      BY <1>0, <1>1, <1>3, <2>1
    <2>3. naks' \subseteq [from : Nat, count : Nat]
      BY <1>0, <1>1, <1>3 DEF SendNak, Typed
    <2>4. \/ fault' = fault
          \/ fault' = [on |-> TRUE, last |-> expected - 1,
                       from |-> expected, to |-> expected + run - 1]
      BY <1>3 DEF SendNak
    <2>5. fault \in [on : BOOLEAN, last : Nat, from : Nat, to : Nat]
      BY DEF Typed
    <2>6. fault' \in [on : BOOLEAN, last : Nat, from : Nat, to : Nat]
      <3>1. [on |-> TRUE, last |-> expected - 1, from |-> expected, to |-> expected + run - 1]
              \in [on : BOOLEAN, last : Nat, from : Nat, to : Nat]
        BY <1>0, <2>2
      <3> QED BY <2>4, <2>5, <3>1, Zenon
    <2>7. fault' = fault \/ fault'.to >= expected
      BY <2>2, <2>4
    <2> QED BY <2>1, <2>3, <2>6, <2>7
  <1> QED BY <1>2, <1>3 DEF MaybeNak

(* The records a NAK is answered with are numbered from 1. *)
LEMMA RetransmittedIsNumbered ==
    ASSUME Typed, NEW nak \in naks, NEW s \in Retransmittable(nak)
    PROVE  s \in Nat /\ s >= 1
  <1>1. nak.from \in Nat /\ nak.count \in Nat
    BY DEF Typed
  <1> QED BY <1>1, CastAssumption DEF Retransmittable, Smaller

(* No packet that arrives is taken for a sender reset, so a data packet is
   judged against the record the receiver expects. *)
LEMMA NoResync ==
    ASSUME IInv, NEW m \in net, m.t = "data", Arrives(m)
    PROVE  /\ m.seq \in Nat /\ m.seq >= 1
           /\ SyncedSeq(m.seq) = IF expected = 0 THEN m.seq ELSE expected
  <1>1. m.seq \in Nat /\ m.seq >= 1
    BY DEF IInv, Typed, Numbered
  <1>2. ~ IsReset(m.seq)
    BY <1>1, CastAssumption, OrdersAssumption DEF IInv, Typed, IsReset, Arrives
  <1> QED BY <1>1, <1>2 DEF SyncedSeq

-----------------------------------------------------------------------------
LEMMA InitInv == Init => IInv
  <1> SUFFICES ASSUME Init PROVE IInv
    OBVIOUS
  <1>1. fault \in [on : BOOLEAN, last : Nat, from : Nat, to : Nat] /\ ~fault.on
    BY DEF Init, NoFault
  <1> QED BY <1>1, CastAssumption DEF Init, IInv, Typed, Numbered, Ahead, GapCovers

(* The sender, and the datagrams that are lost, leave the receiver alone:
   only what is in flight changes, and that stays numbered. *)
LEMMA SenderInv ==
    ASSUME IInv,
           \/ Publish \/ Flush \/ Tick
           \/ \E nak \in naks : HandleNak(nak) \/ LoseNak(nak)
           \/ \E m \in net : Lose(m)
    PROVE  IInv' /\ UNCHANGED appVars
  <1> USE DEF IInv
  <1>1. UNCHANGED <<expected, highestSeen, fault, polling, tip>> /\ UNCHANGED appVars
    BY Zenon DEF Publish, Flush, Tick, HandleNak, LoseNak, Lose, gapVars, appVars
  <1>2. appended' \in Nat /\ nextSeq' \in Nat \ {0}
    <2>1. CASE Publish
      BY <2>1 DEF Publish, SendFramed, Typed
    <2>2. CASE ~Publish
      BY <2>2, Zenon DEF Flush, Tick, HandleNak, LoseNak, Lose, senderVars, Typed
    <2> QED BY <2>1, <2>2
  <1>3. naks' \subseteq naks
    BY Zenon DEF Publish, Flush, Tick, HandleNak, LoseNak, Lose
  <1>4. \A m \in net' :
           \/ m \in net
           \/ \E s \in Nat : m = Heartbeat(s)
           \/ \E s \in Nat : s >= 1 /\ m = Data(s)
    <2>1. CASE Publish
      <3>1. appended + 1 \in Nat /\ appended + 1 >= 1
        BY DEF Typed
      <3>2. net' \subseteq net \cup {Data(appended + 1)}
        BY <2>1, Zenon DEF Publish, SendFramed, Transmit
      <3> QED BY <3>1, <3>2
    <2>2. CASE Tick
      <3>1. nextSeq - 1 \in Nat
        BY DEF Typed
      <3> QED BY <2>2, <3>1 DEF Tick, Transmit
    <2>3. ASSUME NEW nak \in naks, HandleNak(nak)
          PROVE  \A m \in net' : \/ m \in net
                                 \/ \E s \in Nat : s >= 1 /\ m = Data(s)
      BY <2>3, RetransmittedIsNumbered DEF HandleNak, Transmit
    <2>4. CASE Flush \/ (\E nak \in naks : LoseNak(nak)) \/ \E m \in net : Lose(m)
      BY <2>4 DEF Flush, LoseNak, Lose
    <2> QED BY <2>1, <2>2, <2>3, <2>4
  <1>5. net' \subseteq [t : {"data", "hb"}, seq : Nat] /\ Numbered'
    BY <1>4 DEF Typed, Numbered, Heartbeat, Data
  <1> QED BY <1>1, <1>2, <1>3, <1>5 DEF Typed, Ahead, GapCovers

LEMMA BeginPollInv ==
    ASSUME IInv, BeginPoll
    PROVE  IInv' /\ UNCHANGED appVars
  BY DEF BeginPoll, IInv, Typed, Numbered, Ahead, GapCovers, senderVars, gapVars, appVars

(* A heartbeat may enter FAULTED while the call goes on. *)
LEMMA RecvHeartbeatInv ==
    ASSUME IInv, NEW m \in net, RecvHeartbeat(m)
    PROVE  IInv' /\ UNCHANGED appVars
  <1> USE DEF IInv, RecvHeartbeat, senderVars, appVars
  <1>1. m.seq \in Nat /\ net' \subseteq net
    BY DEF Typed, Consume
  <1>2. highestSeen' \in Nat
    BY <1>1 DEF Typed, Larger
  <1>3. /\ naks' \subseteq [from : Nat, count : Nat]
        /\ fault' \in [on : BOOLEAN, last : Nat, from : Nat, to : Nat]
        /\ fault' = fault \/ (expected >= 1 /\ fault'.to >= expected)
    BY <1>2, MaybeNakEffect
  <1>4. Typed' /\ Numbered' /\ Ahead'
    BY <1>1, <1>2, <1>3 DEF Typed, Numbered, Ahead
  <1>5. GapCovers'
    BY <1>3 DEF GapCovers, Ahead, Typed
  <1> QED BY <1>4, <1>5

LEMMA RecvStaleInv ==
    ASSUME IInv, NEW m \in net, RecvStale(m)
    PROVE  IInv' /\ UNCHANGED appVars
  <1>1. net' \subseteq net
    BY DEF RecvStale, Consume
  <1> QED BY <1>1 DEF IInv, RecvStale, Typed, Numbered, Ahead, GapCovers,
                      senderVars, appVars, gapVars

(* The record the receiver expects, or the first one it sees, is later than
   all delivered so far. *)
LEMMA RecvInOrderInv ==
    ASSUME IInv, NEW m \in net, Arrives(m), RecvInOrder(m)
    PROVE  IInv' /\ tip' > tip
  <1> USE DEF IInv, RecvInOrder, senderVars
  <1>1. /\ m.seq \in Nat /\ m.seq >= 1
        /\ expected = 0 \/ m.seq = expected
    BY NoResync
  <1>2. net' \subseteq net
    BY DEF Consume
  <1>3. tip' = m.seq /\ tip' > tip /\ highestSeen' \in Nat
    BY <1>1 DEF Typed, Ahead, Deliver, Larger
  <1>4. Typed' /\ Numbered' /\ Ahead'
    BY <1>1, <1>2, <1>3 DEF Typed, Numbered, Ahead
  <1>5. GapCovers'
    BY <1>1, <1>3 DEF GapCovers, Typed
  <1> QED BY <1>3, <1>4, <1>5

(* A record ahead of the stream is buffered or overflows the ring. *)
LEMMA RecvAheadInv ==
    ASSUME IInv, NEW m \in net, Arrives(m), RecvAhead(m)
    PROVE  IInv' /\ UNCHANGED appVars
  <1> USE DEF IInv, RecvAhead, senderVars, appVars
  <1>1. m.seq \in Nat
    BY NoResync
  <1>2. net' \subseteq net
    BY DEF Consume
  <1>3. highestSeen' \in Nat
    BY <1>1 DEF Typed, Larger
  <1>4. /\ naks' \subseteq [from : Nat, count : Nat]
        /\ fault' \in [on : BOOLEAN, last : Nat, from : Nat, to : Nat]
        /\ fault' = fault \/ (expected >= 1 /\ fault'.to >= expected)
    <2>1. CASE reorder[SlotOf(m.seq)] \in {0, m.seq}
      BY <1>3, <2>1, MaybeNakEffect
    <2>2. CASE reorder[SlotOf(m.seq)] \notin {0, m.seq}
      BY <2>2 DEF Typed, gapVars
    <2> QED BY <2>1, <2>2
  <1>5. Typed' /\ Numbered' /\ Ahead'
    BY <1>2, <1>3, <1>4 DEF Typed, Numbered, Ahead
  <1>6. GapCovers'
    BY <1>4 DEF GapCovers, Ahead, Typed
  <1> QED BY <1>5, <1>6

(* The ring is drained in sequence: only the expected record is delivered. *)
LEMMA DrainInv ==
    ASSUME IInv, Drain
    PROVE  IInv' /\ (tip' > tip \/ UNCHANGED appVars)
  <1> USE DEF IInv, Drain, senderVars
  <1>1. CASE expected # 0 /\ reorder[SlotOf(expected)] = expected
    <2>1. tip' = expected /\ tip' > tip /\ expected' = expected + 1
      BY <1>1 DEF Typed, Ahead, Deliver, Larger
    <2>2. Typed' /\ Numbered' /\ Ahead'
      BY <2>1 DEF Typed, Numbered, Ahead
    <2>3. GapCovers'
      BY <2>1 DEF GapCovers, Typed
    <2> QED BY <2>1, <2>2, <2>3
  <1>2. CASE ~(expected # 0 /\ reorder[SlotOf(expected)] = expected)
    BY <1>2 DEF Typed, Numbered, Ahead, GapCovers, appVars
  <1> QED BY <1>1, <1>2

(* Skipping resumes behind the gap, hence behind all that was delivered. *)
LEMMA SkipGapInv ==
    ASSUME IInv, SkipGap
    PROVE  IInv' /\ UNCHANGED appVars
  <1> USE DEF IInv, SkipGap, ResetAfterReplay, senderVars, appVars
  <1>1. fault.to \in Nat /\ fault.to >= tip
    BY DEF Typed, GapCovers
  <1>2. /\ fault' \in [on : BOOLEAN, last : Nat, from : Nat, to : Nat]
        /\ ~fault'.on
    BY DEF NoFault
  <1>3. Typed' /\ Numbered' /\ Ahead'
    BY <1>1, <1>2 DEF Typed, Numbered, Ahead, Larger
  <1> QED BY <1>2, <1>3 DEF GapCovers

-----------------------------------------------------------------------------
(* IInv is inductive, and a step that delivers moves the tip forward. *)
LEMMA NextInv ==
    ASSUME IInv, [Next]_vars
    PROVE  IInv' /\ (applied' # applied \/ twice' # twice => tip' > tip)
  <1>1. CASE \/ Publish \/ Flush \/ Tick
             \/ \E nak \in naks : HandleNak(nak) \/ LoseNak(nak)
             \/ \E m \in net : Lose(m)
    BY <1>1, SenderInv DEF appVars
  <1>2. CASE BeginPoll
    BY <1>2, BeginPollInv DEF appVars
  <1>3. ASSUME NEW m \in net, Arrives(m),
               RecvHeartbeat(m) \/ RecvStale(m) \/ RecvInOrder(m) \/ RecvAhead(m)
        PROVE  IInv' /\ (applied' # applied \/ twice' # twice => tip' > tip)
    BY <1>3, RecvHeartbeatInv, RecvStaleInv, RecvInOrderInv, RecvAheadInv DEF appVars
  <1>4. CASE Drain
    BY <1>4, DrainInv DEF appVars
  <1>5. CASE SkipGap
    BY <1>5, SkipGapInv DEF appVars
  <1>6. CASE IdleSpin \/ UNCHANGED vars
    BY <1>6 DEF IdleSpin, IInv, Typed, Numbered, Ahead, GapCovers, vars, senderVars,
                appVars, gapVars
  <1> QED BY <1>1, <1>2, <1>3, <1>4, <1>5, <1>6 DEF Next, Transport

(* Whatever the network loses, duplicates, delays or reorders, and whichever
   gaps the matching engine skips (try_recv_with, reset_after_replay), every
   record it handles is later than all it handled before. *)
THEOREM OnceAndInOrder == Spec => EachOnceInOrder
  <1>1. IInv /\ [Next]_vars => IInv'
    BY NextInv
  <1>2. IInv /\ [Next]_vars =>
            [applied' # applied \/ twice' # twice => tip' > tip]_vars
    BY NextInv
  <1> QED BY <1>1, <1>2, InitInv, PTL DEF Spec, EachOnceInOrder
=============================================================================
