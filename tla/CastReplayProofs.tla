-------------------------- MODULE CastReplayProofs --------------------------
(***************************************************************************)
(* Proof that casting with TCP replay never skips a record silently, for   *)
(* every ring size, retry budget, number of records and number of          *)
(* datagrams in flight.                                                    *)
(***************************************************************************)
EXTENDS CastReplay, FiniteSetTheorems, TLAPS

(* The data packets in flight, the reorder ring and the send ring hold only
   records the WAL has numbered. *)
KnownRecords ==
    /\ nextSeq <= appended + 1
    /\ \A m \in net : m.t = "data" => m.seq \in 1 .. appended
    /\ \A slot \in Slots : reorder[slot] <= appended
    /\ \A slot \in SendSlots : ringSeqs[slot] <= appended

(* The receiver expects the record after the tip, or, after a replay that
   found nothing flushed, the tip itself once more. *)
Position ==
    /\ expected >= 1
    /\ tip \in {expected - 1, expected}
    /\ tip <= appended
    /\ applied = 1 .. tip

(* A fault entered in a call that is still running is about the record the
   receiver expects; once the call has returned, at most one record has been
   delivered since. *)
Sticky ==
    /\ polling => ~reconnect.on
    /\ polling /\ fault.on => fault.last = expected - 1
    /\ fault.on => tip \in {fault.last, fault.last + 1}
    /\ reconnect.on => tip \in {reconnect.last, reconnect.last + 1}

IInv == TypeOK /\ KnownRecords /\ Position /\ Sticky

-----------------------------------------------------------------------------
(* Every sequence number has a slot in the reorder ring and in the send
   ring. *)
LEMMA SlotType ==
    ASSUME NEW s \in Nat
    PROVE  SlotOf(s) \in Slots /\ s % SendRingCap \in SendSlots
  BY CastAssumption DEF SlotOf, Slots, SendSlots

(* oldest_missing_run counts records: it is a natural number. *)
LEMMA MissingRunType ==
    ASSUME NEW exp \in Nat, NEW hs \in Nat, NEW ring
    PROVE  MissingRun(exp, hs, ring) \in Nat
  <1> DEFINE upper == Smaller(hs, exp + ReorderCap)
             run == {s \in exp .. upper : \A r \in exp .. s : ring[SlotOf(r)] # r}
  <1>1. upper \in Nat
    BY CastAssumption DEF Smaller
  <1>2. IsFiniteSet(run)
    <2>1. IsFiniteSet(exp .. upper)
      BY <1>1, FS_Interval
    <2>2. run \subseteq exp .. upper
      OBVIOUS
    <2> QED BY <2>1, <2>2, FS_Subset, Zenon
  <1>3. Cardinality(run) \in Nat
    BY <1>2, FS_CardinalityType
  <1> QED BY <1>3 DEF MissingRun

(* maybe_nak keeps the types, and a fault it enters reports the record before
   the one the receiver expects. *)
LEMMA MaybeNakEffect ==
    ASSUME TypeOK, NEW exp \in Nat, exp >= 1, NEW hs \in Nat, NEW ring,
           MaybeNak(exp, hs, ring)
    PROVE  /\ naks' \subseteq [from : Nat, count : Nat]
           /\ nakSent' \subseteq Slots
           /\ retries' \in Nat
           /\ fault' \in [on : BOOLEAN, last : Nat, from : Nat, to : Nat]
           /\ fault' = fault \/ (fault'.on /\ fault'.last = exp - 1)
  <1> DEFINE run == MissingRun(exp, hs, ring)
  <1>1. run \in Nat
    BY MissingRunType
  <1>2. CASE UNCHANGED <<naks, gapVars>>
    BY <1>2 DEF gapVars, TypeOK
  <1>3. CASE run # 0 /\ SendNak(exp, run)
    <2>1. SlotOf(exp) \in Slots
      BY SlotType
    <2> HIDE DEF run
    <2>2. exp - 1 \in Nat /\ exp + run - 1 \in Nat
      BY <1>1
    <2>3. naks' \subseteq [from : Nat, count : Nat]
      BY <1>1, <1>3 DEF SendNak, TypeOK
    <2>4. nakSent' \subseteq Slots /\ retries' \in Nat
      BY <2>1, <1>3 DEF SendNak, TypeOK
    <2>5. /\ fault' \in [on : BOOLEAN, last : Nat, from : Nat, to : Nat]
          /\ fault' = fault \/ (fault'.on /\ fault'.last = exp - 1)
      BY <2>2, <1>3 DEF SendNak, TypeOK
    <2> QED BY <2>3, <2>4, <2>5
  <1> QED BY <1>2, <1>3 DEF MaybeNak

-----------------------------------------------------------------------------
(* A sender and a receiver that have just started satisfy the invariant. *)
LEMMA InitInv == Init => IInv
  <1> SUFFICES ASSUME Init PROVE IInv
    OBVIOUS
  <1> USE CastAssumption, ReplayAssumption
  <1>1. TypeOK
    <2>1. ringSeqs \in [SendSlots -> Nat] /\ reorder \in [Slots -> Nat]
      BY DEF Init, EmptyRing
    <2>2. /\ fault \in [on : BOOLEAN, last : Nat, from : Nat, to : Nat]
          /\ reconnect \in [on : BOOLEAN, last : Nat]
      BY DEF Init, NoFault, NoReconnect
    <2>3. net \subseteq [t : {"data", "hb"}, seq : Nat]
      BY DEF Init
    <2>4. naks \subseteq [from : Nat, count : Nat] /\ nakSent \subseteq Slots
      BY DEF Init
    <2>5. applied \in SUBSET (1 .. MaxSeq) /\ twice \in SUBSET applied
      BY DEF Init
    <2>6. /\ appended \in 0 .. MaxSeq /\ flushed \in 0 .. appended
          /\ nextSeq \in Nat \ {0} /\ expected \in Nat /\ highestSeen \in Nat
          /\ retries \in Nat /\ tip \in Nat
      BY DEF Init
    <2>7. polling \in BOOLEAN
      BY Zenon DEF Init
    <2> QED BY <2>1, <2>2, <2>3, <2>4, <2>5, <2>6, <2>7 DEF TypeOK
  <1>2. KnownRecords
    BY DEF Init, KnownRecords, EmptyRing
  <1>3. Position
    BY DEF Init, Position
  <1>4. Sticky
    BY DEF Init, Sticky, NoFault, NoReconnect
  <1> QED BY <1>1, <1>2, <1>3, <1>4 DEF IInv

(* Publishing a record numbers it before it reaches the ring or the wire. *)
LEMMA PublishInv == IInv /\ Publish => IInv'
  <1> SUFFICES ASSUME IInv, Publish PROVE IInv'
    OBVIOUS
  <1> USE CastAssumption DEF IInv, Publish, SendFramed, Transmit
  <1>0. \A m \in net' : m \in net \/ m = Data(appended + 1)
    BY Zenon DEF Data
  <1>1. TypeOK'
    <2>0. appended + 1 \in Nat
      BY DEF TypeOK
    <2>1. (appended + 1) % SendRingCap \in SendSlots
      BY <2>0, SlotType
    <2>2. ringSeqs' \in [SendSlots -> Nat]
      BY <2>1 DEF TypeOK
    <2>3. net' \subseteq [t : {"data", "hb"}, seq : Nat]
      BY <1>0, <2>0 DEF TypeOK, Data
    <2>4. nextSeq' \in Nat \ {0}
      BY DEF TypeOK
    <2> QED BY <2>2, <2>3, <2>4 DEF TypeOK, gapVars, appVars
  <1>2. KnownRecords'
    <2>1. nextSeq' <= appended' + 1
      BY DEF TypeOK, KnownRecords
    <2>2. \A m \in net' : m.t = "data" => m.seq \in 1 .. appended'
      BY <1>0 DEF TypeOK, KnownRecords, Data
    <2>3. \A slot \in Slots : reorder'[slot] <= appended'
      BY DEF TypeOK, KnownRecords
    <2>4. \A slot \in SendSlots : ringSeqs'[slot] <= appended'
      BY DEF TypeOK, KnownRecords
    <2> QED BY <2>1, <2>2, <2>3, <2>4 DEF KnownRecords
  <1>3. Position'
    BY DEF TypeOK, Position, appVars
  <1>4. Sticky'
    BY DEF Sticky, appVars, gapVars
  <1> QED BY <1>1, <1>2, <1>3, <1>4

(* Flushing and heartbeats leave the receiver alone. *)
LEMMA FlushInv == IInv /\ Flush => IInv'
  BY DEF IInv, Flush, TypeOK, KnownRecords, Position, Sticky, appVars, gapVars

LEMMA TickInv == IInv /\ Tick => IInv'
  <1> SUFFICES ASSUME IInv, Tick PROVE IInv'
    OBVIOUS
  <1> USE DEF IInv, Tick, Transmit, Heartbeat, senderVars
  <1>1. TypeOK'
    BY DEF TypeOK, gapVars, appVars
  <1>2. KnownRecords'
    BY DEF TypeOK, KnownRecords
  <1>3. Position' /\ Sticky'
    BY DEF Position, Sticky, gapVars, appVars
  <1> QED BY <1>1, <1>2, <1>3

(* A NAK is answered from the send ring or the WAL file, both of which hold
   numbered records only. *)
LEMMA HandleNakInv ==
    ASSUME IInv, NEW nak \in naks, HandleNak(nak)
    PROVE  IInv'
  <1> USE CastAssumption DEF IInv, HandleNak, Transmit, senderVars
  <1>1. \A s \in Retransmittable(nak) : s \in 1 .. appended
    <2> SUFFICES ASSUME NEW s \in Retransmittable(nak)
                 PROVE  s \in 1 .. appended
      OBVIOUS
    <2>1. nak.from \in Nat /\ nak.count \in Nat
      BY DEF TypeOK
    <2>2. s \in Nat /\ s # 0
      BY <2>1 DEF Retransmittable, Smaller
    <2>3. ringSeqs[s % SendRingCap] <= appended
      BY <2>2, SlotType DEF KnownRecords
    <2> QED BY <2>2, <2>3 DEF Retransmittable, TypeOK
  <1>2. \A m \in net' : m \in net \/ \E s \in 1 .. appended : m = Data(s)
    BY <1>1
  <1>3. TypeOK'
    <2>1. net' \subseteq [t : {"data", "hb"}, seq : Nat]
      BY <1>2 DEF TypeOK, Data
    <2> QED BY <2>1 DEF TypeOK, gapVars, appVars
  <1>4. KnownRecords'
    BY <1>2 DEF TypeOK, KnownRecords, Data
  <1>5. Position' /\ Sticky'
    BY DEF Position, Sticky, gapVars, appVars
  <1> QED BY <1>3, <1>4, <1>5

(* Losing a datagram or a NAK, and entering the receive loop. *)
LEMMA LoseInv ==
    ASSUME IInv, NEW m \in net, Lose(m)
    PROVE  IInv'
  BY DEF IInv, Lose, TypeOK, KnownRecords, Position, Sticky, senderVars,
         appVars, gapVars

LEMMA LoseNakInv ==
    ASSUME IInv, NEW nak \in naks, LoseNak(nak)
    PROVE  IInv'
  BY DEF IInv, LoseNak, TypeOK, KnownRecords, Position, Sticky, senderVars,
         appVars, gapVars

LEMMA BeginPollInv == IInv /\ BeginPoll => IInv'
  BY DEF IInv, BeginPoll, TypeOK, KnownRecords, Position, Sticky, senderVars,
         appVars, gapVars

(* A heartbeat may enter FAULTED while the call goes on: the reported record
   is then the one before the record the receiver expects. *)
LEMMA RecvHeartbeatInv ==
    ASSUME IInv, NEW m \in net, RecvHeartbeat(m)
    PROVE  IInv'
  <1> USE DEF IInv, RecvHeartbeat, senderVars, appVars
  <1>1. m.seq \in Nat /\ net' \subseteq net
    BY DEF TypeOK, Consume
  <1>2. highestSeen' \in Nat
    BY <1>1 DEF TypeOK, Larger
  <1>3. /\ naks' \subseteq [from : Nat, count : Nat]
        /\ nakSent' \subseteq Slots
        /\ retries' \in Nat
        /\ fault' \in [on : BOOLEAN, last : Nat, from : Nat, to : Nat]
        /\ fault' = fault \/ (fault'.on /\ fault'.last = expected - 1)
    BY <1>2, MaybeNakEffect DEF TypeOK, Position
  <1>4. TypeOK'
    BY <1>1, <1>2, <1>3 DEF TypeOK
  <1>5. KnownRecords'
    BY <1>1 DEF KnownRecords
  <1>6. Position'
    BY DEF Position
  <1>7. Sticky'
    BY <1>3 DEF Sticky, Position, TypeOK
  <1> QED BY <1>4, <1>5, <1>6, <1>7

(* No packet that arrives is taken for a sender reset. *)
LEMMA NoResync ==
    ASSUME IInv, NEW m \in net, m.t = "data", Arrives(m)
    PROVE  /\ m.seq \in 1 .. appended
           /\ SyncedSeq(m.seq) = expected
           /\ SyncedRing(m.seq) = reorder
  <1>1. m.seq \in Nat /\ m.seq \in 1 .. appended
    BY DEF IInv, TypeOK, KnownRecords
  <1>2. ~ IsReset(m.seq)
    BY <1>1, CastAssumption, ReplayAssumption DEF IInv, TypeOK, IsReset, Arrives
  <1> QED BY <1>1, <1>2 DEF IInv, Position, SyncedSeq, SyncedRing

LEMMA RecvStaleInv ==
    ASSUME IInv, NEW m \in net, RecvStale(m)
    PROVE  IInv'
  <1>1. net' \subseteq net
    BY DEF RecvStale, Consume
  <1> QED BY <1>1 DEF IInv, RecvStale, TypeOK, KnownRecords, Position, Sticky,
                      senderVars, appVars, gapVars

(* Delivering the expected record extends what is applied by exactly that
   record, or re-applies the tip. *)
LEMMA DeliverExpected ==
    ASSUME IInv, expected <= appended, Deliver(expected)
    PROVE  /\ tip' = expected
           /\ applied' = 1 .. expected
           /\ applied' \in SUBSET (1 .. MaxSeq)
           /\ twice' \in SUBSET applied'
  <1>1. tip' = expected
    BY DEF IInv, TypeOK, Position, Deliver, Larger
  <1>2. applied' = 1 .. expected
    BY DEF IInv, TypeOK, Position, Deliver
  <1>3. applied' \in SUBSET (1 .. MaxSeq)
    BY <1>2, CastAssumption DEF IInv, TypeOK
  <1>4. twice' \in SUBSET applied'
    BY DEF IInv, TypeOK, Deliver
  <1> QED BY <1>1, <1>2, <1>3, <1>4

LEMMA RecvInOrderInv ==
    ASSUME IInv, NEW m \in net, Arrives(m), RecvInOrder(m)
    PROVE  IInv'
  <1> USE DEF RecvInOrder, senderVars
  <1>1. /\ m.seq = expected /\ expected <= appended
        /\ reorder' = reorder
    BY NoResync DEF IInv, TypeOK
  <1>2. Deliver(expected)
    BY <1>1
  <1>3. /\ tip' = expected /\ applied' = 1 .. expected
        /\ applied' \in SUBSET (1 .. MaxSeq)
        /\ twice' \in SUBSET applied'
    BY <1>1, <1>2, DeliverExpected
  <1>4. net' \subseteq net
    BY DEF Consume
  <1>5. expected' = expected + 1 /\ highestSeen' \in Nat /\ tip' \in Nat
    BY <1>1, <1>3 DEF IInv, TypeOK, Larger
  <1>6. TypeOK'
    <2>1. polling' \in BOOLEAN /\ nakSent' \subseteq Slots /\ retries' \in Nat
      BY Zenon DEF IInv, TypeOK
    <2>2. net' \subseteq [t : {"data", "hb"}, seq : Nat] /\ expected' \in Nat
      BY <1>4, <1>5 DEF IInv, TypeOK
    <2> QED BY <1>1, <1>3, <1>5, <2>1, <2>2 DEF IInv, TypeOK
  <1>7. KnownRecords'
    BY <1>1, <1>4 DEF IInv, KnownRecords
  <1>8. Position'
    BY <1>1, <1>3, <1>5 DEF IInv, TypeOK, Position
  <1>9. Sticky'
    BY <1>3 DEF IInv, TypeOK, Sticky
  <1> QED BY <1>6, <1>7, <1>8, <1>9 DEF IInv

(* A record ahead of the stream is buffered, starts or continues the NAKs of
   a gap, or overflows the ring; it is not delivered. *)
LEMMA RecvAheadInv ==
    ASSUME IInv, NEW m \in net, Arrives(m), RecvAhead(m)
    PROVE  IInv'
  <1> USE DEF RecvAhead, senderVars, appVars
  <1>1. m.seq \in 1 .. appended /\ m.seq \in Nat /\ SlotOf(m.seq) \in Slots
    BY NoResync, SlotType DEF IInv, TypeOK
  <1>2. net' \subseteq net
    BY DEF Consume
  <1>3. highestSeen' \in Nat
    BY <1>1 DEF IInv, TypeOK, Larger
  <1>4. Position'
    BY DEF IInv, Position
  <1>5. CASE reorder[SlotOf(m.seq)] \in {0, m.seq}
    <2>1. /\ naks' \subseteq [from : Nat, count : Nat]
          /\ nakSent' \subseteq Slots
          /\ retries' \in Nat
          /\ fault' \in [on : BOOLEAN, last : Nat, from : Nat, to : Nat]
          /\ fault' = fault \/ (fault'.on /\ fault'.last = expected - 1)
      BY <1>3, <1>5, MaybeNakEffect DEF IInv, TypeOK, Position
    <2>2. /\ reorder' \in [Slots -> Nat]
          /\ \A slot \in Slots : reorder'[slot] <= appended
      BY <1>1, <1>5 DEF IInv, TypeOK, KnownRecords
    <2>3. polling' \in BOOLEAN
      BY <2>1, <1>5
    <2>4. TypeOK'
      BY <1>2, <1>3, <1>5, <2>1, <2>2, <2>3 DEF IInv, TypeOK
    <2>5. KnownRecords'
      BY <1>2, <2>2 DEF IInv, KnownRecords
    <2>6. Sticky'
      BY <1>5, <2>1 DEF IInv, Sticky, Position, TypeOK
    <2> QED BY <1>4, <2>4, <2>5, <2>6 DEF IInv
  <1>6. CASE reorder[SlotOf(m.seq)] \notin {0, m.seq}
    <2>0. expected - 1 \in Nat
      BY DEF IInv, TypeOK, Position
    <2>1. reconnect' \in [on : BOOLEAN, last : Nat] /\ reconnect'.last = expected - 1
      <3>1. reconnect' = [on |-> TRUE, last |-> expected - 1]
        BY <1>6
      <3> HIDE DEF RecvAhead
      <3> QED BY <2>0, <3>1
    <2>2. TypeOK'
      BY <1>2, <1>3, <1>6, <2>1, Zenon DEF IInv, TypeOK, gapVars
    <2>3. KnownRecords'
      BY <1>2, <1>6 DEF IInv, KnownRecords
    <2>4. Sticky'
      BY <1>6, <2>1 DEF IInv, Sticky, Position, TypeOK, gapVars
    <2> QED BY <1>4, <2>2, <2>3, <2>4 DEF IInv
  <1> QED BY <1>5, <1>6

(* The ring is drained in sequence: only the expected record is delivered. *)
LEMMA DrainInv == IInv /\ Drain => IInv'
  <1> SUFFICES ASSUME IInv, Drain PROVE IInv'
    OBVIOUS
  <1> USE DEF Drain, senderVars
  <1>1. SlotOf(expected) \in Slots /\ expected # 0
    <2>1. expected \in Nat /\ expected # 0
      BY DEF IInv, TypeOK, Position
    <2> QED BY <2>1, SlotType
  <1>2. CASE reorder[SlotOf(expected)] = expected
    <2>1. expected <= appended /\ Deliver(expected)
      BY <1>1, <1>2 DEF IInv, KnownRecords
    <2>2. /\ tip' = expected /\ applied' = 1 .. expected
          /\ applied' \in SUBSET (1 .. MaxSeq)
          /\ twice' \in SUBSET applied'
      BY <2>1, DeliverExpected
    <2>3. /\ reorder' \in [Slots -> Nat]
          /\ \A slot \in Slots : reorder'[slot] <= appended
      BY <1>1, <1>2 DEF IInv, TypeOK, KnownRecords
    <2>4. /\ expected' = expected + 1 /\ expected' \in Nat /\ tip' \in Nat
          /\ nakSent' \subseteq Slots /\ retries' \in Nat
      BY <1>1, <1>2, <2>2 DEF IInv, TypeOK
    <2>5. polling' \in BOOLEAN /\ ~polling'
      BY Zenon
    <2>6. TypeOK'
      BY <2>2, <2>3, <2>4, <2>5 DEF IInv, TypeOK
    <2>7. KnownRecords'
      BY <2>3 DEF IInv, KnownRecords
    <2>8. Position'
      BY <2>1, <2>2, <2>4 DEF IInv, TypeOK, Position
    <2>9. Sticky'
      BY <2>2 DEF IInv, TypeOK, Sticky
    <2> QED BY <2>6, <2>7, <2>8, <2>9 DEF IInv
  <1>3. CASE reorder[SlotOf(expected)] # expected
    BY <1>3, Zenon DEF IInv, TypeOK, KnownRecords, Position, Sticky, appVars
  <1> QED BY <1>2, <1>3

(* Replay starts at the reported record or the one after it and goes on
   without a hole, so what is applied stays a prefix of the stream. *)
LEMMA HandleReplayInv == IInv /\ HandleReplay => IInv'
  <1> SUFFICES ASSUME IInv, HandleReplay PROVE IInv'
    OBVIOUS
  <1> USE DEF HandleReplay, ResetAfterReplay, senderVars
  <1> DEFINE newTip == Larger(ReportedLast, flushed)
             replayed == ReportedLast + 1 .. flushed
  <1>1. /\ ReportedLast \in Nat
        /\ tip \in {ReportedLast, ReportedLast + 1}
    BY DEF IInv, TypeOK, Sticky, ReportedLast
  <1>2. flushed \in Nat /\ flushed <= appended /\ appended <= MaxSeq /\ appended \in Nat
    BY CastAssumption DEF IInv, TypeOK
  <1>3. tip' = IF flushed > tip THEN flushed ELSE tip
    <2>1. CASE replayed = {}
      <3>1. flushed <= ReportedLast
        BY <1>1, <1>2, <2>1
      <3> QED BY <1>1, <1>2, <2>1, <3>1 DEF IInv, TypeOK
    <2>2. CASE replayed # {}
      BY <1>2, <2>2 DEF IInv, TypeOK, Larger
    <2> QED BY <2>1, <2>2
  <1>4. tip' \in Nat /\ tip' <= appended
    BY <1>2, <1>3 DEF IInv, TypeOK, Position
  <1>5. newTip \in Nat /\ tip' \in {newTip, newTip + 1}
    BY <1>1, <1>2, <1>3 DEF Larger
  <1>6. applied' = 1 .. tip'
    <2>1. applied' = (1 .. tip) \cup replayed
      BY DEF IInv, Position
    <2> QED BY <1>1, <1>2, <1>3, <2>1 DEF IInv, TypeOK
  <1>7. applied' \in SUBSET (1 .. MaxSeq) /\ twice' \in SUBSET applied'
    <2>1. applied' \in SUBSET (1 .. MaxSeq)
      BY <1>2, <1>4, <1>6, CastAssumption
    <2>2. twice' \in SUBSET applied'
      BY Zenon DEF IInv, TypeOK
    <2> QED BY <2>1, <2>2
  <1>8. TypeOK'
    <2>1. /\ fault' \in [on : BOOLEAN, last : Nat, from : Nat, to : Nat]
          /\ reconnect' \in [on : BOOLEAN, last : Nat]
      BY DEF NoFault, NoReconnect
    <2>2. reorder' \in [Slots -> Nat] /\ nakSent' \subseteq Slots /\ retries' \in Nat
      BY DEF EmptyRing
    <2>3. expected' \in Nat /\ highestSeen' \in Nat
      BY <1>5 DEF IInv, TypeOK, Larger
    <2> HIDE DEF newTip, replayed
    <2> QED BY <1>4, <1>7, <2>1, <2>2, <2>3 DEF IInv, TypeOK
  <1>9. KnownRecords'
    BY <1>2 DEF IInv, KnownRecords, EmptyRing
  <1>10. Position'
    BY <1>4, <1>5, <1>6 DEF IInv, Position
  <1>11. Sticky'
    BY DEF IInv, Sticky, NoFault, NoReconnect
  <1> QED BY <1>8, <1>9, <1>10, <1>11 DEF IInv

-----------------------------------------------------------------------------
(* IInv is inductive. *)
LEMMA NextInv == IInv /\ [Next]_vars => IInv'
  <1> SUFFICES ASSUME IInv, [Next]_vars PROVE IInv'
    OBVIOUS
  <1>1. CASE Publish
    BY <1>1, PublishInv
  <1>2. CASE Flush
    BY <1>2, FlushInv
  <1>3. CASE Tick
    BY <1>3, TickInv
  <1>4. CASE \E nak \in naks : HandleNak(nak) \/ LoseNak(nak)
    BY <1>4, HandleNakInv, LoseNakInv
  <1>5. CASE BeginPoll
    BY <1>5, BeginPollInv
  <1>6. CASE \E m \in net :
                \/ Lose(m)
                \/ /\ Arrives(m)
                   /\ \/ RecvHeartbeat(m) \/ RecvStale(m)
                      \/ RecvInOrder(m) \/ RecvAhead(m)
    BY <1>6, LoseInv, RecvHeartbeatInv, RecvStaleInv, RecvInOrderInv, RecvAheadInv
  <1>7. CASE Drain
    BY <1>7, DrainInv
  <1>8. CASE HandleReplay
    BY <1>8, HandleReplayInv
  <1>9. CASE UNCHANGED vars
    BY <1>9 DEF IInv, TypeOK, KnownRecords, Position, Sticky, vars, senderVars,
                appVars, gapVars
  <1> QED BY <1>1, <1>2, <1>3, <1>4, <1>5, <1>6, <1>7, <1>8, <1>9
          DEF Next, Transport

(* The types of the transport's state are preserved by every step. *)
THEOREM TypeCorrect == Spec => []TypeOK
  <1>1. IInv => TypeOK
    BY DEF IInv
  <1> QED BY <1>1, InitInv, NextInv, PTL DEF Spec

(* Whatever the network loses, duplicates, delays or reorders, and however
   often the receiver faults or overflows, the application has applied an
   unbroken prefix of the stream (try_recv_with and handle_replay). *)
THEOREM NeverSkips == Spec => []NoSilentSkip
  <1>1. IInv => NoSilentSkip
    BY DEF IInv, Position, NoSilentSkip
  <1> QED BY <1>1, InitInv, NextInv, PTL DEF Spec

(* The position FAULTED or RECONNECT reports is at most one record behind
   what the application has applied, and never ahead of it. *)
THEOREM ReportsDelivered == Spec => []ReportedIsDelivered
  <1>1. IInv => ReportedIsDelivered
    BY DEF IInv, Sticky, ReportedIsDelivered, ReportedLast
  <1> QED BY <1>1, InitInv, NextInv, PTL DEF Spec
=============================================================================
