-------------------------------- MODULE Cast --------------------------------
(***************************************************************************)
(* The casting transport of rsx-cast: one CastSender publishing the        *)
(* records of its WAL over UDP, one CastReceiver delivering them in order. *)
(*                                                                         *)
(* A record is its sequence number.  The network may lose, duplicate,      *)
(* delay and reorder datagrams.  Clocks are abstracted: a heartbeat is     *)
(* sent at any time, and whether a debounce window has elapsed is a        *)
(* choice.  What the application does with FAULTED and RECONNECT is left   *)
(* to CastReplay (replay over TCP) and CastOrders (skip the gap), which    *)
(* extend this module.                                                     *)
(***************************************************************************)
EXTENDS Naturals, FiniteSets

CONSTANTS
    FirstExpected,  \* expected_seq at start: 0 = synchronise on first packet
    MaxSeq,         \* records the sender publishes (bounds the run)
    SendRingCap,    \* SEND_RING_CAPACITY
    ReorderCap,     \* REORDER_CAPACITY
    MaxNakRetries,  \* CastConfig::max_nak_retries
    ResyncGap,      \* "expected_seq - seq > 100": sender reset detected
    MaxDelay,       \* how far behind the stream a datagram can arrive
    NetCap,         \* datagrams in flight to the receiver (bounds the run)
    NakCap,         \* NAKs in flight to the sender (bounds the run)
    Oversize,       \* records whose frame exceeds SEND_RING_FRAME_BYTES
    SendFails       \* TRUE iff socket.send_to may return an error

ASSUME CastAssumption ==
    /\ FirstExpected \in {0, 1}
    /\ MaxSeq \in Nat
    /\ SendRingCap \in Nat \ {0}
    /\ ReorderCap \in Nat \ {0}
    /\ MaxNakRetries \in Nat
    /\ ResyncGap \in Nat
    /\ MaxDelay \in Nat
    /\ NetCap \in Nat
    /\ NakCap \in Nat
    /\ Oversize \subseteq Nat
    /\ SendFails \in BOOLEAN

VARIABLES
    \* the paired WalWriter and CastSender
    appended,       \* WalWriter.next_seq - 1
    flushed,        \* records the WAL file holds
    nextSeq,        \* CastSender.next_seq
    ringSeqs,       \* CastSender.ring_seqs, 0 = empty slot
    \* datagrams in flight
    net,            \* towards the receiver: data and heartbeats
    naks,           \* towards the sender
    \* CastReceiver
    expected,       \* expected_seq, 0 = not synchronised yet
    highestSeen,    \* highest_seen
    reorder,        \* reorder_seqs, 0 = empty slot
    nakSent,        \* slots whose nak_sent_at is not 0
    retries,        \* nak_retries_on_oldest
    fault,          \* faulted and the fault_* fields
    reconnect,      \* needs_reconnect and reconnect_last_delivered_seq
    polling,        \* a try_recv_with call is in its receive loop
    \* the application behind the receiver
    applied,        \* records applied at least once
    twice,          \* records applied more than once
    tip             \* highest record applied

senderVars == <<appended, flushed, nextSeq, ringSeqs>>
gapVars == <<nakSent, retries, fault>>
appVars == <<applied, twice, tip>>
vars == <<senderVars, net, naks, expected, highestSeen, reorder, gapVars,
          reconnect, polling, appVars>>

Data(s) == [t |-> "data", seq |-> s]
Heartbeat(s) == [t |-> "hb", seq |-> s]

SendSlots == 0 .. SendRingCap - 1
Slots == 0 .. ReorderCap - 1
SlotOf(s) == s % ReorderCap

EmptyRing == [s \in Slots |-> 0]
NoFault == [on |-> FALSE, last |-> 0, from |-> 0, to |-> 0]
NoReconnect == [on |-> FALSE, last |-> 0]

Larger(a, b) == IF a < b THEN b ELSE a
Smaller(a, b) == IF a < b THEN a ELSE b

(* CastReceiver::new starts at expected_seq 0 and synchronises on the first
   data packet; a consumer that knows its tip calls reset_after_replay(tip)
   first, here with tip 0. *)
Init ==
    /\ appended = 0 /\ flushed = 0 /\ nextSeq = 1
    /\ ringSeqs = [s \in SendSlots |-> 0]
    /\ net = {} /\ naks = {}
    /\ expected = FirstExpected /\ highestSeen = 0
    /\ reorder = EmptyRing
    /\ nakSent = {} /\ retries = 0
    /\ fault = NoFault /\ reconnect = NoReconnect
    /\ polling = FALSE
    /\ applied = {} /\ twice = {} /\ tip = 0

-----------------------------------------------------------------------------
(* Sender. *)

(* What reaches the network of the datagrams `ms`: any part of them. *)
Transmit(ms) ==
    \E sent \in SUBSET ms :
        /\ Cardinality(net \cup sent) <= NetCap
        /\ net' = net \cup sent

(* The slot is written before the send; a send error returns before the
   sender's counter moves. *)
SendFramed(s) ==
    /\ ringSeqs' = [ringSeqs EXCEPT ![s % SendRingCap] =
                        IF s \in Oversize THEN 0 ELSE s]
    /\ \/ /\ Transmit({Data(s)})
          /\ nextSeq' = s + 1
       \/ /\ SendFails
          /\ UNCHANGED <<net, nextSeq>>

(* fan_out: append to the WAL buffer, then cast. *)
Publish ==
    /\ appended < MaxSeq
    /\ appended' = appended + 1
    /\ SendFramed(appended + 1)
    /\ UNCHANGED <<flushed, naks, expected, highestSeen, reorder, gapVars,
                   reconnect, polling, appVars>>

Flush ==
    /\ flushed < appended
    /\ flushed' = appended
    /\ UNCHANGED <<appended, nextSeq, ringSeqs, net, naks, expected,
                   highestSeen, reorder, gapVars, reconnect, polling, appVars>>

Tick ==
    /\ Transmit({Heartbeat(nextSeq - 1)})
    /\ UNCHANGED <<senderVars, naks, expected, highestSeen, reorder, gapVars,
                   reconnect, polling, appVars>>

(* The records of a NAK the sender can answer: from the send ring, or from
   the WAL file. *)
Retransmittable(nak) ==
    {s \in nak.from .. nak.from + Smaller(nak.count, SendRingCap) - 1 :
        s # 0 /\ (ringSeqs[s % SendRingCap] = s \/ s <= flushed)}

(* A retransmit within retx_dedup_window of the last one is skipped and a
   send may fail, so any part of them goes out. *)
HandleNak(nak) ==
    /\ naks' = naks \ {nak}
    /\ Transmit({Data(s) : s \in Retransmittable(nak)})
    /\ UNCHANGED <<senderVars, expected, highestSeen, reorder, gapVars,
                   reconnect, polling, appVars>>

(* A heartbeat is lost when it is sent, a data packet also later. *)
Lose(m) ==
    /\ m.t = "data"
    /\ net' = net \ {m}
    /\ UNCHANGED <<senderVars, naks, expected, highestSeen, reorder, gapVars,
                   reconnect, polling, appVars>>

LoseNak(nak) ==
    /\ naks' = naks \ {nak}
    /\ UNCHANGED <<senderVars, net, expected, highestSeen, reorder, gapVars,
                   reconnect, polling, appVars>>

-----------------------------------------------------------------------------
(* Receiver.  A call of try_recv_with enters its loop unless a sticky state
   is returned; each datagram is one iteration; the call ends with a
   delivery, a sticky state, or WouldBlock. *)

BeginPoll ==
    /\ ~polling /\ ~reconnect.on /\ ~fault.on
    /\ polling' = TRUE
    /\ UNCHANGED <<senderVars, net, naks, expected, highestSeen, reorder,
                   gapVars, reconnect, appVars>>

(* A datagram is consumed, or a copy of it stays in flight. *)
Consume(m) == net' \in {net, net \ {m}}

(* oldest_missing_run: how many records are missing from `exp` on. *)
MissingRun(exp, hs, ring) ==
    LET upper == Smaller(hs, exp + ReorderCap)
    IN  IF exp = 0 THEN 0
        ELSE Cardinality({s \in exp .. upper :
                             \A r \in exp .. s : ring[SlotOf(r)] # r})

(* Mutant: reports the missing record as the last one delivered. *)
SendNakReportingGap(exp, run) ==
    /\ naks' \in {naks, naks \cup {[from |-> exp, count |-> run]}}
    /\ Cardinality(naks') <= NakCap
    /\ nakSent' = nakSent \cup {SlotOf(exp)}
    /\ retries' = retries + 1
    /\ fault' = IF retries + 1 > MaxNakRetries
                THEN [on |-> TRUE, last |-> exp,
                      from |-> exp, to |-> exp + run - 1]
                ELSE fault

(* The NAK is sent (it may be lost), and the retry budget may be spent.
   fault() is entered only when not faulted yet. *)
SendNak(exp, run) ==
    /\ naks' \in {naks, naks \cup {[from |-> exp, count |-> run]}}
    /\ Cardinality(naks') <= NakCap
    /\ nakSent' = nakSent \cup {SlotOf(exp)}
    /\ retries' = retries + 1
    /\ fault' = IF retries + 1 > MaxNakRetries
                THEN [on |-> TRUE, last |-> exp - 1,
                      from |-> exp, to |-> exp + run - 1]
                ELSE fault

(* The first NAK of a gap is sent at once, a later one only once the
   debounce window has elapsed. *)
MaybeNak(exp, hs, ring) ==
    LET run == MissingRun(exp, hs, ring)
    IN  IF fault.on \/ reconnect.on \/ run = 0
        THEN UNCHANGED <<naks, gapVars>>
        ELSE \/ SendNak(exp, run)
             \/ SlotOf(exp) \in nakSent /\ UNCHANGED <<naks, gapVars>>

(* Mutant: a heartbeat does not raise highest_seen. *)
RecvHeartbeatIgnored(m) ==
    /\ polling /\ m.t = "hb"
    /\ Consume(m)
    /\ MaybeNak(expected, highestSeen, reorder)
    /\ UNCHANGED <<senderVars, expected, highestSeen, reorder, reconnect,
                   polling, appVars>>

(* After a heartbeat the loop goes on without looking at `faulted`. *)
RecvHeartbeat(m) ==
    /\ polling /\ m.t = "hb"
    /\ Consume(m)
    /\ highestSeen' = Larger(highestSeen, m.seq)
    /\ MaybeNak(expected, highestSeen', reorder)
    /\ UNCHANGED <<senderVars, expected, reorder, reconnect, polling, appVars>>

(* The application handles record s inside the delivery callback. *)
Deliver(s) ==
    /\ applied' = applied \cup {s}
    /\ twice' = twice \cup ({s} \cap applied)
    /\ tip' = Larger(tip, s)

(* Expected sequence number and reorder ring once the first packet or a
   sender reset has synchronised the receiver on s. *)
IsReset(s) == s < expected /\ expected - s > ResyncGap
SyncedSeq(s) == IF expected = 0 \/ IsReset(s) THEN s ELSE expected
SyncedRing(s) == IF IsReset(s) THEN EmptyRing ELSE reorder

RecvStale(m) ==
    /\ polling /\ m.t = "data"
    /\ m.seq < SyncedSeq(m.seq)
    /\ Consume(m)
    /\ UNCHANGED <<senderVars, naks, expected, highestSeen, reorder, gapVars,
                   reconnect, polling, appVars>>

(* The reorder slot of a record delivered off the wire is left as it is. *)
RecvInOrder(m) ==
    /\ polling /\ m.t = "data"
    /\ m.seq = SyncedSeq(m.seq)
    /\ Consume(m)
    /\ Deliver(m.seq)
    /\ expected' = m.seq + 1
    /\ highestSeen' = Larger(highestSeen, m.seq)
    /\ reorder' = SyncedRing(m.seq)
    /\ nakSent' = nakSent \ {SlotOf(m.seq)}
    /\ retries' = 0
    /\ polling' = FALSE
    /\ UNCHANGED <<senderVars, naks, fault, reconnect>>

(* A record ahead of the stream is buffered; another record in its slot is
   a ring overflow. *)
RecvAhead(m) ==
    /\ polling /\ m.t = "data"
    /\ m.seq > SyncedSeq(m.seq)
    /\ Consume(m)
    /\ highestSeen' = Larger(highestSeen, m.seq)
    /\ IF reorder[SlotOf(m.seq)] \in {0, m.seq}
       THEN /\ reorder' = [reorder EXCEPT ![SlotOf(m.seq)] = m.seq]
            /\ MaybeNak(expected, highestSeen', reorder')
            /\ polling' = ~fault'.on
            /\ UNCHANGED reconnect
       ELSE /\ reconnect' = [on |-> TRUE, last |-> expected - 1]
            /\ polling' = FALSE
            /\ UNCHANGED <<naks, reorder, gapVars>>
    /\ UNCHANGED <<senderVars, expected, appVars>>

(* Mutant: delivers whatever record the slot holds. *)
DrainAnySeq ==
    /\ polling
    /\ polling' = FALSE
    /\ LET slot == SlotOf(expected)
       IN  IF expected # 0 /\ reorder[slot] # 0
           THEN /\ Deliver(reorder[slot])
                /\ reorder' = [reorder EXCEPT ![slot] = 0]
                /\ nakSent' = nakSent \ {slot}
                /\ expected' = expected + 1
                /\ retries' = 0
           ELSE UNCHANGED <<reorder, nakSent, expected, retries, appVars>>
    /\ UNCHANGED <<senderVars, net, naks, highestSeen, fault, reconnect>>

(* WouldBlock: deliver the next record if the ring holds it. *)
Drain ==
    /\ polling
    /\ polling' = FALSE
    /\ LET slot == SlotOf(expected)
       IN  IF expected # 0 /\ reorder[slot] = expected
           THEN /\ Deliver(expected)
                /\ reorder' = [reorder EXCEPT ![slot] = 0]
                /\ nakSent' = nakSent \ {slot}
                /\ expected' = expected + 1
                /\ retries' = 0
           ELSE UNCHANGED <<reorder, nakSent, expected, retries, appVars>>
    /\ UNCHANGED <<senderVars, net, naks, highestSeen, fault, reconnect>>

(* reset_after_replay(newTip): clears both sticky states. *)
ResetAfterReplay(newTip) ==
    /\ fault' = NoFault /\ reconnect' = NoReconnect
    /\ retries' = 0 /\ nakSent' = {}
    /\ expected' = newTip + 1
    /\ highestSeen' = Larger(highestSeen, newTip)
    /\ reorder' = EmptyRing

(* The network delivers nothing further behind the stream than MaxDelay. *)
Arrives(m) == m.t = "data" => m.seq + MaxDelay >= expected

Transport ==
    \/ Publish \/ Flush \/ Tick
    \/ \E nak \in naks : HandleNak(nak) \/ LoseNak(nak)
    \/ BeginPoll
    \/ \E m \in net :
        \/ Lose(m)
        \/ /\ Arrives(m)
           /\ RecvHeartbeat(m) \/ RecvStale(m) \/ RecvInOrder(m) \/ RecvAhead(m)
    \/ Drain

-----------------------------------------------------------------------------
TypeOK ==
    /\ appended \in 0 .. MaxSeq
    /\ flushed \in 0 .. appended
    /\ nextSeq \in Nat \ {0}
    /\ ringSeqs \in [SendSlots -> Nat]
    /\ net \subseteq [t : {"data", "hb"}, seq : Nat]
    /\ naks \subseteq [from : Nat, count : Nat]
    /\ expected \in Nat
    /\ highestSeen \in Nat
    /\ reorder \in [Slots -> Nat]
    /\ nakSent \subseteq Slots
    /\ retries \in Nat
    /\ fault \in [on : BOOLEAN, last : Nat, from : Nat, to : Nat]
    /\ reconnect \in [on : BOOLEAN, last : Nat]
    /\ polling \in BOOLEAN
    /\ applied \in SUBSET (1 .. MaxSeq)
    /\ twice \in SUBSET applied
    /\ tip \in Nat
=============================================================================
