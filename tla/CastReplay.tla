----------------------------- MODULE CastReplay -----------------------------
(***************************************************************************)
(* The casting transport with a consumer that recovers a FAULTED or        *)
(* RECONNECT receiver by TCP replay from the producer's WAL: the risk      *)
(* shard on its matching-engine streams, the gateway and marketdata.       *)
(***************************************************************************)
EXTENDS Cast

(* The risk shard resumes its receivers at tip + 1 (cast_loop.rs, bind), and
   no datagram is so late that the receiver takes it for a sender reset. *)
ASSUME ReplayAssumption ==
    /\ FirstExpected = 1
    /\ MaxDelay <= ResyncGap

(* The last_delivered_seq the sticky state reports. *)
ReportedLast == IF reconnect.on THEN reconnect.last ELSE fault.last

(* Replay everything the WAL file holds past the reported position, then
   resume at the highest sequence number replayed, or at the reported
   position when there was nothing.  The server refuses only when its WAL
   is empty; the consumer asks again. *)
HandleReplay ==
    /\ ~polling
    /\ reconnect.on \/ fault.on
    /\ flushed > 0
    /\ LET replayed == ReportedLast + 1 .. flushed
       IN  /\ applied' = applied \cup replayed
           /\ twice' = twice \cup (replayed \cap applied)
           /\ tip' = IF replayed = {} THEN tip ELSE Larger(tip, flushed)
    /\ ResetAfterReplay(Larger(ReportedLast, flushed))
    /\ UNCHANGED <<senderVars, net, naks, polling>>

Next == Transport \/ HandleReplay

Spec == Init /\ [][Next]_vars

(* Heartbeats sent again and again reach the receiver again and again, also
   when the NAK debounce has elapsed, and no data packet stays in flight for
   ever.  Nothing else is assumed of data packets or NAKs. *)
HeartbeatSent == Tick /\ Heartbeat(nextSeq - 1) \in net'

HeartbeatHeard ==
    /\ \E m \in net : RecvHeartbeat(m) /\ m \notin net'
    /\ MissingRun(expected, highestSeen', reorder) > 0 => retries' > retries

FlightEnds == \E m \in net : Lose(m)

(* The matching loop flushes and ticks on every spin, the consumer polls on
   every spin and handles a sticky state as soon as a call returns it. *)
Fairness ==
    /\ WF_vars(Flush) /\ SF_vars(HeartbeatSent) /\ SF_vars(HeartbeatHeard)
    /\ WF_vars(FlightEnds) /\ WF_vars(BeginPoll) /\ WF_vars(Drain)
    /\ WF_vars(HandleReplay)

FairSpec == Spec /\ Fairness

-----------------------------------------------------------------------------
(* No silent skip: when the application has applied record n it has applied
   every record before n, whatever was lost, duplicated or reordered, and
   whether the gap was closed by a NAK, the reorder ring or TCP replay. *)
NoSilentSkip == applied = 1 .. tip

(* The position a sticky state reports is the last record applied or the one
   before it: recovery skips nothing, and re-applies at most the one record
   delivered in the same try_recv_with call that entered FAULTED. *)
ReportedIsDelivered ==
    fault.on \/ reconnect.on => tip \in {ReportedLast, ReportedLast + 1}

(* Every flushed record that a heartbeat announces is applied in the end, even
   when every data packet and every NAK is lost.  A record whose send_to
   failed is announced once a later one was sent. *)
EventuallyApplied ==
    \A s \in 1 .. MaxSeq : s <= flushed /\ s < nextSeq ~> s \in applied
=============================================================================
