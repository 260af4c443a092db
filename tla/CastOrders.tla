----------------------------- MODULE CastOrders -----------------------------
(***************************************************************************)
(* The casting transport as the matching engine uses it for the orders and *)
(* cancels of the risk shard: a FAULTED gap is skipped, not replayed.      *)
(* Lost orders are recovered by the client, which sends them again.        *)
(***************************************************************************)
EXTENDS Cast

(* No datagram is so late that the receiver takes it for a sender reset. *)
ASSUME OrdersAssumption == MaxDelay <= ResyncGap

(* Mutant: resumes before the gap. *)
ResumeAtGap ==
    /\ ~polling /\ ~reconnect.on /\ fault.on
    /\ ResetAfterReplay(fault.last)
    /\ UNCHANGED <<senderVars, net, naks, polling, appVars>>

(* The loop's reaction to FAULTED: resume after the gap. *)
SkipGap ==
    /\ ~polling /\ ~reconnect.on /\ fault.on
    /\ ResetAfterReplay(fault.to)
    /\ UNCHANGED <<senderVars, net, naks, polling, appVars>>

(* The loop's reaction to RECONNECT: an idle spin. *)
IdleSpin ==
    /\ ~polling /\ reconnect.on
    /\ UNCHANGED vars

Next == Transport \/ SkipGap \/ IdleSpin

Spec == Init /\ [][Next]_vars

(* As for CastReplay: heartbeats get through, data packets and NAKs need not,
   and the matching loop polls on every spin. *)
HeartbeatSent == Tick /\ Heartbeat(nextSeq - 1) \in net'

HeartbeatHeard ==
    /\ \E m \in net : RecvHeartbeat(m) /\ m \notin net'
    /\ MissingRun(expected, highestSeen', reorder) > 0 => retries' > retries

FlightEnds == \E m \in net : Lose(m)

Fairness ==
    /\ SF_vars(HeartbeatSent) /\ SF_vars(HeartbeatHeard) /\ WF_vars(FlightEnds)
    /\ WF_vars(BeginPoll) /\ WF_vars(Drain) /\ WF_vars(SkipGap)

FairSpec == Spec /\ Fairness

-----------------------------------------------------------------------------
(* Orders and cancels reach the engine at most once and in the order they
   were sent: every delivery is of a record later than all delivered so far,
   through late duplicates, retransmissions, buffered packets and skips. *)
EachOnceInOrder == [][applied' # applied \/ twice' # twice => tip' > tip]_vars

(* Once synchronised, the stream gets past every record the sender has cast,
   by delivery or by skipping it, unless the receiver is in RECONNECT. *)
StreamAdvances ==
    \A s \in 1 .. MaxSeq :
        expected # 0 /\ nextSeq > s ~> expected > s \/ reconnect.on

(* RECONNECT is left again. *)
ReconnectEnds == reconnect.on ~> ~reconnect.on
=============================================================================
