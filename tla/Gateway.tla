------------------------------- MODULE Gateway -------------------------------
(***************************************************************************)
(* The gateway: client sessions, the main loop that routes risk's answers  *)
(* and does the housekeeping, and the way out on a signal.  All run on one *)
(* reactor thread: a step here is what runs between two awaits.            *)
(*                                                                         *)
(* One user; its orders are numbered in the order they are minted.  Risk   *)
(* is external: it answers an order it was sent, or never does, and any    *)
(* answer may be lost on the way (a gap that replay could not fill).       *)
(***************************************************************************)
EXTENDS GatewayOrders

CONSTANTS
  Conns,        \* connections the user may hold
  MaxOrders,    \* orders minted
  MaxFills,     \* fills risk reports
  MaxRing,      \* answers under way at a time
  MaxUnsent,    \* sends that fail
  MaxTime,      \* the clock stops here
  LastSubmit,   \* no order is sent after this, so that each can time out
  Timeout,      \* order_timeout_ns
  SweepEvery,   \* PENDING_SWEEP_INTERVAL_NS
  CloseGrace,   \* CLOSE_GRACE_NS
  MaxOutbound,  \* max_outbound
  BeatEvery,    \* heartbeat_interval_ns
  MaxSessions   \* sessions the client opens

ASSUME GatewayAssumption ==
  /\ Timeout \in Nat /\ SweepEvery \in Nat \ {0} /\ CloseGrace \in Nat
  /\ MaxOutbound \in Nat \ {0}
  /\ LastSubmit + Timeout + SweepEvery < MaxTime

VARIABLES
  now, stop,              \* the clock, and the shutdown flag
  phase, phaseEnds,       \* Phase, phase_ends_ns
  lastSweep, lastBeat,    \* last_pending_sweep, last_heartbeat_ns
  pending, ids, circuit, tokens,
  conns, opened,          \* the sessions, and how many so far
  risk, ring, fills,      \* external: risk's orders, answers under way
  sent, answered, failed  \* history: orders forwarded; answered; failed

clock == <<now, stop>>
loop == <<phase, phaseEnds, lastSweep, lastBeat, opened>>
external == <<risk, ring, fills>>
vars == <<clock, loop, pending, ids, circuit, tokens, conns, external,
          sent, answered, failed>>

-----------------------------------------------------------------------------
(* A session: outbound is what producers queued, writing what the session  *)
(* drained and has not written, pending the sticky bit of its EgressWaker. *)
(* due is history: what the client was owed since it connected and has not *)
(* been sent.                                                              *)

NoSession == [at |-> "down", outbound |-> <<>>, writing |-> <<>>, wake |-> FALSE,
              due |-> <<>>]

Heartbeat == [kind |-> "heartbeat", oid |-> 0]

Up(c) == conns[c].at # "down"

\* Mutant of QueueOutbound: the wake is not sticky.
QueueOutboundParked(s, msg) ==
  IF s.at = "down" THEN s
  ELSE IF Len(s.outbound) >= MaxOutbound THEN NoSession
  ELSE [s EXCEPT !.outbound = Append(@, msg), !.due = Append(@, msg),
                 !.wake = s.at = "wait"]

\* queue_outbound, and queue_where closing the one that is full.
QueueOutbound(s, msg) ==
  IF s.at = "down" THEN s
  ELSE IF Len(s.outbound) >= MaxOutbound THEN NoSession
  ELSE [s EXCEPT !.outbound = Append(@, msg), !.due = Append(@, msg), !.wake = TRUE]

PushToUser(cs, msg) == [c \in Conns |-> QueueOutbound(cs[c], msg)]

\* QueueOutbound of one message after another: the one that finds the queue
\* full closes the session.
QueueAll(s, msgs) ==
  IF s.at = "down" \/ msgs = <<>> THEN s
  ELSE IF Len(s.outbound) + Len(msgs) > MaxOutbound THEN NoSession
  ELSE [s EXCEPT !.outbound = @ \o msgs, !.due = @ \o msgs, !.wake = TRUE]

PushAll(cs, msgs) == [c \in Conns |-> QueueAll(cs[c], msgs)]

Init ==
  /\ now = 0 /\ stop = FALSE
  /\ phase = "Serving" /\ phaseEnds = 0 /\ lastSweep = 0 /\ lastBeat = 0
  /\ pending = NoOrders /\ ids = NoBindings
  /\ circuit = ClosedCircuit /\ tokens = Burst
  /\ conns = [c \in Conns |-> NoSession] /\ opened = 0
  /\ risk = <<>> /\ ring = <<>> /\ fills = 0
  /\ sent = <<>> /\ answered = {} /\ failed = {}

Running == phase # "Exited"

-----------------------------------------------------------------------------
(* The client's side of a session.                                         *)

\* The top of the session's loop, up to its first await: what is queued is
\* drained to be written; with nothing to write a closing gateway sends close
\* 1001 and ends the session, and any other waits for a frame or a wake.
Resumed(s) ==
  IF s.outbound # <<>>
  THEN [s EXCEPT !.at = "write", !.writing = s.outbound, !.outbound = <<>>]
  ELSE IF phase = "Closing" THEN NoSession ELSE [s EXCEPT !.at = "wait"]

\* A handshake that ends opens the session with a heartbeat queued; one that
\* was under way when accepting stopped may still end.
AddConnection(c) ==
  /\ Running /\ ~Up(c) /\ opened < MaxSessions
  /\ opened' = opened + 1
  /\ conns' = [conns EXCEPT ![c] =
                 Resumed(QueueOutbound([NoSession EXCEPT !.at = "wait"], Heartbeat))]
  /\ UNCHANGED <<clock, phase, phaseEnds, lastSweep, lastBeat, pending, ids, circuit, tokens,
                 external, sent, answered, failed>>

\* The client goes, or a read or a write fails: remove_connection.
EndSession(c) ==
  /\ Running /\ Up(c)
  /\ conns' = [conns EXCEPT ![c] = NoSession]
  /\ UNCHANGED <<clock, loop, pending, ids, circuit, tokens, external, sent, answered, failed>>

\* A write ends.  After the last one the phase is looked at, and what was
\* queued during the writes is not.
Written(s) ==
  LET rest == [s EXCEPT !.writing = Tail(@), !.due = Tail(@)]
  IN IF rest.writing # <<>> THEN rest
     ELSE IF phase = "Closing" THEN NoSession ELSE [rest EXCEPT !.at = "wait"]

WriteMessage(c) ==
  /\ Running /\ conns[c].at = "write"
  /\ conns' = [conns EXCEPT ![c] = Written(@)]
  /\ UNCHANGED <<clock, loop, pending, ids, circuit, tokens, external, sent, answered, failed>>

\* EgressWaker::wait takes the sticky bit.
Wake(c) ==
  /\ Running /\ conns[c].at = "wait" /\ conns[c].wake
  /\ conns' = [conns EXCEPT ![c] = Resumed([@ EXCEPT !.wake = FALSE])]
  /\ UNCHANGED <<clock, loop, pending, ids, circuit, tokens, external, sent, answered, failed>>

\* A frame is read and handled; the session then answers it and drains again.
Handled(c) ==
  /\ Running /\ conns[c].at = "wait"
  /\ conns' = [conns EXCEPT ![c] = Resumed(@)]
  /\ UNCHANGED <<clock, loop, answered, failed>>

\* admit_order: what it decides for an order it would take if valid.
\* Mutant of Duplicate: the cid is looked up among the pending orders.
DuplicatePending(cid) == FindByCid(pending, cid) # None
Duplicate(cid) == ids.bound[cid] # Unbound
Refused == phase # "Serving" \/ IsFull(pending)

\* Mutant of NewOrderRefused: the breaker is asked before the capacity check.
NewOrderRefusedProbes(c, cid) ==
  /\ Refusals(tokens) = {} /\ ~Duplicate(cid) /\ (Refused \/ ~Allows(circuit, now))
  /\ circuit' = AfterAllow(circuit, now)
  /\ tokens' = Spent(tokens)
  /\ UNCHANGED <<pending, ids, sent>>

\* A gateway on its way out, no capacity, or an open breaker.
NewOrderRefused(c, cid) ==
  /\ Refusals(tokens) = {} /\ ~Duplicate(cid) /\ (Refused \/ ~Allows(circuit, now))
  /\ circuit' = IF Refused THEN circuit ELSE AfterAllow(circuit, now)
  /\ tokens' = Spent(tokens)
  /\ UNCHANGED <<pending, ids, sent>>

\* admit_request refuses; a repeated cid; a symbol, tick or lot that fails.
NewOrderRejected(c, cid) ==
  /\ tokens' = Spent(tokens)
  /\ UNCHANGED <<pending, ids, circuit, sent>>

NewOrderUnsent(c, cid) ==
  /\ Refusals(tokens) = {} /\ ~Duplicate(cid) /\ ~Refused /\ Allows(circuit, now)
  /\ circuit.fails < MaxUnsent
  /\ circuit' = RecordFailure(AfterAllow(circuit, now), now)
  /\ tokens' = Spent(tokens)
  /\ UNCHANGED <<pending, ids, sent>>

NewOrderSent(c, cid) ==
  /\ Refusals(tokens) = {} /\ ~Duplicate(cid) /\ ~Refused /\ Allows(circuit, now)
  /\ Len(sent) < MaxOrders /\ now <= LastSubmit
  /\ LET oid == Len(sent) + 1 IN
     /\ sent' = Append(sent, [cid |-> cid, at |-> now])
     /\ pending' = Push(pending, oid, [cid |-> cid, at |-> now, stage |-> "Submitted"])
     /\ ids' = Bind(ids, cid, oid, now)
     /\ circuit' = RecordSuccess(AfterAllow(circuit, now))
     /\ tokens' = Spent(tokens)

NewOrder(c, cid) ==
  /\ \/ NewOrderRejected(c, cid)
     \/ NewOrderRefused(c, cid)
     \/ NewOrderUnsent(c, cid)
  /\ Handled(c)
  /\ UNCHANGED external

NewOrderForwarded(c, cid) ==
  /\ NewOrderSent(c, cid)
  /\ Handled(c)
  /\ risk' = Append(risk, "sent")
  /\ UNCHANGED <<ring, fills>>

\* A cancel spends its tokens, looks the order up by its cid and forwards; it
\* is refused when no order is tracked under that cid.
Cancel(c, cid) ==
  /\ Refusals(tokens) = {} /\ FindByCid(pending, cid) # None
  /\ LET o == FindByCid(pending, cid) IN
     risk' = [risk EXCEPT ![o] = IF @ = "open" THEN "cancelling" ELSE @]
  /\ tokens' = Spent(tokens)
  /\ Handled(c)
  /\ UNCHANGED <<pending, ids, circuit, ring, fills, sent>>

-----------------------------------------------------------------------------
(* External: risk, and the thread that decodes its records into the ring.  *)

\* Risk's next answer for order o, and what the order is after it.
RiskAnswers == {<<"sent", "inserted", "open">>, <<"sent", "failed", "gone">>,
                <<"sent", "done", "gone">>, <<"open", "done", "gone">>,
                <<"open", "fill", "open">>, <<"cancelling", "done", "gone">>}

RiskAnswer(o, a) ==
  /\ Running /\ risk[o] = a[1]
  /\ a[2] = "fill" => fills < MaxFills
  /\ risk' = [risk EXCEPT ![o] = a[3]]
  /\ fills' = IF a[2] = "fill" THEN fills + 1 ELSE fills
  /\ \/ Len(ring) < MaxRing /\ ring' = Append(ring, [kind |-> a[2], oid |-> o])
     \/ UNCHANGED ring
  /\ UNCHANGED <<clock, loop, pending, ids, circuit, tokens, conns, sent, answered, failed>>

-----------------------------------------------------------------------------
(* The main loop.                                                          *)

\* complete_pending and, for a tracked order, the release of its cid.
RouteFailed(o) ==
  /\ pending' = RemoveOrder(pending, o)
  /\ ids' = IF Tracked(pending, o) THEN Release(ids, pending.orders[o].cid, o) ELSE ids

RouteEvent ==
  /\ Running /\ ring # <<>>
  /\ LET e == Head(ring) IN
     /\ \/ e.kind = "inserted" /\ pending' = MarkResting(pending, e.oid) /\ UNCHANGED ids
        \/ e.kind = "done" /\ pending' = RemoveOrder(pending, e.oid) /\ UNCHANGED ids
        \/ e.kind = "failed" /\ RouteFailed(e.oid)
        \/ e.kind = "fill" /\ UNCHANGED <<pending, ids>>
     /\ conns' = PushToUser(conns, e)
     /\ answered' = IF e.kind = "fill" THEN answered ELSE answered \cup {e.oid}
     /\ failed' = IF e.kind = "failed" THEN failed \cup {e.oid} ELSE failed
  /\ ring' = Tail(ring)
  /\ UNCHANGED <<clock, loop, circuit, tokens, risk, fills, sent>>

SweepDue == now - lastSweep >= SweepEvery
TimedOutNow == IF SweepDue THEN StaleOrders(pending, now - Timeout) ELSE {}
Swept == DropTimedOut(TimeOut(pending, now - Timeout), now - Window)

\* drain_ns of main: what is left at the bound has been swept.
\* Mutant of DrainBound: the sweep interval is not added.
DrainBoundShort == Timeout
DrainBound == Timeout + SweepEvery

SessionsGone == \A c \in Conns : ~Up(c)

\* advance_shutdown, after the sweep of the same turn: the phase it leaves,
\* and the bound of that phase.
NextPhase(p) ==
  CASE ~stop -> <<phase, phaseEnds>>
    [] stop /\ phase = "Serving" -> <<"Draining", now + DrainBound>>
    [] stop /\ phase = "Draining" ->
         IF p.inFlight = 0 \/ now >= phaseEnds
         THEN <<"Closing", now + CloseGrace>> ELSE <<phase, phaseEnds>>
    [] stop /\ phase = "Closing" ->
         IF SessionsGone \/ now >= phaseEnds
         THEN <<"Exited", phaseEnds>> ELSE <<phase, phaseEnds>>

\* The signal of every session when Closing begins.
Signalled(cs, to) ==
  [c \in Conns |-> IF to = "Closing" /\ phase = "Draining" /\ cs[c].at # "down"
                   THEN [cs[c] EXCEPT !.wake = TRUE] ELSE cs[c]]

\* The i-th smallest: the sweep goes through the queue, oldest first.
Nth(S, i) == CHOOSE x \in S : Cardinality({y \in S : y <= x}) = i

\* One turn: sweep when due, advance the shutdown, then, unless that ends the
\* loop, a heartbeat when due and the idle sessions reaped.
Turn(idle) ==
  /\ Running
  /\ LET beat == now - lastBeat >= BeatEvery
         timeouts == [i \in 1 .. Cardinality(TimedOutNow) |->
                        [kind |-> "timeout", oid |-> Nth(TimedOutNow, i)]]
         p == IF SweepDue THEN Swept ELSE pending
         told == PushAll(conns, timeouts)
         to == NextPhase(p)
         beaten == IF beat THEN PushToUser(Signalled(told, to[1]), Heartbeat)
                   ELSE Signalled(told, to[1])
     IN /\ pending' = p
        /\ ids' = IF SweepDue THEN Expire(ids, now) ELSE ids
        /\ lastSweep' = IF SweepDue THEN now ELSE lastSweep
        /\ phase' = to[1] /\ phaseEnds' = to[2]
        /\ answered' = answered \cup TimedOutNow
        /\ conns' = IF to[1] = "Exited" THEN [c \in Conns |-> NoSession]
                    ELSE [c \in Conns |-> IF c \in idle THEN NoSession ELSE beaten[c]]
        /\ lastBeat' = IF beat /\ to[1] # "Exited" THEN now ELSE lastBeat
  /\ UNCHANGED <<clock, opened, circuit, tokens, external, sent, failed>>

Signal ==
  /\ ~stop /\ stop' = TRUE
  /\ UNCHANGED <<now, loop, pending, ids, circuit, tokens, conns, external, sent, answered, failed>>

\* Time passes, and the buckets refill with it.  A turn comes at least every
\* HOUSEKEEPING_INTERVAL, far less than a unit: a sweep that is due is made
\* before the clock moves on.
Tick ==
  /\ Running /\ now < MaxTime /\ now - lastSweep < SweepEvery
  /\ now' = now + 1
  /\ tokens' = Refill(tokens)
  /\ UNCHANGED <<stop, loop, pending, ids, circuit, conns, external, sent, answered, failed>>

Session(c) ==
  \/ AddConnection(c) \/ EndSession(c) \/ WriteMessage(c) \/ Wake(c)
  \/ \E cid \in Cids : NewOrder(c, cid) \/ NewOrderForwarded(c, cid) \/ Cancel(c, cid)

Next ==
  \/ \E c \in Conns : Session(c)
  \/ \E o \in DOMAIN risk, a \in RiskAnswers : RiskAnswer(o, a)
  \/ RouteEvent
  \/ \E idle \in SUBSET Conns : Turn(idle)
  \/ Signal \/ Tick

Spec == Init /\ [][Next]_vars

-----------------------------------------------------------------------------
Messages == [kind : {"inserted", "done", "failed", "fill", "timeout"}, oid : 1 .. MaxOrders]
            \cup {Heartbeat}

\* The values the variables take.
TypeOK ==
  /\ now \in 0 .. MaxTime /\ phase \in {"Serving", "Draining", "Closing", "Exited"}
  /\ lastSweep \in 0 .. now /\ lastBeat \in 0 .. now
  /\ tokens \in [Limiters -> Nat]
  /\ circuit.state \in {"Closed", "Open", "HalfOpen"} /\ circuit.fails \in Nat
  /\ \A c \in Conns : /\ conns[c].at \in {"down", "write", "wait"}
                       /\ Len(conns[c].outbound) <= MaxOutbound
                       /\ Range(conns[c].due) \subseteq Messages
  /\ answered \cup failed \subseteq DOMAIN sent

\* The counters kept beside the pending orders are the counts of their stages,
\* and never more than the capacity is in flight, whatever order the inserts,
\* dones, failures and timeouts of risk and of the sweep come in.
CountersAgree ==
  /\ pending.count = Cardinality(DOMAIN pending.orders)
  /\ pending.inFlight = Cardinality(InStage(pending, "Submitted"))
  /\ pending.inFlight <= Capacity
  /\ pending.timedOut = Cardinality(InStage(pending, "TimedOut"))

\* Two orders of one client order id are forwarded only when the first failed
\* or the dedup window has passed between them; a timeout is not a failure.
OneOrderPerCid ==
  \A i, j \in DOMAIN sent :
    i < j /\ sent[i].cid = sent[j].cid
      => i \in failed \/ sent[j].at - sent[i].at > Window

\* The newest order of a cid that has not failed keeps the cid for the whole
\* window, whatever older bindings of it the sweep expires meanwhile.
WindowIsKept ==
  \A o \in DOMAIN sent :
    /\ o \notin failed /\ now - sent[o].at <= Window
    /\ \A j \in DOMAIN sent : sent[j].cid = sent[o].cid => j <= o
    => ids.bound[sent[o].cid].oid = o

\* Once the failure of an order is routed its cid is free for a fresh attempt.
FailureFreesCid == \A o \in failed : ids.bound[sent[o].cid].oid # o

\* A client order id stands for one order: of two that are sent the first had
\* failed or aged, a live one keeps its id, and a failed one gives it back.
CidNamesOneOrder == OneOrderPerCid /\ WindowIsKept /\ FailureFreesCid

\* No request leaves the breaker half open: the probe's slot is taken by an
\* order that is sent, whose outcome closes or reopens it.
ProbeIsReturned == circuit.state # "HalfOpen"

\* An order that lives at risk can be cancelled here: it is tracked until its
\* end is routed, or, timed out and never heard of, until the window passed.
LiveIsCancellable ==
  \A o \in DOMAIN sent :
    risk[o] \in {"sent", "open", "cancelling"} =>
      Tracked(pending, o) \/ now - sent[o].at > Window

\* An open session was sent, or still holds in order, every message its user
\* was due since it opened: a full queue closes it and never drops one.
SessionIsComplete ==
  \A c \in Conns : conns[c].due = conns[c].writing \o conns[c].outbound

\* A session never waits with something to do: a message queued or the close
\* begun while it was not parked has left the wake bit set.
NoLostWake ==
  \A c \in Conns :
    conns[c].at = "wait" /\ (conns[c].outbound # <<>> \/ phase = "Closing") => conns[c].wake

\* A session is served: nothing it is due is dropped and it never sleeps on it.
SessionsAreServed == SessionIsComplete /\ NoLostWake

\* A gateway that closes has answered every order it forwarded, by routing
\* risk's answer or by the timeout of the sweep: the drain bound covers both.
DrainAnswersAll == phase \in {"Closing", "Exited"} => DOMAIN sent \subseteq answered

\* Over any stretch of time no more orders pass than a full bucket and the
\* refill of that time.
RateIsBounded ==
  \A i, j \in DOMAIN sent, l \in Limiters :
    i <= j => j - i + 1 <= Burst[l] + sent[j].at - sent[i].at

\* What decides whether an order is let in stays true: the counts of orders in
\* flight, the breaker's probe and the rate limits.
AdmissionIsSound == CountersAgree /\ ProbeIsReturned /\ RateIsBounded

\* Every order forwarded is answered within the timeout and one sweep, even
\* when risk never answers or its answer is lost.
AnsweredInTime ==
  \A o \in DOMAIN sent \ answered : now - sent[o].at <= Timeout + SweepEvery

\* Every order forwarded is answered, in time and before the gateway closes.
EveryOrderIsAnswered == AnsweredInTime /\ DrainAnswersAll

\* When the gateway ends a session to shut down, the client has been sent every
\* answer that was queued for it.
AnswerBeforeClose ==
  [][\A c \in Conns :
       WriteMessage(c) /\ conns'[c] = NoSession =>
         Range(conns[c].outbound) \subseteq {Heartbeat}]_vars
=============================================================================
