----------------------------- MODULE GatewayFeed -----------------------------
(***************************************************************************)
(* How risk's records reach the gateway's reactor, and how an announced    *)
(* configuration reaches its symbol table.                                 *)
(*                                                                         *)
(*   stream     risk numbers, casts and later flushes the records; a       *)
(*              restarted risk numbers on after the highest flushed one;   *)
(*   receive    a thread takes the records in order, replays a gap from    *)
(*              risk's WAL files, pushes each record on a ring and pings   *)
(*              the doorbell once per batch;                               *)
(*   reactor    wakes on the doorbell or its timer, empties the ring, asks *)
(*              the symbols sidecar for a re-read when a record names a    *)
(*              version its table does not hold, and takes new tables;     *)
(*   sidecar    reads the schedule by its own clock on request and on a    *)
(*              timer, and publishes a table that changed.                 *)
(*                                                                         *)
(* The records are CONFIG_APPLIED; every other type takes the same path to *)
(* the reactor.  Any version may be announced at any time: module          *)
(* SymbolConfig has who announces what.                                    *)
(*                                                                         *)
(* Sources: rsx-gateway/src/{cast_recv,replay,symbols,main,state}.rs,      *)
(* rsx-risk/src/rings.rs.                                                  *)
(***************************************************************************)
EXTENDS Integers, Sequences, FiniteSetsExt

CONSTANTS
  Versions,      \* the versions of the schedule, from 1
  Announced,     \* those a record may name
  MaxRecords,    \* bound: records of the stream
  MaxFeedFaults, \* bound: gaps, restarts of risk and failed reads
  EventCap,      \* slots of the event ring
  UpdateCap      \* slots of the ring of tables

VARIABLES
  egress,     \* the records of risk's gateway stream: the version each names
  flushed,    \* how many of them are in the stream's WAL files
  inForce,    \* the version in force by the gateway's clock
  recv,       \* the receive thread
  events,     \* the ring from the receive thread to the reactor
  bell,       \* a doorbell ping is waiting
  reactor,    \* where the reactor's loop is
  gw,         \* the reactor's table and the symbols sidecar
  feedFaults, \* faults so far
  routed      \* (history) the last sequence number the reactor routed

streamVars == <<egress, flushed, inForce>>
feedVars == <<streamVars, recv, events, bell, reactor, gw, feedFaults, routed>>

NotReplaying == [from |-> -1, skip |-> 0]
Spend == feedFaults < MaxFeedFaults /\ feedFaults' = feedFaults + 1

-----------------------------------------------------------------------------
(* Risk's stream, and the schedule as time passes. *)

streamFrame == <<recv, events, bell, reactor, gw, routed>>

(* forward: the next number, the WAL buffer, the wire. *)
Forward(v) ==
  /\ Len(egress) < MaxRecords
  /\ egress' = Append(egress, v)
  /\ UNCHANGED <<flushed, inForce, streamFrame, feedFaults>>

EgressFlush ==
  /\ flushed < Len(egress)
  /\ flushed' = Len(egress)
  /\ UNCHANGED <<egress, inForce, streamFrame, feedFaults>>

(* A restarted risk opens the stream after the highest record in its WAL
   files: the numbers of the records it had only cast are used again. *)
EgressReopen ==
  /\ flushed < Len(egress)
  /\ Spend
  /\ egress' = SubSeq(egress, 1, flushed)
  /\ UNCHANGED <<flushed, inForce, streamFrame>>

(* A later version becomes effective by the gateway's clock. *)
VersionInForce ==
  /\ \E v \in Versions : v > inForce /\ inForce' = v
  /\ UNCHANGED <<egress, flushed, streamFrame, feedFaults>>

-----------------------------------------------------------------------------
(* The gateway's receive thread. *)

NoEvent == [seq |-> 0, version |-> 0]
Event(seq) == [seq |-> seq, version |-> egress[seq]]

recvFrame == <<streamVars, reactor, gw, routed>>

(* The next record in order arrives; an older number is ignored. *)
RecvData ==
  /\ recv.pc = "spin"
  /\ recv.last < Len(egress)
  /\ recv' = [recv EXCEPT !.pc = "push", !.last = @ + 1,
                          !.event = Event(recv.last + 1)]
  /\ UNCHANGED <<recvFrame, events, bell, feedFaults>>

(***************************************************************************)
(* push_event waits for room.  When the call that delivered the record had *)
(* found a fault first, the next call reports it.                          *)
(***************************************************************************)
PushEvent ==
  /\ recv.pc = "push"
  /\ Len(events) < EventCap
  /\ events' = Append(events, recv.event)
  /\ recv' = [recv EXCEPT !.event = NoEvent, !.batch = TRUE,
       !.pc = IF recv.gap = NotReplaying THEN "spin" ELSE "replay"]
  /\ UNCHANGED <<recvFrame, bell, feedFaults>>

(* Nothing more to read: one ping for the whole batch. *)
RingDoorbell ==
  /\ recv.pc = "spin"
  /\ recv.batch
  /\ bell' = TRUE
  /\ recv' = [recv EXCEPT !.batch = FALSE]
  /\ UNCHANGED <<recvFrame, events, feedFaults>>

(***************************************************************************)
(* FAULTED: the records up to gap end are given up on the wire.  A         *)
(* heartbeat that finds the fault may be followed, in the same call, by    *)
(* the delivery of the first record of the gap.                            *)
(***************************************************************************)
RecvFaulted ==
  /\ recv.pc = "spin"
  /\ Spend
  /\ \E end \in (recv.last + 1)..Len(egress), late \in BOOLEAN :
       recv' = [recv EXCEPT
         !.gap = [from |-> recv.last, skip |-> end],
         !.pc = IF late THEN "push" ELSE "replay",
         !.last = IF late THEN @ + 1 ELSE @,
         !.event = IF late THEN Event(recv.last + 1) ELSE NoEvent]
  /\ UNCHANGED <<recvFrame, events, bell>>

(* RECONNECT: the reorder ring overflowed; no gap end is known. *)
RecvReconnect ==
  /\ recv.pc = "spin"
  /\ recv.last < Len(egress)
  /\ Spend
  /\ recv' = [recv EXCEPT !.gap = [from |-> recv.last, skip |-> recv.last],
                          !.pc = "replay"]
  /\ UNCHANGED <<recvFrame, events, bell>>

(***************************************************************************)
(* replay_gap: the records of the stream's WAL files after the reported    *)
(* position go onto the ring, one by one as there is room.                 *)
(***************************************************************************)
ReplayRecord ==
  /\ recv.pc = "replay"
  /\ recv.gap.from < flushed
  /\ Len(events) < EventCap
  /\ events' = Append(events, Event(recv.gap.from + 1))
  /\ recv' = [recv EXCEPT !.gap.from = @ + 1]
  /\ UNCHANGED <<recvFrame, bell, feedFaults>>

ResumeAfter(tip) ==
  recv' = [recv EXCEPT !.pc = "spin", !.last = tip, !.batch = TRUE,
                       !.gap = NotReplaying]

ReplayCaughtUp ==
  /\ recv.pc = "replay"
  /\ recv.gap.from >= flushed
  /\ ResumeAfter(recv.gap.from)
  /\ UNCHANGED <<recvFrame, events, bell, feedFaults>>

(* The replay cannot run, or breaks off: the rest of the gap is lost. *)
ReplayFails ==
  /\ recv.pc = "replay"
  /\ ResumeAfter(Max({recv.gap.skip, recv.gap.from}))
  /\ UNCHANGED <<recvFrame, events, bell, feedFaults>>

-----------------------------------------------------------------------------
(* The gateway's reactor and its symbols sidecar. *)

reactorFrame == <<streamVars, recv, feedFaults>>

(***************************************************************************)
(* The doorbell or the housekeeping timer ends the sleep; the loop starts  *)
(* by draining the pings.                                                  *)
(***************************************************************************)
ReactorWake ==
  /\ reactor = "asleep"
  /\ bell' = FALSE
  /\ reactor' = "events"
  /\ UNCHANGED <<reactorFrame, events, gw, routed>>

(* A version the table does not hold yet asks the sidecar for a re-read. *)
RouteEvent ==
  /\ reactor = "events"
  /\ events # <<>>
  /\ events' = Tail(events)
  /\ routed' = Head(events).seq
  /\ gw' = [gw EXCEPT !.notified = @ \/ Head(events).version > gw.table]
  /\ UNCHANGED <<reactorFrame, bell, reactor>>

EventsDrained ==
  /\ reactor = "events"
  /\ events = <<>>
  /\ reactor' = "tables"
  /\ UNCHANGED <<reactorFrame, events, bell, gw, routed>>

NewestTable ==
  gw' = [gw EXCEPT !.updates = <<>>,
                   !.table = IF gw.updates = <<>> THEN @ ELSE gw.updates[Len(gw.updates)]]

\* Mutant of ReactorSleep: the pings are drained at the end of the loop.
ReactorSleepDrained ==
  /\ reactor = "tables"
  /\ NewestTable
  /\ reactor' = "asleep"
  /\ bell' = FALSE
  /\ UNCHANGED <<reactorFrame, events, routed>>

(* The newest table is taken; the rest of the loop is housekeeping. *)
ReactorSleep ==
  /\ reactor = "tables"
  /\ NewestTable
  /\ reactor' = "asleep"
  /\ UNCHANGED <<reactorFrame, events, bell, routed>>

sidecarFrame == <<reactorFrame, events, bell, reactor, routed>>

\* Mutant of Publish: a table that found the ring full counts as published.
PublishAlways(g, active) ==
  IF active = g.published THEN g
  ELSE [g EXCEPT !.published = active,
                 !.updates = IF Len(@) < UpdateCap THEN Append(@, active)
                             ELSE @]

(***************************************************************************)
(* One read of the table: it is published when it differs from the last    *)
(* published one and the ring has room.  (SymbolConfig!ScheduleIsSound:    *)
(* the gateway can read every row.)                                        *)
(***************************************************************************)
Publish(g, active) ==
  IF \/ active = g.published
     \/ Len(g.updates) >= UpdateCap
  THEN g
  ELSE [g EXCEPT !.published = active, !.updates = Append(@, active)]

SidecarReload ==
  /\ gw.notified
  /\ gw' = Publish([gw EXCEPT !.notified = FALSE], inForce)
  /\ UNCHANGED sidecarFrame

SidecarPoll ==
  /\ gw' = Publish(gw, inForce)
  /\ UNCHANGED sidecarFrame

(* A failed read: the request is spent, the next cycle reconnects. *)
SidecarFails ==
  /\ gw.notified
  /\ Spend
  /\ gw' = [gw EXCEPT !.notified = FALSE]
  /\ UNCHANGED <<streamVars, recv, events, bell, reactor, routed>>

-----------------------------------------------------------------------------
FeedInit ==
  /\ egress = <<>> /\ flushed = 0
  /\ inForce = 1
  /\ recv = [pc |-> "spin", last |-> 0, event |-> NoEvent, batch |-> FALSE,
             gap |-> NotReplaying]
  /\ events = <<>>
  /\ bell = FALSE
  /\ reactor = "asleep"
  /\ gw = [table |-> 1, published |-> 1, updates |-> <<>>, notified |-> FALSE]
  /\ routed = 0
  /\ feedFaults = 0

Stream ==
  \/ \E v \in Announced : Forward(v)
  \/ EgressFlush \/ EgressReopen \/ VersionInForce

Receive ==
  \/ RecvData \/ PushEvent \/ RingDoorbell
  \/ ReplayRecord \/ ReplayCaughtUp \/ ReplayFails

Reactor == ReactorWake \/ RouteEvent \/ EventsDrained \/ ReactorSleep

Sidecar == SidecarReload \/ SidecarPoll

FeedNext ==
  \/ Stream \/ Receive \/ Reactor \/ Sidecar
  \/ RecvFaulted \/ RecvReconnect \/ SidecarFails

FeedSpec == FeedInit /\ [][FeedNext]_feedVars

-----------------------------------------------------------------------------
(* Every ring is within its capacity and every version one of the
   schedule's. *)
FeedTypeOK ==
  /\ flushed \in 0..Len(egress) /\ Len(egress) <= MaxRecords
  /\ recv.pc \in {"spin", "push", "replay"}
  /\ recv.last \in 0..MaxRecords
  /\ Len(events) <= EventCap
  /\ bell \in BOOLEAN
  /\ reactor \in {"asleep", "events", "tables"}
  /\ {gw.table, gw.published, inForce} \subseteq Versions
  /\ Len(gw.updates) <= UpdateCap
  /\ feedFaults \in 0..MaxFeedFaults

(* No record is routed after a later one: the reactor sees the stream in its
   order, each record once but for the one delivered as a fault was found. *)
RoutedInOrder ==
  LET seqs == <<routed>> \o [i \in DOMAIN events |-> events[i].seq]
  IN \A i \in 1..Len(seqs) - 1 : seqs[i] <= seqs[i + 1]

(* A sleeping reactor with something on its ring has a ping waiting, or a
   receive thread that has yet to send it. *)
NoLostPing ==
  reactor = "asleep" /\ events # <<>> =>
    bell \/ recv.batch \/ recv.pc = "replay"

(* What the receive thread pushes reaches the reactor in order, and wakes it. *)
FeedIsFaithful == RoutedInOrder /\ NoLostPing

(* The receive thread is never stuck for good on a full ring, and everything
   it received is routed, although a ring that fills within one batch is freed
   by the housekeeping timer alone; and the gateway ends up with the version
   in force by its clock, in spite of lost records, failed reads and a full
   ring of tables. *)
GatewaySettles == <>[](events = <<>> /\ recv.pc = "spin" /\ gw.table = inForce)
=============================================================================
