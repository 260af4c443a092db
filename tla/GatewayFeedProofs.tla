-------------------------- MODULE GatewayFeedProofs --------------------------
(***************************************************************************)
(* The gateway's receive thread hands risk's stream to the reactor in      *)
(* order and wakes it.  What has been pushed is never past the record      *)
(* after the thread's position: a fault may let one record through before  *)
(* the replay that delivers it again, and no fault lets a second one.      *)
(***************************************************************************)
EXTENDS GatewayFeed, TLAPS

Records == [seq : Nat, version : Announced \cup {0}]
Gaps == [from : Int, skip : Nat]
Receivers == [pc : {"spin", "push", "replay"}, last : Nat, event : Records,
              batch : BOOLEAN, gap : Gaps]

FeedTypes ==
  /\ egress \in Seq(Announced)
  /\ flushed \in Nat /\ flushed <= Len(egress)
  /\ recv \in Receivers
  /\ events \in Seq(Records)
  /\ routed \in Nat

(* Nothing was pushed from beyond record n. *)
UpTo(n) == routed <= n /\ \A i \in 1..Len(events) : events[i].seq <= n

OrderInv ==
  /\ \A i \in 1..Len(events) : routed <= events[i].seq
  /\ \A i, j \in 1..Len(events) : i <= j => events[i].seq <= events[j].seq

(* Where the receive thread is: its position, or that of its replay, is at
   most one record behind what it has pushed. *)
RecvInv ==
  /\ recv.pc = "spin" => UpTo(recv.last + 1) /\ recv.gap = NotReplaying
  /\ recv.pc = "push" =>
       /\ recv.event.seq = recv.last /\ UpTo(recv.last)
       /\ \/ recv.gap = NotReplaying
          \/ recv.gap.from \in Nat /\ recv.gap.from + 1 = recv.last
  /\ recv.pc = "replay" => recv.gap.from \in Nat /\ UpTo(recv.gap.from + 1)

(* From the moment the reactor has found its ring empty. *)
PingInv ==
  reactor # "events" /\ events # <<>> => bell \/ recv.batch \/ recv.pc = "replay"

FeedInv == FeedTypes /\ OrderInv /\ RecvInv /\ PingInv
-----------------------------------------------------------------------------
LEMMA FeedStart == FeedInit => FeedInv
  <1> SUFFICES ASSUME FeedInit PROVE FeedInv
    OBVIOUS
  <1>1. recv \in Receivers
    <2>1. NoEvent \in Records /\ NotReplaying \in Gaps
      BY DEF NoEvent, Records, NotReplaying, Gaps
    <2> QED BY <2>1 DEF FeedInit, Receivers
  <1>2. FeedTypes
    <2>1. <<>> \in Seq(Announced) /\ <<>> \in Seq(Records) /\ Len(<<>>) = 0
      OBVIOUS
    <2>2. egress = <<>> /\ flushed = 0 /\ events = <<>> /\ routed = 0
      BY DEF FeedInit
    <2> QED BY <1>1, <2>1, <2>2 DEF FeedTypes
  <1>3. Len(events) = 0 /\ events = <<>> /\ routed = 0
    BY DEF FeedInit
  <1>4. recv.pc = "spin" /\ recv.last = 0 /\ recv.gap = NotReplaying
    BY DEF FeedInit
  <1> QED BY <1>2, <1>3, <1>4 DEF FeedInv, OrderInv, RecvInv, PingInv, UpTo

(* Risk's stream and the sidecar leave the receive thread and the ring alone. *)
LEMMA StreamStep ==
  ASSUME FeedInv, Stream
  PROVE  FeedInv'
  <1>1. UNCHANGED <<recv, events, bell, reactor, routed>>
    BY DEF Stream, Forward, EgressFlush, EgressReopen, VersionInForce, streamFrame
  <1>2. egress' \in Seq(Announced) /\ flushed' \in Nat /\ flushed' <= Len(egress')
    <2>0. egress \in Seq(Announced) /\ flushed \in Nat /\ flushed <= Len(egress)
      BY DEF FeedInv, FeedTypes
    <2>1. ASSUME NEW v \in Announced, Forward(v)
          PROVE  egress' \in Seq(Announced) /\ flushed' \in Nat /\ flushed' <= Len(egress')
      BY <2>0, <2>1 DEF Forward
    <2>2. CASE EgressFlush
      BY <2>0, <2>2 DEF EgressFlush
    <2>3. CASE EgressReopen
      BY <2>0, <2>3 DEF EgressReopen
    <2>4. CASE VersionInForce
      BY <2>0, <2>4 DEF VersionInForce
    <2> QED BY <2>1, <2>2, <2>3, <2>4 DEF Stream
  <1>3. FeedTypes'
    BY <1>1, <1>2 DEF FeedInv, FeedTypes
  <1> QED BY <1>1, <1>3 DEF FeedInv, OrderInv, RecvInv, PingInv, UpTo

LEMMA SidecarStep ==
  ASSUME FeedInv, Sidecar \/ SidecarFails \/ UNCHANGED feedVars
  PROVE  FeedInv'
  <1>1. UNCHANGED <<egress, flushed, recv, events, bell, reactor, routed>>
    BY DEF Sidecar, SidecarReload, SidecarPoll, SidecarFails, feedVars, sidecarFrame,
           reactorFrame, streamVars
  <1> QED BY <1>1 DEF FeedInv, FeedTypes, OrderInv, RecvInv, PingInv, UpTo

-----------------------------------------------------------------------------
LEMMA EventIsRecord ==
  ASSUME FeedTypes, NEW n \in 1..Len(egress)
  PROVE  Event(n) \in Records /\ Event(n).seq = n /\ n \in Nat
  <1>1. egress[n] \in Announced /\ n \in Nat
    BY DEF FeedTypes
  <1> QED BY <1>1 DEF Event, Records

(* What is allowed is monotonic in the position. *)
LEMMA UpToMore ==
  ASSUME FeedTypes, NEW m \in Int, NEW n \in Int, m <= n, UpTo(m)
  PROVE  UpTo(n)
  <1>1. \A i \in 1..Len(events) : events[i].seq \in Nat
    <2>1. \A i \in 1..Len(events) : events[i] \in Records
      BY DEF FeedTypes
    <2> QED BY <2>1 DEF Records
  <1> QED BY <1>1 DEF UpTo, FeedTypes

(* A record no earlier than all that was pushed may be pushed. *)
LEMMA PushKeepsOrder ==
  ASSUME FeedTypes, OrderInv, NEW e \in Records, UpTo(e.seq),
         events' = Append(events, e), routed' = routed
  PROVE  events' \in Seq(Records) /\ OrderInv' /\ UpTo(e.seq)'
  <1>1. /\ events' \in Seq(Records) /\ Len(events') = Len(events) + 1
        /\ \A i \in 1..Len(events) : events'[i] = events[i]
        /\ events'[Len(events) + 1] = e /\ Len(events) \in Nat
    BY DEF FeedTypes
  <1>2. e.seq \in Nat
    BY DEF Records
  <1>3. \A i \in 1..Len(events') : i \in 1..Len(events) \/ i = Len(events) + 1
    BY <1>1
  <1>4. ASSUME NEW i \in 1..Len(events') PROVE routed' <= events'[i].seq /\ events'[i].seq <= e.seq
    <2>1. CASE i \in 1..Len(events)
      BY <1>1, <2>1 DEF OrderInv, UpTo
    <2>2. CASE i = Len(events) + 1
      BY <1>1, <1>2, <2>2 DEF UpTo
    <2> QED BY <1>3, <2>1, <2>2
  <1>5. ASSUME NEW i \in 1..Len(events'), NEW j \in 1..Len(events'), i <= j
        PROVE  events'[i].seq <= events'[j].seq
    <2>1. CASE j \in 1..Len(events)
      <3>1. i \in 1..Len(events)
        BY <1>1, <1>3, <1>5, <2>1
      <3> QED BY <1>1, <1>5, <2>1, <3>1 DEF OrderInv
    <2>2. CASE j = Len(events) + 1
      BY <1>1, <1>4, <2>2
    <2> QED BY <1>3, <2>1, <2>2
  <1>6. UpTo(e.seq)'
    BY <1>4 DEF UpTo
  <1> QED BY <1>1, <1>4, <1>5, <1>6 DEF OrderInv

(* A step of the receive thread that pushes nothing. *)
LEMMA RecvKeeps ==
  ASSUME FeedInv, UNCHANGED <<recvFrame, events>>, recv' \in Receivers,
         bell => bell', recv.batch => recv'.batch \/ bell',
         recv.pc = "replay" => recv'.pc = "replay" \/ recv'.batch
  PROVE  FeedTypes' /\ OrderInv' /\ PingInv' /\ \A n : UpTo(n)' <=> UpTo(n)
  <1>1. UNCHANGED <<egress, flushed, reactor, routed, events>>
    BY DEF recvFrame, streamVars
  <1>2. FeedTypes'
    BY <1>1 DEF FeedInv, FeedTypes
  <1>3. OrderInv' /\ \A n : UpTo(n)' <=> UpTo(n)
    BY <1>1 DEF FeedInv, OrderInv, UpTo
  <1>4. PingInv'
    BY <1>1 DEF FeedInv, PingInv
  <1> QED BY <1>2, <1>3, <1>4

LEMMA RecvDataStep ==
  ASSUME FeedInv, RecvData
  PROVE  FeedInv'
  <1>1. recv \in Receivers /\ egress \in Seq(Announced)
    BY DEF FeedInv, FeedTypes
  <1>2. recv.last + 1 \in 1..Len(egress) /\ recv.last \in Nat
    BY <1>1 DEF RecvData, Receivers
  <1>3. /\ Event(recv.last + 1) \in Records /\ Event(recv.last + 1).seq = recv.last + 1
        /\ recv.last + 1 \in Nat
    BY <1>2, EventIsRecord DEF FeedInv
  <1>4. recv' = [recv EXCEPT !.pc = "push", !.last = recv.last + 1,
                             !.event = Event(recv.last + 1)]
    BY DEF RecvData
  <1>5. /\ recv' \in Receivers /\ recv'.pc = "push" /\ recv'.last = recv.last + 1
        /\ recv'.event.seq = recv'.last /\ recv'.gap = recv.gap /\ recv'.batch = recv.batch
    BY <1>1, <1>3, <1>4 DEF Receivers
  <1>6. /\ recv.pc = "spin" /\ UNCHANGED <<recvFrame, events, bell>>
        /\ recv.gap = NotReplaying /\ UpTo(recv.last + 1)
    BY DEF RecvData, FeedInv, RecvInv
  <1>7. FeedTypes' /\ OrderInv' /\ PingInv' /\ \A n : UpTo(n)' <=> UpTo(n)
    BY <1>5, <1>6, RecvKeeps
  <1>8. RecvInv'
    BY <1>5, <1>6, <1>7 DEF RecvInv
  <1> QED BY <1>7, <1>8 DEF FeedInv

LEMMA PushEventStep ==
  ASSUME FeedInv, PushEvent
  PROVE  FeedInv'
  <1>1. recv \in Receivers
    BY DEF FeedInv, FeedTypes
  <1>2. /\ recv.pc = "push" /\ recv.event.seq = recv.last /\ UpTo(recv.last)
        /\ \/ recv.gap = NotReplaying
           \/ recv.gap.from \in Nat /\ recv.gap.from + 1 = recv.last
    BY DEF PushEvent, FeedInv, RecvInv
  <1>3. recv.event \in Records /\ recv.last \in Nat /\ recv.gap.from \in Int
    BY <1>1 DEF Receivers, Gaps
  <1>4. UNCHANGED <<egress, flushed, reactor, routed, bell>> /\ events' = Append(events, recv.event)
    BY DEF PushEvent, recvFrame, streamVars
  <1>0. PICK e \in Records, n \in Nat : e = recv.event /\ n = recv.last /\ e.seq = n
    BY <1>2, <1>3
  <1>5. events' \in Seq(Records) /\ OrderInv' /\ UpTo(n)'
    <2>1. UpTo(e.seq) /\ events' = Append(events, e) /\ routed' = routed
      BY <1>0, <1>2, <1>4
    <2>2. events' \in Seq(Records) /\ OrderInv' /\ UpTo(e.seq)'
      BY <2>1, PushKeepsOrder DEF FeedInv
    <2> QED BY <1>0, <2>2
  <1>6. recv' = [recv EXCEPT !.event = NoEvent, !.batch = TRUE,
                   !.pc = IF recv.gap = NotReplaying THEN "spin" ELSE "replay"]
    BY DEF PushEvent
  <1>7. NoEvent \in Records
    BY DEF NoEvent, Records
  <1>8. /\ recv' \in Receivers /\ recv'.batch /\ recv'.last = recv.last
        /\ recv'.gap = recv.gap
        /\ recv'.pc = IF recv.gap = NotReplaying THEN "spin" ELSE "replay"
    BY <1>1, <1>6, <1>7 DEF Receivers
  <1>9. FeedTypes'
    BY <1>4, <1>5, <1>8 DEF FeedInv, FeedTypes
  <1>10. RecvInv'
    <2>1. CASE recv.gap = NotReplaying
      <3>1. UpTo(n + 1)'
        <4>1. \A i \in 1..Len(events') : events'[i].seq \in Nat
          <5>1. \A i \in 1..Len(events') : events'[i] \in Records
            BY <1>5
          <5> QED BY <5>1 DEF Records
        <4>2. routed' \in Nat
          BY <1>9 DEF FeedTypes
        <4> QED BY <1>5, <4>1, <4>2 DEF UpTo
      <3>2. recv'.pc = "spin" /\ recv'.last = n /\ recv'.gap = NotReplaying
        BY <1>0, <1>8, <2>1
      <3> QED BY <3>1, <3>2 DEF RecvInv
    <2>2. CASE recv.gap # NotReplaying
      <3>1. recv'.pc = "replay" /\ recv'.gap.from + 1 = n /\ recv'.gap.from \in Nat
        BY <1>0, <1>2, <1>8, <2>2
      <3> QED BY <1>5, <3>1 DEF RecvInv
    <2> QED BY <2>1, <2>2
  <1>11. PingInv'
    BY <1>8 DEF PingInv
  <1> QED BY <1>5, <1>9, <1>10, <1>11 DEF FeedInv

LEMMA RingDoorbellStep ==
  ASSUME FeedInv, RingDoorbell
  PROVE  FeedInv'
  <1>1. /\ recv \in Receivers /\ recv.pc = "spin" /\ UpTo(recv.last + 1)
        /\ recv.gap = NotReplaying
    BY DEF FeedInv, FeedTypes, RingDoorbell, RecvInv
  <1>2. /\ UNCHANGED <<recvFrame, events>> /\ bell' = TRUE
        /\ recv' = [recv EXCEPT !.batch = FALSE]
    BY DEF RingDoorbell
  <1>3. /\ recv' \in Receivers /\ recv'.pc = recv.pc /\ recv'.last = recv.last
        /\ recv'.gap = recv.gap
    BY <1>1, <1>2 DEF Receivers
  <1>4. FeedTypes' /\ OrderInv' /\ PingInv' /\ \A n : UpTo(n)' <=> UpTo(n)
    BY <1>1, <1>2, <1>3, RecvKeeps
  <1>5. RecvInv'
    BY <1>1, <1>3, <1>4 DEF RecvInv
  <1> QED BY <1>4, <1>5 DEF FeedInv

LEMMA RecvFaultedStep ==
  ASSUME FeedInv, RecvFaulted
  PROVE  FeedInv'
  <1>1. /\ recv \in Receivers /\ recv.pc = "spin" /\ UpTo(recv.last + 1)
        /\ UNCHANGED <<recvFrame, events, bell>> /\ egress \in Seq(Announced)
    BY DEF FeedInv, FeedTypes, RecvFaulted, RecvInv
  <1>2. recv.last \in Nat
    BY <1>1 DEF Receivers
  <1>3. PICK end \in (recv.last + 1)..Len(egress), late \in BOOLEAN :
          recv' = [recv EXCEPT
            !.gap = [from |-> recv.last, skip |-> end],
            !.pc = IF late THEN "push" ELSE "replay",
            !.last = IF late THEN recv.last + 1 ELSE recv.last,
            !.event = IF late THEN Event(recv.last + 1) ELSE NoEvent]
    BY DEF RecvFaulted
  <1>4. recv.last + 1 \in 1..Len(egress) /\ end \in Nat /\ recv.last + 1 \in Nat
    BY <1>1, <1>2
  <1>5. /\ Event(recv.last + 1) \in Records /\ Event(recv.last + 1).seq = recv.last + 1
        /\ NoEvent \in Records
    BY <1>4, EventIsRecord DEF FeedInv, NoEvent, Records
  <1> DEFINE gap == [from |-> recv.last, skip |-> end]
  <1>6. gap \in Gaps /\ gap.from = recv.last
    BY <1>2, <1>4 DEF Gaps
  <1> HIDE DEF gap
  <1>7. /\ recv' \in Receivers /\ recv'.batch = recv.batch /\ recv'.gap = gap
        /\ recv'.pc = (IF late THEN "push" ELSE "replay")
        /\ recv'.last = (IF late THEN recv.last + 1 ELSE recv.last)
        /\ recv'.event = (IF late THEN Event(recv.last + 1) ELSE NoEvent)
    <2>1. CASE late
      <3>1. recv' = [recv EXCEPT !.gap = gap, !.pc = "push", !.last = recv.last + 1,
                                 !.event = Event(recv.last + 1)]
        BY <1>3, <2>1 DEF gap
      <3> QED BY <1>1, <1>4, <1>5, <1>6, <2>1, <3>1 DEF Receivers
    <2>2. CASE ~late
      <3>1. recv' = [recv EXCEPT !.gap = gap, !.pc = "replay", !.last = recv.last,
                                 !.event = NoEvent]
        BY <1>3, <2>2 DEF gap
      <3> QED BY <1>1, <1>2, <1>5, <1>6, <2>2, <3>1 DEF Receivers
    <2> QED BY <2>1, <2>2
  <1>8. FeedTypes' /\ OrderInv' /\ PingInv' /\ \A n : UpTo(n)' <=> UpTo(n)
    BY <1>1, <1>7, RecvKeeps
  <1>9. RecvInv'
    <2>1. CASE late
      BY <1>1, <1>2, <1>5, <1>6, <1>7, <1>8, <2>1 DEF RecvInv
    <2>2. CASE ~late
      BY <1>1, <1>2, <1>6, <1>7, <1>8, <2>2 DEF RecvInv
    <2> QED BY <2>1, <2>2
  <1> QED BY <1>8, <1>9 DEF FeedInv

LEMMA RecvReconnectStep ==
  ASSUME FeedInv, RecvReconnect
  PROVE  FeedInv'
  <1>1. /\ recv \in Receivers /\ recv.pc = "spin" /\ UpTo(recv.last + 1)
        /\ UNCHANGED <<recvFrame, events, bell>>
    BY DEF FeedInv, FeedTypes, RecvReconnect, RecvInv
  <1>2. recv.last \in Nat
    BY <1>1 DEF Receivers
  <1> DEFINE gap == [from |-> recv.last, skip |-> recv.last]
  <1>3. recv' = [recv EXCEPT !.gap = gap, !.pc = "replay"]
    BY DEF RecvReconnect
  <1>4. gap \in Gaps /\ gap.from = recv.last
    BY <1>2 DEF Gaps
  <1> HIDE DEF gap
  <1>5. /\ recv' \in Receivers /\ recv'.batch = recv.batch /\ recv'.gap = gap
        /\ recv'.pc = "replay"
    BY <1>1, <1>3, <1>4 DEF Receivers
  <1>6. FeedTypes' /\ OrderInv' /\ PingInv' /\ \A n : UpTo(n)' <=> UpTo(n)
    BY <1>1, <1>5, RecvKeeps
  <1>7. RecvInv'
    BY <1>1, <1>2, <1>4, <1>5, <1>6 DEF RecvInv
  <1> QED BY <1>6, <1>7 DEF FeedInv

(* A replayed record is the one after the replay's position. *)
LEMMA ReplayRecordStep ==
  ASSUME FeedInv, ReplayRecord
  PROVE  FeedInv'
  <1>1. /\ recv \in Receivers /\ recv.pc = "replay"
        /\ recv.gap.from \in Nat /\ UpTo(recv.gap.from + 1)
        /\ UNCHANGED <<egress, flushed, reactor, routed, bell>>
        /\ recv.gap.from < flushed /\ flushed <= Len(egress) /\ flushed \in Nat
        /\ egress \in Seq(Announced)
    BY DEF FeedInv, FeedTypes, ReplayRecord, RecvInv, recvFrame, streamVars
  <1>2. PICK n \in Nat : n = recv.gap.from + 1
    BY <1>1
  <1>3. PICK e \in Records : e = Event(n) /\ e.seq = n
    <2>1. n \in 1..Len(egress)
      BY <1>1, <1>2
    <2> QED BY <2>1, EventIsRecord DEF FeedInv
  <1>4. events' = Append(events, e)
    BY <1>2, <1>3 DEF ReplayRecord
  <1>5. events' \in Seq(Records) /\ OrderInv' /\ UpTo(n)'
    <2>1. UpTo(e.seq)
      BY <1>1, <1>2, <1>3
    <2>2. events' \in Seq(Records) /\ OrderInv' /\ UpTo(e.seq)'
      <3>1. routed' = routed /\ FeedTypes /\ OrderInv
        BY <1>1 DEF FeedInv
      <3> QED BY <1>4, <2>1, <3>1, PushKeepsOrder
    <2> QED BY <1>3, <2>2
  <1>6. recv' = [recv EXCEPT !.gap = [recv.gap EXCEPT !.from = n]]
    BY <1>2 DEF ReplayRecord
  <1>7. /\ [recv.gap EXCEPT !.from = n] \in Gaps
        /\ [recv.gap EXCEPT !.from = n].from = n
    <2>1. recv.gap \in Gaps
      BY <1>1 DEF Receivers
    <2> QED BY <2>1 DEF Gaps
  <1>8. recv' \in Receivers /\ recv'.pc = "replay" /\ recv'.gap.from = n
    BY <1>1, <1>6, <1>7 DEF Receivers
  <1>9. FeedTypes'
    BY <1>1, <1>5, <1>8 DEF FeedInv, FeedTypes
  <1>10. UpTo(n + 1)'
    <2>1. \A i \in 1..Len(events') : events'[i].seq \in Nat
      <3>1. \A i \in 1..Len(events') : events'[i] \in Records
        BY <1>5
      <3> QED BY <3>1 DEF Records
    <2>2. routed' \in Nat
      BY <1>9 DEF FeedTypes
    <2> QED BY <1>5, <2>1, <2>2 DEF UpTo
  <1>11. RecvInv'
    BY <1>8, <1>10 DEF RecvInv
  <1>12. PingInv'
    BY <1>8 DEF PingInv
  <1> QED BY <1>5, <1>9, <1>11, <1>12 DEF FeedInv

(* A replay ends no earlier than its position. *)
LEMMA ResumeStep ==
  ASSUME FeedInv, ReplayCaughtUp \/ ReplayFails
  PROVE  FeedInv'
  <1>1. /\ recv \in Receivers /\ recv.pc = "replay"
        /\ recv.gap.from \in Nat /\ UpTo(recv.gap.from + 1)
        /\ UNCHANGED <<recvFrame, events, bell>>
    BY DEF FeedInv, FeedTypes, ReplayCaughtUp, ReplayFails, RecvInv
  <1>2. recv.gap.skip \in Nat
    BY <1>1 DEF Receivers, Gaps
  <1>3. PICK tip \in Nat : tip >= recv.gap.from /\ ResumeAfter(tip)
    <2>1. CASE ReplayCaughtUp
      BY <1>1, <2>1 DEF ReplayCaughtUp
    <2>2. CASE ReplayFails
      <3>1. /\ Max({recv.gap.skip, recv.gap.from}) \in {recv.gap.skip, recv.gap.from}
            /\ Max({recv.gap.skip, recv.gap.from}) >= recv.gap.from
        BY <1>1, <1>2 DEF Max
      <3> QED BY <1>1, <1>2, <2>2, <3>1 DEF ReplayFails
    <2> QED BY <2>1, <2>2
  <1>4. NotReplaying \in Gaps
    BY DEF NotReplaying, Gaps
  <1>5. /\ recv' \in Receivers /\ recv'.batch = TRUE /\ recv'.gap = NotReplaying
        /\ recv'.pc = "spin" /\ recv'.last = tip
    BY <1>1, <1>3, <1>4 DEF ResumeAfter, Receivers
  <1>6. FeedTypes' /\ OrderInv' /\ PingInv' /\ \A n : UpTo(n)' <=> UpTo(n)
    BY <1>1, <1>5, RecvKeeps
  <1>7. UpTo(tip + 1)
    <2>1. recv.gap.from + 1 \in Int /\ tip + 1 \in Int /\ recv.gap.from + 1 <= tip + 1
      BY <1>1, <1>3
    <2> QED BY <1>1, <2>1, UpToMore DEF FeedInv
  <1>8. RecvInv'
    BY <1>5, <1>6, <1>7 DEF RecvInv
  <1> QED BY <1>6, <1>8 DEF FeedInv

-----------------------------------------------------------------------------
(* The reactor takes records off the head of the ring. *)
LEMMA ReactorStep ==
  ASSUME FeedInv, Reactor
  PROVE  FeedInv'
  <1>1. UNCHANGED <<egress, flushed, recv>>
    BY DEF Reactor, ReactorWake, RouteEvent, EventsDrained, ReactorSleep, reactorFrame,
           streamVars
  <1>2. CASE ReactorWake \/ EventsDrained \/ ReactorSleep
    <2>1. UNCHANGED <<events, routed>>
      BY <1>2 DEF ReactorWake, EventsDrained, ReactorSleep
    <2>2. FeedTypes' /\ OrderInv' /\ RecvInv'
      BY <1>1, <2>1 DEF FeedInv, FeedTypes, OrderInv, RecvInv, UpTo
    <2>3. PingInv'
      BY <1>1, <1>2, <2>1 DEF FeedInv, PingInv, ReactorWake, EventsDrained, ReactorSleep
    <2> QED BY <2>2, <2>3 DEF FeedInv
  <1>3. CASE RouteEvent
    <2>1. /\ events \in Seq(Records) /\ events # <<>> /\ events' = Tail(events)
          /\ routed' = Head(events).seq /\ reactor' = "events"
      BY <1>3 DEF FeedInv, FeedTypes, RouteEvent
    <2>2. /\ Len(events) \in Nat /\ Len(events) >= 1 /\ Head(events) = events[1]
          /\ events[1] \in Records
      BY <2>1
    <2>3. events' \in Seq(Records) /\ Len(events') = Len(events) - 1
      BY <2>1
    <2>4. \A i \in 1..Len(events') : i + 1 \in 1..Len(events) /\ events'[i] = events[i + 1]
      BY <2>1, <2>2, <2>3
    <2>5. 1 \in 1..Len(events) /\ routed' = events[1].seq /\ routed' \in Nat
      BY <2>1, <2>2 DEF Records
    <2>6. FeedTypes'
      BY <1>1, <2>3, <2>5 DEF FeedInv, FeedTypes
    <2>7. OrderInv'
      <3>1. ASSUME NEW i \in 1..Len(events') PROVE routed' <= events'[i].seq
        BY <2>4, <2>5 DEF FeedInv, OrderInv
      <3>2. ASSUME NEW i \in 1..Len(events'), NEW j \in 1..Len(events'), i <= j
            PROVE  events'[i].seq <= events'[j].seq
        <4>1. i + 1 <= j + 1
          BY <3>2
        <4> QED BY <2>4, <4>1 DEF FeedInv, OrderInv
      <3> QED BY <3>1, <3>2 DEF OrderInv
    <2>8. \A n : UpTo(n) => UpTo(n)'
      BY <2>4, <2>5 DEF UpTo
    <2>9. RecvInv'
      BY <1>1, <2>8 DEF FeedInv, RecvInv
    <2>10. PingInv'
      BY <2>1 DEF PingInv
    <2> QED BY <2>6, <2>7, <2>9, <2>10 DEF FeedInv
  <1> QED BY <1>2, <1>3 DEF Reactor

(* Every step of the feed keeps the invariant. *)
LEMMA FeedStep ==
  ASSUME FeedInv, [FeedNext]_feedVars
  PROVE  FeedInv'
  BY StreamStep, SidecarStep, RecvDataStep, PushEventStep, RingDoorbellStep, RecvFaultedStep,
     RecvReconnectStep, ReplayRecordStep, ResumeStep, ReactorStep
     DEF FeedNext, Receive

LEMMA OrderIsRouted == FeedTypes /\ OrderInv => RoutedInOrder
  <1> SUFFICES ASSUME FeedTypes, OrderInv PROVE RoutedInOrder
    OBVIOUS
  <1> DEFINE tail == [i \in DOMAIN events |-> events[i].seq]
             seqs == <<routed>> \o tail
  <1>1. /\ Len(events) \in Nat /\ DOMAIN events = 1..Len(events)
        /\ \A i \in 1..Len(events) : events[i].seq \in Nat
    <2>1. \A i \in 1..Len(events) : events[i] \in Records
      BY DEF FeedTypes
    <2> QED BY <2>1 DEF Records, FeedTypes
  <1>2. PICK n \in Nat : n = Len(events)
    BY <1>1
  <1>3. /\ tail \in Seq(Nat) /\ Len(tail) = n
        /\ \A i \in 1..n : tail[i] = events[i].seq
    BY <1>1, <1>2
  <1> HIDE DEF tail
  <1>4. <<routed>> \in Seq(Nat) /\ Len(<<routed>>) = 1 /\ <<routed>>[1] = routed
    BY DEF FeedTypes
  <1>5. /\ Len(seqs) = 1 + n /\ seqs[1] = routed
        /\ \A i \in 1..n : seqs[i + 1] = events[i].seq
    BY <1>3, <1>4
  <1> HIDE DEF seqs
  <1>6. ASSUME NEW i \in 1..Len(seqs) - 1 PROVE seqs[i] <= seqs[i + 1]
    <2>1. i \in 1..n
      BY <1>5
    <2>2. CASE i = 1
      BY <1>2, <1>5, <2>1, <2>2 DEF OrderInv
    <2>3. CASE i > 1
      <3>1. i - 1 \in 1..n /\ (i - 1) + 1 = i /\ i - 1 <= i
        BY <2>1, <2>3
      <3>2. seqs[i] = events[i - 1].seq /\ seqs[i + 1] = events[i].seq
        BY <1>5, <2>1, <3>1
      <3> QED BY <1>2, <2>1, <3>1, <3>2 DEF OrderInv
    <2> QED BY <2>1, <2>2, <2>3
  <1> QED BY <1>6 DEF RoutedInOrder, seqs, tail

(* The reactor routes risk's stream in its order, whatever gaps, replays and
   restarts of risk come between, and never sleeps on a record without a ping
   on its way (push_event, replay_gap and the reactor's loop of rsx-gateway). *)
THEOREM FaithfulFeed == FeedSpec => []FeedIsFaithful
  <1>1. FeedInv /\ [FeedNext]_feedVars => FeedInv'
    BY FeedStep
  <1>2. FeedInv => FeedIsFaithful
    BY OrderIsRouted DEF FeedInv, PingInv, FeedIsFaithful, NoLostPing
  <1> QED BY <1>1, <1>2, FeedStart, PTL DEF FeedSpec

=============================================================================
