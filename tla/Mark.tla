--------------------------------- MODULE Mark ---------------------------------
(***************************************************************************)
(* The mark price aggregator (rsx-mark) and risk's receiver of its stream.   *)
(* A task per exchange feed pushes prices onto a ring; one loop drains the   *)
(* rings, keeps the last price of every source, publishes the median of the   *)
(* fresh ones, and sweeps out the sources that have gone stale.  A record is   *)
(* numbered, appended to the WAL buffer and cast before it is on disk, so a    *)
(* restart takes numbers again that risk has already seen.                     *)
(*                                                                          *)
(* The clock counts sweep intervals.  The loop makes a pass every 250us, so a  *)
(* sweep that is due is made before the clock moves on.                        *)
(***************************************************************************)
EXTENDS Integers, Sequences, FiniteSets, FiniteSetsExt, SequencesExt

CONSTANTS
    Sources,      \* configured feeds, numbered from 0
    Symbols,      \* symbol ids
    Prices,       \* what a feed may quote: a well-formed price is positive
    Staleness,    \* RSX_MARK_STALENESS_NS, in sweep intervals
    RingSize,     \* capacity of a source's ring
    BufferLimit,  \* records the WAL buffer holds before append refuses
    MaxRetries,   \* failed dials in a row before a source gives up
    MaxTime,      \* bound: the clock
    MaxUpdates,   \* bound: prices quoted
    MaxLag,       \* bound: records in flight when an update is aggregated
    MaxFaults     \* bound: failed dials and flushes, faults of the stream and kills

ASSUME MarkAssumption ==
    /\ Sources = 0..(Cardinality(Sources) - 1)
    /\ Prices \subseteq Nat \ {0}
    /\ Staleness \in Nat \ {0} /\ RingSize \in Nat \ {0}

VARIABLES
    now,      \* the clock
    feed,     \* per source, its task's failed dials in a row
    ring,     \* per source, its ring
    mark,     \* the process: see Started
    disk,     \* the highest seq on disk
    wire,     \* the stream to risk: records cast and not yet received
    risk,     \* risk's expected_seq (0 before the first packet) and mark_prices
    lost,     \* symbols whose newest mark never got to risk (a history)
    used      \* the bounded events so far

vars == <<now, feed, ring, mark, disk, wire, risk, lost, used>>

None == [price |-> 0, ts |-> 0]

NoState ==
    [sources |-> [s \in Sources |-> None], price |-> 0, mask |-> {}, count |-> 0]

\* New records are numbered after the highest seq on disk.
OpenWalWriter(highest) == [next |-> highest + 1, buffer |-> <<>>]

\* A process that has just entered its loop: "at" is the ring being drained,
\* or the number of sources when the sweep is next.
Started(highest) ==
    [up |-> TRUE, at |-> 0, swept |-> now,
     states |-> [y \in Symbols |-> NoState],
     wal |-> OpenWalWriter(highest)]

Stopped == [Started(0) EXCEPT !.up = FALSE, !.swept = 0]

Dialing == [s \in Sources |-> 0]

NoRings == [s \in Sources |-> <<>>]

Init ==
    /\ now = 0
    /\ feed = Dialing
    /\ ring = NoRings
    /\ mark = Started(0)
    /\ disk = 0
    /\ wire = <<>>
    /\ risk = [expected |-> 0, mark |-> [y \in Symbols |-> 0]]
    /\ lost = {}
    /\ used = [updates |-> 0, faults |-> 0]

-----------------------------------------------------------------------------
\* Aggregation.

\* The sources younger than the staleness: what reaggregate collects, and what
\* the published mask names.
ComputeMask(state, at) ==
    {s \in Sources : state.sources[s] # None /\ at - state.sources[s].ts < Staleness}

\* Mutant of Median: the upper of the two middle prices.
MedianUpper(sorted) == sorted[Len(sorted) \div 2 + 1]

\* Two prices are averaged; of an even number above two, the lower of the two
\* in the middle is taken.
Median(sorted) ==
    LET n == Len(sorted) IN
    IF n % 2 = 1 THEN sorted[n \div 2 + 1]
    ELSE IF n = 2
         THEN (sorted[1] \div 2) + (sorted[2] \div 2) + (((sorted[1] % 2) + (sorted[2] % 2)) \div 2)
         ELSE sorted[n \div 2]

SortedPrices(state, sources) ==
    LET price(s) == state.sources[s].price
        order == SetToSortSeq(sources, LAMBDA s, t :
                        price(s) < price(t) \/ (price(s) = price(t) /\ s < t))
    IN [i \in DOMAIN order |-> price(order[i])]

\* With no fresh source the last price stays and no event is made of it.
Reaggregate(state, at) ==
    LET fresh == ComputeMask(state, at) IN
    [state EXCEPT !.mask = fresh,
                  !.count = Cardinality(fresh),
                  !.price = IF fresh = {} THEN @ ELSE Median(SortedPrices(state, fresh))]

-----------------------------------------------------------------------------
\* Publishing: a seq is taken, the record appended to the WAL buffer, and cast
\* if that worked.  A full buffer leaves a hole in the numbering.

Appends(wal) == Len(wal.buffer) <= BufferLimit

\* The process, the stream and the history after publishing the marks of
\* "symbols", in order.
Publish(p, symbols) ==
    LET publish(acc, y) ==
            LET seq == acc.p.wal.next IN
            IF Appends(acc.p.wal)
            THEN [acc EXCEPT !.p.wal = [next |-> seq + 1, buffer |-> Append(@.buffer, seq)],
                             !.wire = Append(@, [seq |-> seq, sym |-> y,
                                                 price |-> acc.p.states[y].price]),
                             !.lost = @ \ {y}]
            ELSE [acc EXCEPT !.p.wal.next = @ + 1, !.lost = @ \union {y}]
        end == FoldLeft(publish, [p |-> p, wire |-> wire, lost |-> lost], symbols)
    IN /\ mark' = end.p
       /\ wire' = end.wire
       /\ lost' = end.lost

-----------------------------------------------------------------------------
\* The loop.

Draining == mark.up /\ mark.at \in Sources

\* A pop; an update that has gone stale on its ring is skipped.
PopUpdate ==
    /\ Draining /\ ring[mark.at] # <<>> /\ Len(wire) <= MaxLag
    /\ ring' = [ring EXCEPT ![mark.at] = Tail(@)]
    /\ LET u == Head(ring[mark.at])
           state == Reaggregate([mark.states[u.sym] EXCEPT
                                    !.sources[mark.at] = [price |-> u.price, ts |-> u.ts]], now)
       IN IF now - u.ts >= Staleness
          THEN UNCHANGED <<mark, wire, lost>>
          ELSE Publish([mark EXCEPT !.states[u.sym] = state], <<u.sym>>)
    /\ UNCHANGED <<now, feed, disk, risk, used>>

NextRing ==
    /\ Draining /\ ring[mark.at] = <<>>
    /\ mark' = [mark EXCEPT !.at = @ + 1]
    /\ UNCHANGED <<now, feed, ring, disk, wire, risk, lost, used>>

SweepDue == now > mark.swept

Changed(state) == ComputeMask(state, now) # state.mask

\* Mutant of SweepStale: the new mark is kept to the process.
SweepStaleSilently ==
    /\ mark' = [mark EXCEPT !.states = [y \in Symbols |->
                                IF Changed(@[y]) THEN Reaggregate(@[y], now) ELSE @[y]],
                            !.swept = now]
    /\ UNCHANGED <<wire, lost>>

\* Every symbol whose set of fresh sources has changed is aggregated again and
\* published, unless none of its sources is fresh.
SweepStale ==
    LET swept == [y \in Symbols |-> IF Changed(mark.states[y])
                                    THEN Reaggregate(mark.states[y], now)
                                    ELSE mark.states[y]]
        told == {y \in Symbols : Changed(mark.states[y]) /\ swept[y].count > 0}
    IN Publish([mark EXCEPT !.states = swept, !.swept = now],
               SetToSortSeq(told, LAMBDA a, b : a < b))

Sweep ==
    /\ mark.up /\ mark.at = Cardinality(Sources) /\ SweepDue
    /\ SweepStale
    /\ UNCHANGED <<now, feed, ring, disk, risk, used>>

Highest(wal) == IF wal.buffer = <<>> THEN disk ELSE Last(wal.buffer)

\* The end of a pass: the WAL is flushed if its interval has passed.
PassEnds(flushed) ==
    /\ mark.up /\ mark.at = Cardinality(Sources) /\ ~SweepDue
    /\ mark' = [mark EXCEPT !.at = 0, !.wal.buffer = IF flushed THEN <<>> ELSE @]
    /\ disk' = IF flushed THEN Highest(mark.wal) ELSE disk
    /\ UNCHANGED <<now, feed, ring, wire, risk, lost>>

Flush == PassEnds(TRUE) /\ UNCHANGED used

\* The flush fails and leaves the buffer for the next one, or is not yet due.
FlushLater ==
    /\ mark.wal.buffer # <<>> /\ used.faults < MaxFaults
    /\ used' = [used EXCEPT !.faults = @ + 1]
    /\ PassEnds(FALSE)

\* SIGTERM between two passes: the buffer is flushed, or the flush fails.
Shutdown ==
    /\ mark.up /\ mark.at = 0
    /\ disk' \in {disk, Highest(mark.wal)}
    /\ mark' = Stopped
    /\ UNCHANGED <<now, wire, risk, lost>>

Kill ==
    /\ mark.up
    /\ mark' = Stopped
    /\ UNCHANGED <<now, disk, wire, risk, lost>>

\* Either way the rings and the feeds' tasks end with the process.
Ends ==
    /\ used.faults < MaxFaults
    /\ used' = [used EXCEPT !.faults = @ + 1]
    /\ Shutdown \/ Kill
    /\ feed' = Dialing
    /\ ring' = NoRings

Start ==
    /\ ~mark.up
    /\ mark' = Started(disk)
    /\ UNCHANGED <<now, feed, ring, disk, wire, risk, lost, used>>

-----------------------------------------------------------------------------
\* A source's task.  That it is connected shows only in what it pushes, so a
\* message stands for the dial before it too; and a connection that breaks
\* only leads to the next dial.

Feed(s, errors) ==
    /\ mark.up /\ feed[s] <= MaxRetries
    /\ feed' = [feed EXCEPT ![s] = errors]
    /\ UNCHANGED <<now, mark, disk, wire, risk, lost>>

\* Past the retry budget the source stops for good.
ConnectFails(s) ==
    /\ used.faults < MaxFaults
    /\ used' = [used EXCEPT !.faults = @ + 1]
    /\ Feed(s, feed[s] + 1)
    /\ UNCHANGED ring

\* A full ring drops the newest.
Pushed(queue, update) == IF Len(queue) < RingSize THEN Append(queue, update) ELSE queue

\* A text message that parses to a price of a configured symbol; any other
\* one changes nothing.
HandleMsg(s) ==
    /\ used.updates < MaxUpdates
    /\ \E y \in Symbols, price \in Prices :
        ring' = [ring EXCEPT ![s] = Pushed(@, [sym |-> y, price |-> price, ts |-> now])]
    /\ used' = [used EXCEPT !.updates = @ + 1]
    /\ Feed(s, 0)

-----------------------------------------------------------------------------
\* Risk's receiver: Cast shows it to hand out consecutive records, to drop one
\* it is past, and to fault on one it cannot get.

Receive ==
    /\ wire # <<>>
    /\ LET rec == Head(wire) IN
        /\ risk.expected = 0 \/ rec.seq <= risk.expected
        /\ IF rec.seq < risk.expected
           THEN /\ lost' = IF \E i \in 2..Len(wire) : wire[i].sym = rec.sym
                           THEN lost ELSE lost \union {rec.sym}
                /\ UNCHANGED risk
           ELSE /\ risk' = [expected |-> rec.seq + 1,
                            mark |-> [risk.mark EXCEPT ![rec.sym] = rec.price]]
                /\ UNCHANGED lost
    /\ wire' = Tail(wire)
    /\ UNCHANGED <<now, feed, ring, mark, disk, used>>

\* A record lost for good or, without a choice, a hole in the numbering: what
\* the replay drains is thrown away, and the receiver resumes behind it.
Faulted ==
    LET hole == wire # <<>> /\ risk.expected < Head(wire).seq IN
    /\ risk.expected # 0
    /\ (hole /\ disk >= risk.expected) \/ (wire # <<>> /\ used.faults < MaxFaults)
    /\ used' = [used EXCEPT !.faults = IF hole THEN @ ELSE @ + 1]
    /\ risk' = [risk EXCEPT !.expected = IF disk >= @ THEN disk + 1 ELSE @]
    /\ UNCHANGED <<now, feed, ring, mark, disk, wire, lost>>

-----------------------------------------------------------------------------
Tick ==
    /\ now < MaxTime
    /\ mark.up => ~SweepDue
    /\ now' = now + 1
    /\ UNCHANGED <<feed, ring, mark, disk, wire, risk, lost, used>>

Next ==
    \/ PopUpdate \/ NextRing \/ Sweep \/ Flush \/ FlushLater
    \/ Ends \/ Start
    \/ \E s \in Sources : ConnectFails(s) \/ HandleMsg(s)
    \/ Receive \/ Faulted
    \/ Tick

Spec == Init /\ [][Next]_vars

-----------------------------------------------------------------------------
\* The variables have their types; no ring outgrows its capacity.
TypeOK ==
    /\ now \in 0..MaxTime /\ disk \in Nat
    /\ \A s \in Sources : Len(ring[s]) <= RingSize
    /\ mark.at \in 0..Cardinality(Sources)
    /\ lost \subseteq Symbols

\* A price that at least half of the quotes reach from either side, so that a
\* single wrong feed among three cannot move it past the other two; of two
\* quotes, their mean.
IsMiddle(price, state) ==
    LET quoted(s) == state.sources[s].price
        n == Cardinality(state.mask)
        below == {s \in state.mask : quoted(s) <= price}
        above == {s \in state.mask : quoted(s) >= price}
    IN IF n = 2
       THEN price = MapThenSumSet(quoted, state.mask) \div 2
       ELSE 2 * Cardinality(below) >= n /\ 2 * Cardinality(above) >= n

\* The mark a symbol shows is the middle of the prices its mask names, through
\* every mixture of updates, sweeps, sources gone stale and come back
\* (reaggregate, sweep_stale): no source is in the mark and not in the mask,
\* or the other way round, and a source that has gone quiet leaves both within
\* one sweep of going stale, whatever the other sources do.
MarkIsMiddle ==
    \A y \in Symbols :
        LET state == mark.states[y] IN
        /\ state.count = Cardinality(state.mask)
        /\ state.mask # {} => IsMiddle(state.price, state)
        /\ \A s \in state.mask : now - state.sources[s].ts <= Staleness

\* Risk margins with the mark the aggregator shows: once the stream is drained
\* a symbol's mark is the one last aggregated, unless its newest record was
\* refused by the WAL buffer, taken for an old one after a restart, or thrown
\* away with a replay.  The sweep's marks are on the stream like any other.
RiskHoldsTheMark ==
    wire = <<>> => \A y \in Symbols \ lost :
        mark.states[y].price # 0 => risk.mark[y] = mark.states[y].price

\* No number on disk is given out again, however the process ended: the WAL's
\* buffer ascends, and lies between the disk and the next number.
NumbersAhead ==
    mark.up =>
        LET b == mark.wal.buffer IN
        /\ mark.wal.next > disk
        /\ \A i \in DOMAIN b : disk < b[i] /\ b[i] < mark.wal.next
        /\ \A i, j \in DOMAIN b : i < j => b[i] < b[j]

\* Marks reach risk, under numbers that a restart never takes back from disk.
MarksReachRisk == RiskHoldsTheMark /\ NumbersAhead
=============================================================================
