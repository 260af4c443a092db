------------------------------ MODULE Marketdata ------------------------------
(***************************************************************************)
(* The marketdata service (rsx-marketdata): one casting receiver per        *)
(* matching engine, a shadow book per symbol, the queue of every client, and *)
(* the replay that fills a gap of a stream.  One engine serves one symbol, so *)
(* a symbol names its stream.  All of it is one thread: the loop's record     *)
(* handling and the sessions interleave only where a session awaits.          *)
(*                                                                          *)
(* The receiver is what Cast shows it to be: contiguous from its first        *)
(* packet on, or a fault that asks for a replay.  The replication server is    *)
(* what Replication shows it to be: every record flushed, in order.            *)
(***************************************************************************)
EXTENDS ShadowBook, SequencesExt

CONSTANTS
    Journal,        \* per symbol 1, 2, ..., the records its engine casts
    Served,         \* the symbol whose engine RSX_MD_REPLAY_ADDR names
    Conns,          \* connection ids
    ChannelSets,    \* the channel masks clients subscribe with
    MaxOutbound,    \* RSX_MD_MAX_OUTBOUND
    MaxTipRetries,  \* attempts of one replay
    MaxAhead,       \* bound, per symbol: records cast and not yet folded in
    MaxEvents,      \* bound: faults, heartbeats, time-outs and evictions together
    MaxFrames,      \* bound: frames one client sends
    MaxBoots        \* bound: starts of the process

VARIABLES
    cast,      \* per symbol, the number of records its engine has cast
    flushed,   \* how many of them the served engine's WAL holds
    tipFile,   \* the bootstrap tip persisted beside the service
    md,        \* the process: see Booted
    sess,      \* per connection, its handler task and what the client holds
    used,      \* the bounded events so far
    spoiled    \* the symbols whose books may differ from the engines' (a history)

vars == <<cast, flushed, tipFile, md, sess, used, spoiled>>

Symbols == DOMAIN Journal

NoReplay == [active |-> FALSE]

NoConn == [present |-> FALSE, outbound |-> <<>>, pending |-> FALSE]

NoView == [seq |-> 0, levels |-> <<>>, whole |-> TRUE, broken |-> TRUE]

NoSession == [at |-> "none", sent |-> 0, view |-> [s \in Symbols |-> NoView]]

\* A started process before its bootstrap.  "recv" is a receiver's
\* expected_seq, 0 until its first packet; "expected" is the loop's own
\* stream_expected; "top" is the highest seq folded in (a history);
\* "bound" is what had been cast when a socket that has delivered nothing
\* was bound.
Booted ==
    [up |-> TRUE,
     books |-> [s \in Symbols |-> NoBook],
     subs |-> [c \in Conns |-> <<>>],
     symbolClients |-> [s \in Symbols |-> {}],
     conns |-> [c \in Conns |-> NoConn],
     recv |-> [s \in Symbols |-> 0],
     expected |-> [s \in Symbols |-> 0],
     top |-> [s \in Symbols |-> 0],
     bound |-> cast,
     replay |-> NoReplay]

Down == [Booted EXCEPT !.up = FALSE, !.bound = [s \in Symbols |-> 0]]

Init ==
    /\ cast = [s \in Symbols |-> 0]
    /\ flushed = 0
    /\ tipFile = 0
    /\ md = Down
    /\ sess = [c \in Conns |-> NoSession]
    /\ used = [events |-> 0, boots |-> 0]
    /\ spoiled = {}

-----------------------------------------------------------------------------
\* The queue of one client.

Accepts(conn) == conn.present /\ Len(conn.outbound) < MaxOutbound

\* A full queue, or a connection no longer there, takes nothing.
PushToClient(conn, frame) ==
    IF Accepts(conn)
    THEN [conn EXCEPT !.outbound = Append(@, frame), !.pending = TRUE]
    ELSE conn

\* The whole queue goes, whatever symbol its frames are of.
SendSnapshotToClient(conn, snapshot) ==
    PushToClient([conn EXCEPT !.outbound = <<>>], snapshot)

\* A delta or a trade that does not fit is replaced by a snapshot.
PushOrSnapshot(conn, frame, snapshot) ==
    IF Accepts(conn) THEN PushToClient(conn, frame)
                     ELSE SendSnapshotToClient(conn, snapshot)

Channels(m, c, s) == IF s \in DOMAIN m.subs[c] THEN m.subs[c][s] ELSE {}

ToClients(m, s, told(_, _)) ==
    [m EXCEPT !.conns = [c \in Conns |->
        IF c \in m.symbolClients[s] THEN told(@[c], Channels(m, c, s)) ELSE @[c]]]

-----------------------------------------------------------------------------
\* Folding one record into the books and telling the subscribers.

\* The delta of the level touched, then the BBO: its comparison with last_bbo
\* includes the update's number, so it always counts as changed.
BroadcastUpdates(m, s, side, px) ==
    LET book == m.books[s]
        snapshot == DeriveL2Snapshot(s, book)
        told(conn, channels) ==
            LET deep == IF "depth" \in channels
                        THEN PushOrSnapshot(conn, DeriveL2Delta(s, book, side, px), snapshot)
                        ELSE conn
            IN IF "bbo" \in channels /\ HasBbo(book)
               THEN PushToClient(deep, DeriveBbo(s, book))
               ELSE deep
    IN ToClients(m, s, told)

BroadcastTrade(m, s) ==
    LET book == m.books[s]
        told(conn, channels) ==
            IF "trades" \in channels
            THEN PushOrSnapshot(conn, MakeTrade(s, book), DeriveL2Snapshot(s, book))
            ELSE conn
    IN ToClients(m, s, told)

\* A cancel or a fill of an order the book does not know is ignored.
ApplyRecord(m, s, rec) ==
    LET book == m.books[s]
        with(b) == [m EXCEPT !.books[s] = b]
        order == OrderOf(book, rec.id)
    IN CASE rec.t = "ins" ->
              BroadcastUpdates(with(ApplyInsert(EnsureBook(book), rec)), s, rec.side, rec.px)
         [] rec.t = "can" /\ Knows(book, rec.id) ->
              BroadcastUpdates(with(ApplyCancel(book, rec.id)), s, order.side, order.px)
         [] rec.t = "fill" /\ Knows(book, rec.id) ->
              BroadcastTrade(
                  BroadcastUpdates(with(ApplyFill(book, rec.id, rec.qty)), s, order.side, order.px),
                  s)
         [] OTHER -> m

\* The records from..to of a stream, in order.
ApplyRange(m, s, from, to) ==
    LET fold(acc, seq) ==
            [ApplyRecord(acc, s, Journal[s][seq]) EXCEPT !.top[s] = Max({@, seq})]
    IN FoldLeft(fold, m, [i \in 1..(IF to < from THEN 0 ELSE to - from + 1) |-> from + i - 1])

\* A snapshot to every depth subscriber of every book; one that does not fit
\* is dropped.
ResendAllSnapshots(m) ==
    [m EXCEPT !.conns = [c \in Conns |->
        FoldLeft(LAMBDA conn, s :
                    IF m.books[s].live /\ "depth" \in Channels(m, c, s)
                    THEN PushToClient(conn, DeriveL2Snapshot(s, m.books[s]))
                    ELSE conn,
                 @[c],
                 [s \in Symbols |-> s])]]

-----------------------------------------------------------------------------
\* The engines (external): records are cast as they are written and reach the
\* WAL at its next flush.  Only the served engine's WAL is ever read here.

MeCasts(s) ==
    /\ cast[s] < Len(Journal[s]) /\ cast[s] < md.top[s] + MaxAhead[s]
    /\ cast' = [cast EXCEPT ![s] = @ + 1]
    /\ UNCHANGED <<flushed, tipFile, md, sess, used, spoiled>>

MeFlushes ==
    /\ flushed < cast[Served]
    /\ flushed' = cast[Served]
    /\ UNCHANGED <<cast, tipFile, md, sess, used, spoiled>>

Spoil(s, when) == spoiled' = IF when THEN spoiled \union {s} ELSE spoiled

-----------------------------------------------------------------------------
\* Starting and stopping.

Starts ==
    /\ ~md.up /\ used.boots < MaxBoots
    /\ used' = [used EXCEPT !.boots = @ + 1]
    /\ UNCHANGED <<cast, flushed, sess>>

\* The bootstrap asks for what follows the tip file's seq, collects every
\* record up to CAUGHT_UP, and folds them in; the tip is persisted.  The
\* sockets are bound afterwards.
Boot ==
    /\ Starts
    /\ md' = ApplyRange(Booted, Served, tipFile + 1, flushed)
    /\ tipFile' = Max({tipFile, flushed})
    /\ Spoil(Served, tipFile > 0)

\* The bootstrap fails: nothing it collected is folded in, though the tip may
\* have been persisted on the way.
BootFails ==
    /\ Starts
    /\ md' = Booted
    /\ tipFile' \in tipFile..Max({tipFile, flushed})
    /\ UNCHANGED spoiled

\* The process ends; its sockets close with it.  A failed drain of a replay
\* panics, and ends it too.
Stop ==
    /\ md.up /\ used.boots < MaxBoots
    /\ md' = Down
    /\ sess' = [c \in Conns |-> IF sess[c].at = "none" THEN NoSession
                                ELSE [NoSession EXCEPT !.at = "closed"]]
    /\ spoiled' = {}
    /\ UNCHANGED <<cast, flushed, tipFile, used>>

-----------------------------------------------------------------------------
\* The loop.

Looping == md.up /\ ~md.replay.active

\* The record a receiver delivers: the next one, or the first packet it sees
\* on a socket that has delivered none.
Delivered(s, seq) ==
    IF md.recv[s] = 0 THEN seq \in (md.bound[s] + 1)..cast[s]
                      ELSE seq = md.recv[s] /\ seq <= cast[s]

\* A jump of the loop's own counter: snapshots to everyone.
NoteGap(m, s, seq) ==
    IF m.expected[s] # 0 /\ seq > m.expected[s]
    THEN ResendAllSnapshots(m)
    ELSE m

Received(s, seq) ==
    ApplyRange([NoteGap(md, s, seq) EXCEPT
                    !.expected[s] = IF seq >= @ THEN seq + 1 ELSE @,
                    !.recv[s] = seq + 1,
                    !.bound[s] = 0],
               s, seq, seq)

\* A record folded in before, or the first packet behind some not folded in.
OutOfPlace(s, seq) == seq <= md.top[s] \/ (md.recv[s] = 0 /\ seq # md.top[s] + 1)

Deliver(s) ==
    /\ Looping
    /\ \E seq \in 1..cast[s] :
        /\ Delivered(s, seq)
        /\ md' = Received(s, seq)
        /\ Spoil(s, OutOfPlace(s, seq))
    /\ UNCHANGED <<cast, flushed, tipFile, sess, used>>

\* FAULTED with its gap, or RECONNECT without one: the loop enters
\* handle_replay and does nothing else until it returns.  A fault entered on a
\* heartbeat lets the same call deliver the record it waited for; the next
\* call, which follows at once, reports the position from before it.
Faulted(s) ==
    LET next == md.recv[s]
        replaying(gapEnd) == [active |-> TRUE, sym |-> s, last |-> next - 1,
                              gapEnd |-> gapEnd, tries |-> 0]
    IN /\ Looping
       /\ used.events < MaxEvents
       /\ next # 0 /\ next <= cast[s]
       /\ \/ /\ \E gapEnd \in {0} \union (next..cast[s]) :
                    md' = [md EXCEPT !.replay = replaying(gapEnd)]
             /\ UNCHANGED spoiled
          \/ /\ \E gapEnd \in next..cast[s] :
                    md' = [Received(s, next) EXCEPT !.replay = replaying(gapEnd)]
             /\ Spoil(s, OutOfPlace(s, next))
       /\ used' = [used EXCEPT !.events = @ + 1]
       /\ UNCHANGED <<cast, flushed, tipFile, sess>>

\* Where the receiver resumes: it takes the tip as delivered.
ResetAfterReplay(m, s, tip) == [m EXCEPT !.recv[s] = tip + 1, !.replay = NoReplay]

\* One drain: every flushed record after the last delivered seq, from the one
\* replication server there is.  Short of the gap's end it is tried again from
\* the same seq, a bounded number of times.
ReplayAttempt ==
    LET r == md.replay
        tip == IF r.last > flushed THEN r.last ELSE flushed
        drained == ApplyRange(md, Served, r.last + 1, flushed)
        repeats == tip > r.last /\ md.top[Served] > r.last
    IN /\ md.up /\ r.active
       /\ md' = IF tip < r.gapEnd /\ r.tries + 1 < MaxTipRetries
                THEN [drained EXCEPT !.replay.tries = @ + 1]
                ELSE ResetAfterReplay(drained, r.sym, tip)
       /\ spoiled' = spoiled \union (IF repeats THEN {Served} ELSE {})
                             \union (IF r.sym # Served THEN {Served, r.sym} ELSE {})
       /\ UNCHANGED <<cast, flushed, tipFile, sess, used>>

\* Every connection is sent a heartbeat, past the cap too.
BroadcastHeartbeat ==
    /\ Looping /\ used.events < MaxEvents
    /\ md' = [md EXCEPT !.conns = [c \in Conns |->
                IF @[c].present
                THEN [@[c] EXCEPT !.outbound = Append(@, [kind |-> "beat"]), !.pending = TRUE]
                ELSE @[c]]]
    /\ used' = [used EXCEPT !.events = @ + 1]
    /\ UNCHANGED <<cast, flushed, tipFile, sess, spoiled>>

RemoveConnection(m, c) ==
    [m EXCEPT !.conns[c] = NoConn,
              !.subs[c] = <<>>,
              !.symbolClients = [s \in Symbols |->
                                    IF s \in DOMAIN m.subs[c] THEN @[s] \ {c} ELSE @[s]]]

\* A connection idle for the timeout is forgotten; its handler task and its
\* socket stay as they are.  Which ones are idle is the clock's choice.
CheckTimeouts ==
    /\ Looping /\ used.events < MaxEvents
    /\ \E c \in Conns : md.conns[c].present /\ md' = RemoveConnection(md, c)
    /\ used' = [used EXCEPT !.events = @ + 1]
    /\ UNCHANGED <<cast, flushed, tipFile, sess, spoiled>>

\* Nobody subscribes to it; that it has been idle for the TTL is the clock's
\* choice.
Evictable(s) == md.books[s].live /\ md.symbolClients[s] = {}

EvictStaleBooks(s) ==
    /\ Looping /\ Evictable(s) /\ used.events < MaxEvents
    /\ used' = [used EXCEPT !.events = @ + 1]
    /\ md' = [md EXCEPT !.books[s] = NoBook]
    /\ Spoil(s, HasBbo(md.books[s]))
    /\ UNCHANGED <<cast, flushed, tipFile, sess>>

-----------------------------------------------------------------------------
\* One client's handler task.  It runs from one await to the next: the writes
\* of the frames it drained, and the select of a readable socket and the
\* egress wake.  A view is what the client holds once the frames drained for
\* it are written.

\* What the client makes of a frame: a snapshot replaces its levels, a delta
\* sets one, and a delta that does not follow on tells it to subscribe again.
SetLevel(levels, at, level) ==
    IF level.qty = 0 THEN Restrict(levels, DOMAIN levels \ {at})
                     ELSE (at :> level) @@ levels

Seen(view, frame) ==
    CASE frame.kind = "snapshot" ->
            [view EXCEPT ![frame.sym] =
                [seq |-> frame.seq, levels |-> frame.levels, whole |-> frame.whole,
                 broken |-> FALSE]]
      [] frame.kind = "delta" ->
            [view EXCEPT ![frame.sym] =
                [seq |-> frame.seq,
                 levels |-> SetLevel(@.levels, frame.at, frame.level),
                 whole |-> @.whole,
                 broken |-> @.broken \/ frame.seq # @.seq + 1]]
      [] OTHER -> view

\* The top of the handler's loop: the queue is taken, and all its frames are
\* written before the task looks at its socket again.
DrainOutbound(m, c, sent) ==
    LET frames == m.conns[c].outbound IN
    /\ md' = [m EXCEPT !.conns[c].outbound = <<>>]
    /\ sess' = [sess EXCEPT ![c].at = IF frames = <<>> THEN "select" ELSE "write",
                            ![c].sent = @ + sent,
                            ![c].view = FoldLeft(Seen, @, frames)]

Session == UNCHANGED <<cast, flushed, tipFile, used, spoiled>>

AddConnection(c) ==
    /\ Looping /\ sess[c].at = "none"
    /\ \A b \in Conns : b < c => sess[b].at # "none"
    /\ md' = [md EXCEPT !.conns[c].present = TRUE]
    /\ sess' = [sess EXCEPT ![c].at = "select"]
    /\ Session

Closed(c) ==
    /\ md' = RemoveConnection(md, c)
    /\ sess' = [sess EXCEPT ![c] = [NoSession EXCEPT !.at = "closed"]]

Written(c) ==
    /\ Looping /\ sess[c].at = "write"
    /\ sess' = [sess EXCEPT ![c].at = "select"]
    /\ UNCHANGED md
    /\ Session

WriteFails(c) == Looping /\ sess[c].at = "write" /\ Closed(c) /\ Session

\* Parked, and signalled: the pending bit is taken and the queue drained.
Wake(c) ==
    /\ Looping /\ sess[c].at = "select" /\ md.conns[c].pending
    /\ DrainOutbound([md EXCEPT !.conns[c].pending = FALSE], c, 0)
    /\ Session

\* A frame read from the client; the loop's top follows at once.
Reads(c, m) ==
    /\ Looping /\ sess[c].at = "select" /\ sess[c].sent < MaxFrames
    /\ DrainOutbound(m, c, 1)
    /\ Session

Subscribed(m, c, s, channels) ==
    [m EXCEPT !.subs[c] = (s :> channels) @@ @,
              !.symbolClients[s] = @ \union {c}]

Subscribe(c, s, channels) ==
    LET m == Subscribed(md, c, s, channels) IN
    Reads(c, IF "depth" \in channels
             THEN [m EXCEPT !.conns[c] =
                        SendSnapshotToClient(@, DeriveL2Snapshot(s, m.books[s]))]
             ELSE m)

Unsubscribe(c, s) ==
    Reads(c, [md EXCEPT !.subs[c] = Restrict(@, DOMAIN @ \ {s}),
                        !.symbolClients[s] = @ \ {c}])

\* Symbol 0 in an unsubscribe stands for all of them.
UnsubscribeAll(c) ==
    Reads(c, [RemoveConnection(md, c) EXCEPT !.conns[c] = md.conns[c]])

Heartbeat(c) ==
    Reads(c, [md EXCEPT !.conns[c] = PushToClient(@, [kind |-> "beat"])])

\* The client closes, or the read fails.
Leaves(c) == Looping /\ sess[c].at = "select" /\ Closed(c) /\ Session

-----------------------------------------------------------------------------
Engines == MeFlushes \/ \E s \in Symbols : MeCasts(s)

Loop ==
    \/ \E s \in Symbols : Deliver(s) \/ Faulted(s) \/ EvictStaleBooks(s)
    \/ ReplayAttempt
    \/ BroadcastHeartbeat
    \/ CheckTimeouts

Handler(c) ==
    \/ AddConnection(c)
    \/ Written(c)
    \/ WriteFails(c)
    \/ Wake(c)
    \/ \E s \in Symbols, channels \in ChannelSets : Subscribe(c, s, channels)
    \/ \E s \in Symbols : Unsubscribe(c, s)
    \/ UnsubscribeAll(c)
    \/ Heartbeat(c)
    \/ Leaves(c)

Next == Engines \/ Boot \/ BootFails \/ Stop \/ Loop \/ \E c \in Conns : Handler(c)

Spec == Init /\ [][Next]_vars

-----------------------------------------------------------------------------
\* The variables have their types, and no queue outgrows the cap by more than
\* the heartbeats, which push_to_client does not see.
TypeOK ==
    /\ cast \in [Symbols -> Nat] /\ flushed \in Nat /\ tipFile \in Nat
    /\ \A c \in Conns :
        /\ sess[c].at \in {"none", "select", "write", "closed"}
        /\ Len(md.conns[c].outbound) <= MaxOutbound + used.events

\* What a client will hold of a symbol when it has every frame queued for it.
Coming(c, s) ==
    FoldLeft(Seen, sess[c].view, md.conns[c].outbound)[s]

\* No silent loss (rsx-marketdata/ARCHITECTURE.md, Backpressure; webproto's
\* rule that a subscriber re-subscribes when seq jumps by more than 1): a
\* depth subscriber that is up to the book's seq, with no jump on the way,
\* holds the book's levels, all of them if its snapshot left none out.
\* Cleared queues, resent snapshots, replays and resubscriptions included.
ViewFollowsBook ==
    \A c \in Conns, s \in Symbols :
        LET view == Coming(c, s)
            levels == AllLevels(md.books[s])
        IN md.conns[c].present /\ "depth" \in Channels(md, c, s)
           /\ ~view.broken /\ view.seq = md.books[s].seq
           => /\ \A at \in DOMAIN view.levels :
                    at \in DOMAIN levels /\ view.levels[at] = levels[at]
              /\ view.whole => view.levels = levels

\* A depth subscriber's view is never ahead of the book: no eviction, replay
\* or cleared queue restarts the numbering under a client that is subscribed,
\* so being behind always shows as a jump at the next delta.
NeverAhead ==
    \A c \in Conns, s \in Symbols :
        md.conns[c].present /\ "depth" \in Channels(md, c, s)
        => Coming(c, s).seq <= md.books[s].seq

\* The orders resting at a symbol's engine after its first n records.
MeResting(s, n) ==
    LET placed == {i \in 1..n : Journal[s][i].t = "ins"}
        left(i) == Journal[s][i].qty -
            MapThenSumSet(LAMBDA k : Journal[s][k].qty,
                {k \in 1..n : Journal[s][k].t = "fill" /\ Journal[s][k].id = Journal[s][i].id})
        gone(i) == \E k \in 1..n : Journal[s][k].t = "can" /\ Journal[s][k].id = Journal[s][i].id
    IN [i \in {j \in placed : left(j) > 0 /\ ~gone(j)} |->
            [side |-> Journal[s][i].side, px |-> Journal[s][i].px, qty |-> left(i)]]

\* And its levels.
MeLevels ==
    [s \in Symbols |-> [n \in 0..Len(Journal[s]) |->
        AllLevels([NoBook EXCEPT !.slots = MeResting(s, n)])]]

\* The shadow book is the engine's: its levels are those of the orders resting
\* at the engine after the last record folded in, so that faults, short replays
\* and the jumps they leave make no hole in a stream.  There are six
\* exceptions: records were missed before the first packet; skipped by the tip
\* file; replayed from the wrong engine; replayed twice by a retry; replayed,
\* or delivered again, behind a fault whose call had delivered one more; or
\* dropped by an eviction.
BookIsTheEngines ==
    \A s \in Symbols :
        md.up /\ s \notin spoiled
        => AllLevels(md.books[s]) = MeLevels[s][md.top[s]]

\* No lost wake (egress.rs): a handler parked on its select with frames in
\* its queue has a signal pending.
NoLostWake ==
    \A c \in Conns :
        sess[c].at = "select" /\ md.conns[c].outbound # <<>> => md.conns[c].pending

\* The two subscription indexes agree: a client's symbols, and a symbol's
\* clients, whom broadcasts and eviction go by, also after time-outs and
\* subscriptions of a client whose connection is already forgotten.
IndexesAgree ==
    \A c \in Conns, s \in Symbols :
        s \in DOMAIN md.subs[c] <=> c \in md.symbolClients[s]

\* A depth subscriber follows the book or can tell that it does not, and is
\* found by every broadcast and woken for what is queued.
ClientsFollowBooks == ViewFollowsBook /\ NeverAhead /\ NoLostWake /\ IndexesAgree
=============================================================================
