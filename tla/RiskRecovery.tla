---------------------------- MODULE RiskRecovery ----------------------------
(***************************************************************************)
(* The life of a risk shard's nodes: load Postgres, catch up on the        *)
(* matching engine's log, win the advisory lock, drain, go live, process   *)
(* orders and records, write behind to Postgres, and lose the process, the *)
(* lock or the persist worker at any point.                                *)
(***************************************************************************)
EXTENDS RiskShard

CONSTANTS
  Nodes,        \* the processes that can be the shard's main
  Free,         \* the lock has no holder
  Seller,       \* the orders that sell; the others buy
  Qty,          \* [Orders -> 1 .. ]
  MaxFaults     \* how often a process, a lock session or a worker is lost

VARIABLES
  wal,          \* the engine's log, as far as it can be streamed
  order,        \* where each order is: "new", "flight", "lost", "book", "gone"
  left,         \* its open quantity in the book
  shard,        \* each node's memory
  tx,           \* each node's batch in a transaction it lost the lock in
  pg,           \* Postgres
  lock,         \* the node whose session holds the advisory lock, or Free
  faults,       \* losses so far
  missed,       \* bookings a new main held and Postgres did not, at promotion
  torn,         \* bookings Postgres held ahead of its tip when it was loaded
  skewed        \* orders whose freeze or release was applied but not written

vars == <<wal, order, left, shard, tx, pg, lock, faults, missed, torn, skewed>>
engineVars == <<wal, order, left>>
ghostVars == <<missed, torn, skewed>>

Init ==
  /\ wal = <<>>
  /\ order = [o \in Orders |-> "new"]
  /\ left = Qty
  /\ shard = [n \in Nodes |-> Down]
  /\ tx = [n \in Nodes |-> <<>>]
  /\ pg = NoRows
  /\ lock = Free
  /\ faults = 0
  /\ missed = {} /\ torn = {} /\ skewed = {}

-----------------------------------------------------------------------------
(* The matching engine, as the shard sees it.                              *)

MeAccept(o) ==
  /\ order[o] = "flight"
  /\ order' = [order EXCEPT ![o] = "book"]
  /\ wal' = Append(wal, Accepted(o))
  /\ UNCHANGED <<left, shard, tx, pg, lock, faults, ghostVars>>

\* A fill-or-kill or reduce-only order that the book refuses.
MeRefuse(o) ==
  /\ order[o] = "flight"
  /\ order' = [order EXCEPT ![o] = "gone"]
  /\ wal' = wal \o <<Accepted(o), Failed(o)>>
  /\ UNCHANGED <<left, shard, tx, pg, lock, faults, ghostVars>>

MeMatch(taker, maker) ==
  LET both == {taker, maker}
      filled == SelectSeq(<<maker, taker>>, LAMBDA o : left[o] = 1)
  IN /\ order[taker] = "book" /\ order[maker] = "book"
     /\ (taker \in Seller) # (maker \in Seller)
     /\ left' = [o \in Orders |-> IF o \in both THEN left[o] - 1 ELSE left[o]]
     /\ order' = [o \in Orders |-> IF o \in ToSet(filled) THEN "gone" ELSE order[o]]
     /\ wal' = wal \o <<Fill(taker, maker)>>
                   \o [i \in DOMAIN filled |-> Done(filled[i])]
     /\ UNCHANGED <<shard, tx, pg, lock, faults, ghostVars>>

MeCancel(o) ==
  /\ order[o] = "book"
  /\ order' = [order EXCEPT ![o] = "gone"]
  /\ wal' = Append(wal, Done(o))
  /\ UNCHANGED <<left, shard, tx, pg, lock, faults, ghostVars>>

Engine ==
  \/ \E o \in Orders : MeAccept(o) \/ MeRefuse(o) \/ MeCancel(o)
  \/ \E taker, maker \in Orders : MeMatch(taker, maker)

-----------------------------------------------------------------------------
(* Boot and promotion                                                      *)

\* The orders of the records of some types, among the first ones of the log.
InLog(upto, types) ==
  {wal[seq].order : seq \in {i \in 1 .. upto : wal[i].type \in types}}

Bookings == {"pos", "acct"}

\* The bookings <<kind, user, fill>> that rows hold.
Booked(rows) ==
  UNION {{<<f, u, rows[f][u][i]>> : i \in DOMAIN rows[f][u]} :
           f \in Bookings, u \in Members}

\* A shard that has applied the log behind record number from.
Replayed(s, from) ==
  [FoldLeft(LAMBDA t, seq : ApplyRecord(t, wal[seq], seq), s,
            [i \in 1 .. Len(wal) - from |-> from + i]) EXCEPT !.applied = Len(wal)]

\* run_node up to catch-up: one repeatable-read snapshot of Postgres.
Boot(n) ==
  /\ shard[n].role = "down"
  /\ shard' = [shard EXCEPT ![n] = LoadFromPostgres(pg)]
  /\ torn' = torn \union {b \in Booked(pg) : b[3] > pg.tip}
  /\ UNCHANGED <<engineVars, tx, pg, lock, faults, missed, skewed>>

\* stream_to_caught_up: everything the log holds is streamed and applied, in
\* catch-up and in the final drain.
CatchUp(n) ==
  /\ shard[n].role \in {"warm", "drain"}
  /\ shard[n].applied < Len(wal)
  /\ shard' = [shard EXCEPT ![n] = Replayed(@, shard[n].applied)]
  /\ UNCHANGED <<engineVars, tx, pg, lock, faults, ghostVars>>

\* try_acquire, tried only when the stream is caught up.
Acquire(n) ==
  /\ shard[n].role = "warm"
  /\ shard[n].applied = Len(wal)
  /\ lock = Free
  /\ lock' = n
  /\ shard' = [shard EXCEPT ![n].role = "drain"]
  /\ UNCHANGED <<engineVars, tx, pg, faults, ghostVars>>

NoOtherLive(n) == \A m \in Nodes \ {n} : shard[m].role # "live"

\* The drain has ended, the sockets are bound (the old main has closed its
\* own) and the lease session still answers: the persist producer is set.
\* What was logged since the drain arrives by casting.  Nothing applied in
\* catch-up is written to Postgres, and an order not yet read as accepted has
\* its freeze, if any, in the memory of an earlier main.
GoLive(n) ==
  /\ shard[n].role = "drain"
  /\ lock = n
  /\ NoOtherLive(n)
  /\ shard' = [shard EXCEPT ![n].role = "live"]
  /\ missed' = missed \union (Booked(shard[n]) \ Booked(pg))
  /\ skewed' = skewed \union (shard[n].frozen \ pg.frozen)
                      \union (pg.frozen \ shard[n].frozen)
                      \union ({o \in Orders : order[o] # "new"}
                                \ InLog(shard[n].applied, {"accepted"}))
  /\ UNCHANGED <<engineVars, tx, pg, lock, faults, torn>>

Released(n) == IF lock = n THEN Free ELSE lock

\* bind's deadline passes while the old main still holds the sockets.
BindFails(n) ==
  /\ shard[n].role = "drain"
  /\ ~NoOtherLive(n)
  /\ shard' = [shard EXCEPT ![n] = Down]
  /\ lock' = Released(n)
  /\ UNCHANGED <<engineVars, tx, pg, faults, ghostVars>>

-----------------------------------------------------------------------------
(* The live loop                                                           *)

\* process_order accepts and the command is sent to the engine: it arrives,
\* is lost on the way (the engine skips gaps), or the send fails and the
\* freeze is released again.
ProcessOrder(n, o) ==
  LET frozen == Freeze(shard[n], o)
  IN /\ shard[n].role = "live"
     /\ order[o] = "new" /\ Owner[o] \in Members
     /\ \/ /\ shard' = [shard EXCEPT ![n] = frozen]
           /\ \E fate \in {"flight", "lost"} : order' = [order EXCEPT ![o] = fate]
        \/ /\ shard' = [shard EXCEPT ![n] = ReleaseFrozenForOrder(frozen, o)]
           /\ order' = [order EXCEPT ![o] = "lost"]
     /\ UNCHANGED <<wal, left, tx, pg, lock, faults, ghostVars>>

\* An order of another shard reaches the engine.
ForeignOrder(o) ==
  /\ order[o] = "new" /\ Owner[o] \notin Members
  /\ order' = [order EXCEPT ![o] = "flight"]
  /\ UNCHANGED <<wal, left, shard, tx, pg, lock, faults, ghostVars>>

\* The next record arrives by casting.
Receive(n) ==
  LET seq == shard[n].applied + 1
  IN /\ shard[n].role = "live"
     /\ seq <= Len(wal)
     /\ shard' = [shard EXCEPT ![n] =
                    [LiveRecord(@, wal[seq], seq) EXCEPT !.applied = seq]]
     /\ UNCHANGED <<engineVars, tx, pg, lock, faults, ghostVars>>

\* The next record arrives by the replay of a gap.  It is applied like a
\* record of casting but for an acceptance, whose freeze is rebuilt in memory
\* and not written.
ReplayGap(n) ==
  LET seq == shard[n].applied + 1
  IN /\ shard[n].role = "live"
     /\ seq <= Len(wal) /\ wal[seq].type = "accepted"
     /\ shard' = [shard EXCEPT ![n] =
                    [ApplyRecord(@, wal[seq], seq) EXCEPT !.applied = seq]]
     /\ skewed' = skewed \union {wal[seq].order}
     /\ UNCHANGED <<engineVars, tx, pg, lock, faults, missed, torn>>

-----------------------------------------------------------------------------
(* The persist worker                                                      *)

\* A batch is a prefix of the ring: the worker pops until it finds the ring
\* empty, and the producer fills it event by event.
Batch(n, k) == SubSeq(shard[n].ring, 1, k)
Behind(n, k) == SubSeq(shard[n].ring, k + 1, Len(shard[n].ring))

\* flush_batch in one transaction, which first checks that the session still
\* holds the lock.  A failed one is rolled back and its batch kept.
Flush(n) ==
  /\ shard[n].role = "live"
  /\ lock = n
  /\ \E k \in 1 .. Len(shard[n].ring) :
       /\ pg' = FlushBatch(pg, Batch(n, k))
       /\ shard' = [shard EXCEPT ![n].ring = Behind(n, k)]
  /\ UNCHANGED <<engineVars, tx, lock, faults, ghostVars>>

\* A transaction that passed the check before the lock was lost commits; the
\* node may be demoted by now, its worker abandoned.
LateCommit(n) ==
  /\ tx[n] # <<>>
  /\ pg' = FlushBatch(pg, tx[n])
  /\ tx' = [tx EXCEPT ![n] = <<>>]
  /\ skewed' = skewed \union {e.order : e \in ToSet(OfKind(tx[n], "insert"))}
  /\ UNCHANGED <<engineVars, shard, lock, faults, missed, torn>>

-----------------------------------------------------------------------------
(* Losses                                                                  *)

Fault == faults < MaxFaults /\ faults' = faults + 1

\* The process dies; Postgres drops its sessions, lock and transaction.
Crash(n) ==
  /\ Fault
  /\ shard[n].role # "down"
  /\ shard' = [shard EXCEPT ![n] = Down]
  /\ tx' = [tx EXCEPT ![n] = <<>>]
  /\ lock' = Released(n)
  /\ UNCHANGED <<engineVars, pg, ghostVars>>

\* The lease session is lost: Postgres frees the lock, and the node goes on,
\* possibly inside a transaction of the persist worker's own session.
LockLost(n) ==
  /\ Fault
  /\ lock = n
  /\ lock' = Free
  /\ \/ UNCHANGED <<shard, tx>>
     \/ /\ tx[n] = <<>>
        /\ \E k \in 1 .. Len(shard[n].ring) :
             /\ tx' = [tx EXCEPT ![n] = Batch(n, k)]
             /\ shard' = [shard EXCEPT ![n].ring = Behind(n, k)]
  /\ UNCHANGED <<engineVars, pg, ghostVars>>

\* A node without its lock: the lease thread or the persist worker's refused
\* flushes end the live loop (DropAndStop), a draining node fails on its
\* session.  The worker is waited for and then abandoned, so its transaction
\* may still be open.
Demote(n) ==
  /\ shard[n].role \in {"drain", "live"}
  /\ lock # n
  /\ shard' = [shard EXCEPT ![n] = Down]
  /\ UNCHANGED <<engineVars, tx, pg, lock, faults, ghostVars>>

\* The persist circuit opens: the loop ends and the lock is released.
WorkerDies(n) ==
  /\ Fault
  /\ shard[n].role = "live"
  /\ shard' = [shard EXCEPT ![n] = Down]
  /\ lock' = Released(n)
  /\ UNCHANGED <<engineVars, tx, pg, ghostVars>>

\* SIGTERM: the worker's last flush (FlushAndStop), then the process exits.
\* A last flush that fails, or that writes only a kept batch, is Flush, Crash.
Shutdown(n) ==
  /\ Fault
  /\ shard[n].role = "live"
  /\ pg' = IF lock = n THEN FlushBatch(pg, shard[n].ring) ELSE pg
  /\ shard' = [shard EXCEPT ![n] = Down]
  /\ tx' = [tx EXCEPT ![n] = <<>>]
  /\ lock' = Released(n)
  /\ UNCHANGED <<engineVars, ghostVars>>

-----------------------------------------------------------------------------
Node(n) ==
  \/ Boot(n) \/ CatchUp(n) \/ Acquire(n) \/ GoLive(n) \/ BindFails(n)
  \/ \E o \in Orders : ProcessOrder(n, o)
  \/ Receive(n) \/ ReplayGap(n)
  \/ Flush(n) \/ LateCommit(n)
  \/ Crash(n) \/ LockLost(n) \/ Demote(n) \/ WorkerDies(n) \/ Shutdown(n)

Next ==
  \/ Engine
  \/ \E o \in Orders : ForeignOrder(o)
  \/ \E n \in Nodes : Node(n)

Spec == Init /\ [][Next]_vars

-----------------------------------------------------------------------------
(* Properties                                                              *)

Up(n) == shard[n].role # "down"

FillsOf(u, upto) ==
  {seq \in 1 .. upto : wal[seq].type = "fill" /\ u \in FillUsers(wal[seq])}

\* No node misses a fill its tip covers, in a position or in an account
\* (invariant #4, process_fill; persist.rs push_persist), except a fill that
\* an earlier main had applied in catch-up and Postgres never received.
NoFillLost ==
  \A n \in Nodes, f \in Bookings, u \in Members :
    Up(n) => \A seq \in FillsOf(u, shard[n].tip) :
               <<f, u, seq>> \in Booked(shard[n]) \union missed

\* No node books a fill twice (tip dedup in process_fill, the order of the
\* rows in the ring), except one whose row was in Postgres and whose tip was
\* not when the node loaded it.
NoFillTwice ==
  \A n \in Nodes, f \in Bookings, u \in Members :
    \A i, j \in DOMAIN shard[n][f][u] :
      /\ i # j
      /\ shard[n][f][u][i] = shard[n][f][u][j]
      => <<f, u, shard[n][f][u][i]>> \in torn

\* Postgres never holds a freeze the engine did not accept (process_order,
\* confirm_freeze), whatever was lost between the check and the engine.
DurableFreezesConfirmed == pg.frozen \subseteq InLog(Len(wal), {"accepted"})

\* The margin a live shard holds frozen is that of the orders open at the
\* engine, as far as it has read the log, beside the orders whose freeze or
\* release never reached Postgres.
FreezesMatchLog ==
  \A n \in Nodes : shard[n].role = "live" =>
    LET seen == shard[n].applied
        ended == InLog(seen, {"done", "failed"})
        open == {o \in InLog(seen, {"accepted"}) \ ended : Owner[o] \in Members}
    IN /\ open \subseteq shard[n].frozen \union skewed
       /\ shard[n].frozen \intersect ended \subseteq skewed

\* Each fill is in the shard once.
EachFillOnce == NoFillLost /\ NoFillTwice

\* Reserved margin follows the orders, in memory and in Postgres.
FreezesFollowOrders == FreezesMatchLog /\ DurableFreezesConfirmed

\* A late commit of a demoted main never takes a row or the tip back.
RowsNeverGoBack ==
  [][/\ pg'.tip >= pg.tip
     /\ \A f \in Bookings, u \in Members : Len(pg'[f][u]) >= Len(pg[f][u])]_vars

\* Position = sum of fills, each once, in the live shard (process_fill,
\* invariant #4).
PositionIsSumOfFills ==
  \A n \in Nodes, u \in Members : shard[n].role = "live" =>
    /\ ToSet(shard[n].pos[u]) = FillsOf(u, shard[n].tip)
    /\ IsInjective(shard[n].pos[u])

\* The fills table has no hole below the tip (push_persist).
FillsTableComplete ==
  \A seq \in 1 .. pg.tip :
    wal[seq].type = "fill" /\ Owner[wal[seq].taker] \in Members => seq \in pg.fills
=============================================================================
