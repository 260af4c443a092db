---------------------------- MODULE RiskFunding -----------------------------
(***************************************************************************)
(* Funding across the mains of a risk shard: a main charges an interval in *)
(* memory and queues one persist event for it, its worker writes behind,   *)
(* and whoever is promoted next takes over what Postgres recorded.         *)
(*                                                                         *)
(* One symbol and one account: every account is charged by the same code,  *)
(* and no row depends on another's.  A collateral is abstracted to what    *)
(* was taken from it: how many fill fees, and which funding payments in    *)
(* which order.  Its version is the number of those charges.  The payment  *)
(* of an interval depends on the prices when it is settled, so two mains   *)
(* settle one interval by different amounts.  Prices are known.            *)
(***************************************************************************)
EXTENDS Integers, Sequences, FiniteSets, SequencesExt

CONSTANTS
  Mains,        \* the processes that can be the shard's main
  Nobody,       \* the advisory lock has no holder
  Payment,      \* [Mains -> Nat]: what an open position pays at their prices
  OpenAfter,    \* the fills behind which the position is open
  MaxHour,      \* bound on the clock, in funding intervals
  MaxTraded,    \* bound on the fills
  MaxLosses     \* how often a process, a lock session or a worker is lost

VARIABLES
  main,         \* each process' memory
  openTx,       \* the batch of a transaction that outlived its lock session
  tables,       \* Postgres
  lease,        \* the process whose session holds the advisory lock
  hour,         \* the current funding interval
  traded,       \* fills in the engine's log
  losses,
  overtaken,    \* processes with such a transaction behind whose lock another
                \* was promoted
  late          \* an overtaken transaction has recorded an interval

fundingVars == <<main, openTx, tables, lease, hour, traded, losses, overtaken, late>>
ghosts == <<overtaken, late>>

Unsettled == -1         \* funding_settled is None

-----------------------------------------------------------------------------
(* Accounts and events                                                     *)

NewAccount == [feeCount |-> 0, paid |-> <<>>]
Version(a) == a.feeCount + Len(a.paid)

\* deduct_fee, for a fill and for a funding payment
ChargeFee(a) == [a EXCEPT !.feeCount = @ + 1]
ChargeFunding(a, payments) == [a EXCEPT !.paid = @ \o payments]

AccountEvent(a) == [kind |-> "account", row |-> a]
TipEvent(seq) == [kind |-> "tip", seq |-> seq]
SettlementEvent(id, payments, rows) ==
  [kind |-> "settlement", id |-> id, payments |-> payments, rows |-> rows]

Stopped == [role |-> "down", account |-> NewAccount, tip |-> 0,
            settled |-> Unsettled, queue |-> <<>>]

\* process_fill of the next fill: a main that is not live has no producer.
BookFill(s) ==
  LET a == ChargeFee(s.account)
  IN [s EXCEPT !.account = a, !.tip = @ + 1,
               !.queue = IF s.role = "live"
                         THEN @ \o <<AccountEvent(a), TipEvent(s.tip + 1)>> ELSE @]

PaymentOf(s, id, amount) ==
  IF s.tip \in OpenAfter THEN <<[id |-> id, amount |-> amount]>> ELSE <<>>

\* try_settle_interval with prices: the exposed account is charged, and the
\* payment, the charged row and the interval are one event.
TrySettleInterval(s, id, amount) ==
  LET payments == PaymentOf(s, id, amount)
      a == ChargeFunding(s.account, payments)
      rows == IF payments = <<>> THEN <<>> ELSE <<a>>
  IN [s EXCEPT !.account = a, !.settled = id,
               !.queue = Append(@, SettlementEvent(id, payments, rows))]

\* The intervals maybe_settle_funding settles: all since the last one, or the
\* current one if none was ever settled.
MissingIntervals(s) ==
  LET first == IF s.settled = Unsettled THEN hour ELSE s.settled + 1
  IN [i \in 1 .. hour - first + 1 |-> first + i - 1]

-----------------------------------------------------------------------------
(* Postgres                                                                *)

NoTables == [account |-> NewAccount, tip |-> 0, funding |-> {}, intervals |-> {}]

\* upsert_accounts: a row of a lower version is passed over.
UpsertAccount(db, a) ==
  IF Version(db.account) <= Version(a) THEN [db EXCEPT !.account = a] ELSE db

\* upsert_tips: GREATEST
UpsertTip(db, seq) == IF seq > db.tip THEN [db EXCEPT !.tip = seq] ELSE db

\* insert_funding
InsertFunding(db, payments) == [db EXCEPT !.funding = @ \union ToSet(payments)]

\* insert_funding_intervals
InsertInterval(db, id) == [db EXCEPT !.intervals = @ \union {id}]

Write(db, e) ==
  CASE e.kind = "account" -> UpsertAccount(db, e.row)
    [] e.kind = "tip" -> UpsertTip(db, e.seq)
    [] e.kind = "settlement" ->
         InsertInterval(InsertFunding(FoldLeft(UpsertAccount, db, e.rows), e.payments), e.id)

WriteBatch(db, batch) == FoldLeft(Write, db, batch)

\* A second record of an interval violates the primary key.
Settlements(batch) == {e \in ToSet(batch) : e.kind = "settlement"}
ViolatesKey(db, batch) == \E e \in Settlements(batch) : e.id \in db.intervals

-----------------------------------------------------------------------------
(* Boot and promotion                                                      *)

\* load_funding_settled: max(interval_id)
LoadFundingSettled(db) ==
  IF db.intervals = {} THEN Unsettled
  ELSE CHOOSE id \in db.intervals : \A other \in db.intervals : other <= id

\* load_from_postgres and set_state, in one repeatable-read snapshot
LoadShard(p) ==
  /\ main[p].role = "down"
  /\ main' = [main EXCEPT ![p] =
                [Stopped EXCEPT !.role = "warm", !.account = tables.account,
                                !.tip = tables.tip,
                                !.settled = LoadFundingSettled(tables)]]
  /\ UNCHANGED <<openTx, tables, lease, hour, traded, losses, ghosts>>

\* Catch-up on the engine's log, one fill at a time.
WarmFill(p) ==
  /\ main[p].role = "warm"
  /\ main[p].tip < traded
  /\ main' = [main EXCEPT ![p] = BookFill(@)]
  /\ UNCHANGED <<openTx, tables, lease, hour, traded, losses, ghosts>>

\* Mutant of FollowFunding: the payments of the last interval are left out.
FollowFundingShort(s) ==
  LET latest == LoadFundingSettled(tables)
      payments == SetToSortSeq({r \in tables.funding : r.id > s.settled /\ r.id < latest},
                               LAMBDA r, q : r.id < q.id)
  IN IF s.settled >= latest THEN s
     ELSE [s EXCEPT !.account = ChargeFunding(@, payments), !.settled = latest]

\* follow_funding: charge the payments of the intervals behind the last one
\* this process knows, up to the last one recorded.
FollowFunding(s) ==
  LET latest == LoadFundingSettled(tables)
      payments == SetToSortSeq({r \in tables.funding : r.id > s.settled /\ r.id <= latest},
                               LAMBDA r, q : r.id < q.id)
  IN IF s.settled >= latest THEN s
     ELSE [s EXCEPT !.account = ChargeFunding(@, payments), !.settled = latest]

NoOtherMain(p) == \A q \in Mains \ {p} : main[q].role # "live"

\* The lock is won when caught up, the old main has closed its sockets, and
\* the shard follows the recorded funding before its first tick.
Promote(p) ==
  /\ main[p].role = "warm" /\ main[p].tip = traded
  /\ lease = Nobody
  /\ NoOtherMain(p)
  /\ lease' = p
  /\ main' = [main EXCEPT ![p] = [FollowFunding(@) EXCEPT !.role = "live"]]
  /\ overtaken' = {q \in Mains : openTx[q] # <<>>}
  /\ UNCHANGED <<openTx, tables, hour, traded, losses, late>>

-----------------------------------------------------------------------------
(* The live loop and its persist worker                                    *)

LiveFill(p) ==
  /\ main[p].role = "live"
  /\ main[p].tip < traded
  /\ main' = [main EXCEPT ![p] = BookFill(@)]
  /\ UNCHANGED <<openTx, tables, lease, hour, traded, losses, ghosts>>

\* maybe_settle_funding, in one pass and so at one pair of prices
SettleFunding(p) ==
  /\ main[p].role = "live"
  /\ main[p].settled < hour
  /\ main' = [main EXCEPT ![p] =
                FoldLeft(LAMBDA s, id : TrySettleInterval(s, id, Payment[p]), @,
                         MissingIntervals(main[p]))]
  /\ UNCHANGED <<openTx, tables, lease, hour, traded, losses, ghosts>>

Prefix(p, k) == SubSeq(main[p].queue, 1, k)
Rest(p, k) == SubSeq(main[p].queue, k + 1, Len(main[p].queue))

\* flush_batch of what the worker popped, with the lock session still there
FlushEvents(p) ==
  /\ main[p].role = "live" /\ lease = p
  /\ \E k \in 1 .. Len(main[p].queue) :
       /\ ~ViolatesKey(tables, Prefix(p, k))
       /\ tables' = WriteBatch(tables, Prefix(p, k))
       /\ main' = [main EXCEPT ![p].queue = Rest(p, k)]
  /\ UNCHANGED <<openTx, lease, hour, traded, losses, ghosts>>

Freed(p) == IF lease = p THEN Nobody ELSE lease

\* Mutant of CircuitOpens: the main loop goes on without its worker.
CircuitOpensUnnoticed(p) ==
  /\ main[p].role = "live" /\ lease = p
  /\ ViolatesKey(tables, main[p].queue)
  /\ UNCHANGED fundingVars

\* A batch that violates the key fails CIRCUIT_AT times: the worker stops, the
\* main loop sees it and gives the shard up.
CircuitOpens(p) ==
  /\ main[p].role = "live" /\ lease = p
  /\ ViolatesKey(tables, main[p].queue)
  /\ main' = [main EXCEPT ![p] = Stopped]
  /\ lease' = Freed(p)
  /\ UNCHANGED <<openTx, tables, hour, traded, losses, ghosts>>

\* The transaction of a session that has lost its lock ends: it commits, or
\* the key refuses it, or it fails.
EndTx(p) ==
  /\ openTx[p] # <<>>
  /\ openTx' = [openTx EXCEPT ![p] = <<>>]
  /\ \/ /\ ~ViolatesKey(tables, openTx[p])
        /\ tables' = WriteBatch(tables, openTx[p])
        /\ late' = (late \/ (p \in overtaken /\ Settlements(openTx[p]) # {}))
     \/ UNCHANGED <<tables, late>>
  /\ overtaken' = overtaken \ {p}
  /\ UNCHANGED <<main, lease, hour, traded, losses>>

-----------------------------------------------------------------------------
(* Losses                                                                  *)

Loss == losses < MaxLosses /\ losses' = losses + 1

KillMain(p) ==
  /\ Loss
  /\ main[p].role # "down"
  /\ main' = [main EXCEPT ![p] = Stopped]
  /\ openTx' = [openTx EXCEPT ![p] = <<>>]
  /\ overtaken' = overtaken \ {p}
  /\ lease' = Freed(p)
  /\ UNCHANGED <<tables, hour, traded, late>>

\* The lock session is lost, possibly behind the check of a transaction of
\* the worker's own session.
LoseLease(p) ==
  /\ Loss
  /\ lease = p
  /\ lease' = Nobody
  /\ \/ UNCHANGED <<main, openTx>>
     \/ /\ openTx[p] = <<>>
        /\ \E k \in 1 .. Len(main[p].queue) :
             /\ openTx' = [openTx EXCEPT ![p] = Prefix(p, k)]
             /\ main' = [main EXCEPT ![p].queue = Rest(p, k)]
  /\ UNCHANGED <<tables, hour, traded, ghosts>>

\* stop_persist_worker(DropAndStop): what is queued is dropped, a worker that
\* is still inside its transaction is abandoned after five seconds.
StopDropping(p) ==
  /\ main[p].role = "live" /\ lease # p
  /\ main' = [main EXCEPT ![p] = Stopped]
  /\ UNCHANGED <<openTx, tables, lease, hour, traded, losses, ghosts>>

\* stop_persist_worker(FlushAndStop) on SIGTERM: one last flush, which drops
\* its batch if it fails.
StopFlushing(p) ==
  /\ Loss
  /\ main[p].role = "live" /\ lease = p
  /\ tables' = IF ViolatesKey(tables, main[p].queue) THEN tables
               ELSE WriteBatch(tables, main[p].queue)
  /\ main' = [main EXCEPT ![p] = Stopped]
  /\ lease' = Nobody
  /\ UNCHANGED <<openTx, hour, traded, ghosts>>

-----------------------------------------------------------------------------
(* The world                                                               *)

NextHour ==
  /\ hour < MaxHour
  /\ hour' = hour + 1
  /\ UNCHANGED <<main, openTx, tables, lease, traded, losses, ghosts>>

Trade ==
  /\ traded < MaxTraded
  /\ traded' = traded + 1
  /\ UNCHANGED <<main, openTx, tables, lease, hour, losses, ghosts>>

FundingInit ==
  /\ main = [p \in Mains |-> Stopped]
  /\ openTx = [p \in Mains |-> <<>>]
  /\ tables = NoTables
  /\ lease = Nobody
  /\ hour = 0 /\ traded = 0 /\ losses = 0
  /\ overtaken = {} /\ late = FALSE

FundingNext ==
  \/ NextHour \/ Trade
  \/ \E p \in Mains :
       \/ LoadShard(p) \/ WarmFill(p) \/ Promote(p)
       \/ LiveFill(p) \/ SettleFunding(p) \/ FlushEvents(p) \/ CircuitOpens(p)
       \/ EndTx(p) \/ KillMain(p) \/ LoseLease(p) \/ StopDropping(p) \/ StopFlushing(p)

-----------------------------------------------------------------------------
(* Properties                                                              *)

\* The type of every variable; no process and no table is ahead of the log or
\* of the clock.
FundingTypeOK ==
  /\ \A p \in Mains : /\ main[p].role \in {"down", "warm", "live"}
                      /\ main[p].tip \in 0 .. traded
                      /\ main[p].settled \in Unsettled .. hour
  /\ lease \in Mains \union {Nobody}
  /\ tables.tip \in 0 .. traded
  /\ tables.intervals \subseteq 0 .. hour
  /\ overtaken \subseteq Mains /\ late \in BOOLEAN

\* Funding is paid once and for every interval.  The collateral in Postgres
\* has paid exactly the payments its funding table holds (FundingSettlement:
\* "commit in one transaction or not at all"), and a main with the lock has
\* charged exactly those and what its own worker has yet to write: nothing the
\* mains before it recorded is lost or charged again (follow_funding), whatever
\* was dropped, replayed or loaded in between.  No interval between two
\* recorded ones is left out (maybe_settle_funding).  All of it unless an
\* overtaken transaction has committed.
FundingIsPaidOnce ==
  ~late =>
    /\ ToSet(tables.account.paid) = tables.funding
    /\ IsInjective(tables.account.paid)
    /\ \A p \in Mains : main[p].role = "live" /\ lease = p =>
         /\ ToSet(main[p].account.paid) =
              tables.funding \union UNION {ToSet(e.payments) : e \in Settlements(main[p].queue)}
         /\ IsInjective(main[p].account.paid)
    /\ \A id, other \in tables.intervals : id < other => id + 1 \in tables.intervals

\* Once the shard has a main, the current interval is settled and recorded in
\* the end, whatever main is lost on the way and whatever key its batches run
\* into (CIRCUIT_AT, PersistWorkerDied).
FundingIsRecorded ==
  (\E p \in Mains : main[p].role = "live") ~> [](hour \in tables.intervals)
=============================================================================
