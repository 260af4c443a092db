------------------------------ MODULE RiskShard ------------------------------
(***************************************************************************)
(* What the risk shard keeps in memory and in Postgres, and how one record *)
(* of the matching engine's log changes it.  One symbol, one shard.        *)
(*                                                                         *)
(* A position and an account are abstracted to the fills they have booked, *)
(* in the order they booked them: both are folds over that sequence, their *)
(* version is its length, and "position = sum of fills" is a statement     *)
(* about its content.  A freeze is abstracted to its order: its amount is  *)
(* computed from the order alone, before the send and in replay alike.     *)
(***************************************************************************)
EXTENDS Integers, Sequences, FiniteSets, SequencesExt

CONSTANTS
  Orders,       \* order ids
  Users,        \* users that trade
  Members,      \* the users of this shard: user_id % shard_count = shard_id
  Owner         \* [Orders -> Users]

ASSUME RiskAssumption ==
  /\ Members \subseteq Users
  /\ Owner \in [Orders -> Users]

-----------------------------------------------------------------------------
(* Records of the matching engine's log.  A sequence number is an index.   *)

Accepted(o) == [type |-> "accepted", order |-> o]
Done(o) == [type |-> "done", order |-> o]
Failed(o) == [type |-> "failed", order |-> o]
Fill(taker, maker) == [type |-> "fill", taker |-> taker, maker |-> maker]

FillUsers(rec) == {Owner[rec.taker], Owner[rec.maker]}

-----------------------------------------------------------------------------
(* The shard's memory.  role: "down", "warm" (catching up), "drain" (holds *)
(* the lock, final drain) and "live".  ring is the persist ring; applied   *)
(* the last log record seen, tip the last fill booked.                     *)

Empty == [u \in Members |-> <<>>]

Down == [role |-> "down", pos |-> Empty, acct |-> Empty, frozen |-> {},
         tip |-> 0, applied |-> 0, ring |-> <<>>]

\* push_persist: a node that is not live has no producer and drops the event.
PushPersist(s, events) ==
  IF s.role = "live" THEN [s EXCEPT !.ring = @ \o events] ELSE s

PositionRow(s, u) == [kind |-> "position", user |-> u, row |-> s.pos[u]]
AccountRow(s, u) == [kind |-> "account", user |-> u, row |-> s.acct[u]]
FillRow(seq) == [kind |-> "fill", seq |-> seq]
TipRow(seq) == [kind |-> "tip", seq |-> seq]
FrozenInsert(o) == [kind |-> "insert", order |-> o]
FrozenRemove(o) == [kind |-> "remove", order |-> o]

\* apply_fill and deduct_fee for one side, if the user is this shard's.
BookSide(s, u, seq) ==
  IF u \in Members
  THEN [s EXCEPT !.pos[u] = Append(@, seq), !.acct[u] = Append(@, seq)]
  ELSE s

SideRows(s, u) ==
  IF u \in Members THEN <<PositionRow(s, u), AccountRow(s, u)>> ELSE <<>>

FillEventsTipFirst(s, taker, maker, seq) ==
  <<TipRow(seq)>> \o (IF taker \in Members THEN <<FillRow(seq)>> ELSE <<>>)
    \o SideRows(s, taker) \o SideRows(s, maker)

\* The events of a booked fill: the fill row from the taker's shard, both
\* sides' rows, and the tip last.
FillEvents(s, taker, maker, seq) ==
  (IF taker \in Members THEN <<FillRow(seq)>> ELSE <<>>)
    \o SideRows(s, taker) \o SideRows(s, maker) \o <<TipRow(seq)>>

\* process_fill
ProcessFill(s, rec, seq) ==
  LET taker == Owner[rec.taker]
      maker == Owner[rec.maker]
      booked == BookSide(BookSide(s, taker, seq), maker, seq)
  IN IF seq <= s.tip THEN s
     ELSE PushPersist([booked EXCEPT !.tip = seq],
                      FillEvents(booked, taker, maker, seq))

\* freeze
Freeze(s, o) == [s EXCEPT !.frozen = @ \union {o}]

\* confirm_freeze: the freeze becomes durable when the engine has accepted.
ConfirmFreeze(s, o) ==
  IF Owner[o] \in Members /\ o \in s.frozen
  THEN PushPersist(s, <<FrozenInsert(o)>>) ELSE s

ReleaseNotDurable(s, o) ==
  IF Owner[o] \in Members /\ o \in s.frozen
  THEN [s EXCEPT !.frozen = @ \ {o}] ELSE s

\* release_frozen_for_order
ReleaseFrozenForOrder(s, o) ==
  IF Owner[o] \in Members /\ o \in s.frozen
  THEN PushPersist([s EXCEPT !.frozen = @ \ {o}], <<FrozenRemove(o)>>) ELSE s

\* The receive loop's dispatch on a record that arrives by casting.
LiveRecord(s, rec, seq) ==
  CASE rec.type = "fill" -> ProcessFill(s, rec, seq)
    [] rec.type = "accepted" -> ConfirmFreeze(s, rec.order)
    [] rec.type \in {"done", "failed"} -> ReleaseFrozenForOrder(s, rec.order)

\* apply_record: warm catch-up and the gap replay of a live shard.
ApplyRecord(s, rec, seq) ==
  CASE rec.type = "fill" -> ProcessFill(s, rec, seq)
    [] rec.type = "accepted" ->
         IF Owner[rec.order] \in Members THEN Freeze(s, rec.order) ELSE s
    [] rec.type \in {"done", "failed"} -> ReleaseFrozenForOrder(s, rec.order)

-----------------------------------------------------------------------------
(* Postgres                                                                *)

NoRows == [pos |-> Empty, acct |-> Empty, frozen |-> {}, fills |-> {}, tip |-> 0]

OfKind(batch, kind) == SelectSeq(batch, LAMBDA e : e.kind = kind)

UpsertAlways(rows, e) == [rows EXCEPT ![e.user] = e.row]

\* upsert_positions, upsert_accounts: an older version never replaces a row.
Upsert(rows, e) ==
  IF Len(rows[e.user]) <= Len(e.row) THEN [rows EXCEPT ![e.user] = e.row] ELSE rows

\* upsert_frozen_orders, then delete_frozen_orders, whatever their order in the
\* batch
UpsertFrozen(frozen, batch) == frozen \union {e.order : e \in ToSet(OfKind(batch, "insert"))}
DeleteFrozen(frozen, batch) == frozen \ {e.order : e \in ToSet(OfKind(batch, "remove"))}

\* insert_fills: a fill that is there already is passed over.
InsertFills(fills, batch) == fills \union {e.seq : e \in ToSet(OfKind(batch, "fill"))}

\* upsert_tips: the greatest
UpsertTips(tip, batch) == Max({tip} \union {e.seq : e \in ToSet(OfKind(batch, "tip"))})

\* flush_batch: the statements of one transaction.
FlushBatch(pg, batch) ==
  [pos |-> FoldLeft(Upsert, pg.pos, OfKind(batch, "position")),
   acct |-> FoldLeft(Upsert, pg.acct, OfKind(batch, "account")),
   frozen |-> DeleteFrozen(UpsertFrozen(pg.frozen, batch), batch),
   fills |-> InsertFills(pg.fills, batch),
   tip |-> UpsertTips(pg.tip, batch)]

\* load_from_postgres and set_state; catch-up streams from the loaded tip.
LoadFromPostgres(pg) ==
  [role |-> "warm", pos |-> pg.pos, acct |-> pg.acct, frozen |-> pg.frozen,
   tip |-> pg.tip, applied |-> pg.tip, ring |-> <<>>]
=============================================================================
