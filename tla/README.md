# A TLA+ model of rsx

rsx is a perpetual-futures exchange: a set of Rust processes that talk over
"casting" (sequenced UDP with NAK retransmission, backed by a per-process
write-ahead log) and recover over "DXS" (TCP replay of that log).  This
directory holds TLA+ models of its core, the TLC configurations that check
them on small instances, and TLAPS proofs of the properties that matter most.

Read it in this order: the inventory says what the system is, the module
sections say how each part was modelled and what was found, the last sections
say what is proved, what is assumed and what is left.

## 1. The system

```
 client -- WS --> Gateway -- cast --> Risk (per user shard) -- cast --> ME (per symbol)
                     ^                  |  ^                              |   |   |
                     +------ cast ------+  +----------- cast -------------+   |   |
                                           ^                                  |   |
                          Mark -- cast ----+        Marketdata <--- cast -----+   |
                                                    Recorder   <--- DXS (TCP) ----+
```

Every producer numbers its records in its WAL and casts the very bytes it
appended; every consumer applies them in sequence order, asks for what is
missing, and falls back to reading the producer's WAL over TCP.

### Inventory

| Component | State | Operations | Hard behaviour |
|---|---|---|---|
| Casting, `rsx-cast/src/cast.rs` | sender: next seq, send ring; receiver: expected seq, reorder ring, NAK debounce and retry count, sticky FAULTED and RECONNECT | `send_framed`, `tick`, `handle_nak`, `try_recv_with`, `reset_after_replay` | loss, duplication, reordering; faults raised inside a call that then delivers; ring overflow; sender restarts |
| WAL, `rsx-cast/src/wal.rs` | append buffer, active segment, rotated segments, archive | `prepare`, `append_framed`, `flush`, `rotate`, `prune_old_segments`, readers | crash before flush, torn tail, a reader beside a writer, gaps between segments |
| Replication, `replication_server.rs`, `replication_client.rs` | persisted tip per consumer | range check, stream, CAUGHT_UP, live poll; `run`, `persist_tip` | restarts from an old tip, refusals, data behind CAUGHT_UP |
| Order book, `rsx-book/src` | slab of orders, price levels in compressed zones, best bid and ask, occupancy bitmaps, user positions, event buffer | `process_new_order`, `insert_resting`, `cancel_order`, recentring, user reclaim | several prices in one slot, best price after removal, FOK check against matching, a recentre between two orders |
| Matching engine, `rsx-matching/src` | book, dedup window, order index, WAL, checkpoint, applied config | `process_order`, `process_cancel`, `emit_events`, checkpoint, recovery, config polling | crash between cast, flush and checkpoint; duplicates across a restart; config applied between orders |
| Risk, `rsx-risk/src` | positions, accounts, frozen margin per order, tips, liquidation queue, funding interval, insurance fund, persist ring, lease | `process_order`, `process_fill`, `confirm_freeze`, `release_frozen_for_order`, `tick`, funding, liquidation, persistence, promotion | freeze and release racing fills and failures, crash between ring and Postgres, two mains around a lease change |
| Gateway, `rsx-gateway/src` | pending orders, client ids, connections, circuit breaker, rate limits | `forward`, `route_*`, `expire_stale_orders`, shutdown phases | an answer after the timeout, a duplicate after release, a failed replay |
| Marketdata, `rsx-marketdata/src` | shadow book per symbol, subscriptions, outbound queues | `apply_record`, `resend_snapshot`, bootstrap, eviction | bootstrap beside live data, replay twice, slow clients |
| Mark, `rsx-mark/src` | last price per source and symbol, readiness | `aggregate_with_staleness`, `sweep_stale_with_staleness` | sources going stale between updates |
| Recorder, `rsx-recorder/src` | archive file, tip | `write_record`, `flush`, `rotate`, resume | crash between archive write and tip persist |
| Support: `rsx-messages`, `rsx-types`, `rsx-ws`, `rsx-log`, `rsx-health`, `rsx-cli`, `rsx-auth`, the Go clients, the playground | none that outlives a call, or user interface | encoding, sockets, logging, tooling | none modelled |

### What must hold

The repository states ten system invariants (`ARCHITECTURE.md`).  The
project's properties are those, the guarantees of `specs/2/4-cast.md` and
`GUARANTEES.md`, and the claims the code makes in its comments: records are
delivered in order and without a silent skip; a resumed consumer continues
where it stopped; price-time priority; the book is never crossed; a fill
precedes the terminal event; each accepted order ends exactly once; user
positions are the sum of the fills; sequence numbers do not repeat; a restart
reproduces the book; a duplicate order is not executed twice.

## 2. Modules

```
 OrderRequests --> Book --> MatchOrder --> Matching --> MeRecovery
      |             ^                        |  |
      |        Compression                   |  +-- MCMatching, MCMeRecovery
      |             ^                        | refines
      +----------------------------------> AbstractBook
               Compression, Occupancy --> LevelScan

 Cast --> CastReplay   (consumers that replay: risk, gateway, marketdata)
      --> CastOrders   (the matching engine on its order stream)
 WalFiles --> Replication

 RiskShard --> RiskRecovery --> MCRiskRecovery
 RiskAccounts --> RiskTrading --+
                  RiskFunding --+--> MCRiskTrading
 SymbolSchedule --> SymbolConfig --+
                    GatewayFeed ---+--> MCSymbolConfig
 GatewayOrders --> Gateway --> MCGateway
 ShadowBook --> Marketdata --> MCMarketdata
 Mark
```

`A --> B` reads "B extends A".  Eight proof modules extend
what they are about: `CastReplayProofs`, `CastOrdersProofs`, `BookProofs`
(`AbstractBook` and `Compression`), `SymbolConfigProofs`, `GatewayFeedProofs`,
and for the gateway `GatewayOrdersProofs` (the tables), `GatewayStepProofs`
(the steps) and `GatewayProofs`, which extends both (section 12).

What a component needs of another it takes in the form that was checked there.
`CastReplay` composes the transport with the replay client and the producer's
WAL; the receivers of `Marketdata`, `Mark` and `GatewayFeed` are what it shows
a receiver to be: consecutive records, or a fault.  `Replication` composes the
WAL's writer, its files, a server that reads them and the recorder behind it.
`MeRecovery` composes the engine with its WAL, checkpoint writer and config
sidecar; `Matching` is shown to implement `AbstractBook`, and `ShadowBook`
represents the book under it by the abstract one's resting orders.
`RiskRecovery` composes two nodes of a risk shard with Postgres, the advisory
lock and the engine's log; `RiskTrading` composes one live shard with an
engine.  `SymbolConfig` and `GatewayFeed` follow a configuration from the
operator to the engine, to risk and to the gateway.

Two runs check two specifications that share no state (`MCRiskTrading`,
`MCSymbolConfig`): each moves while the other is at its start, so the states
add up and do not multiply, and a fairness condition of one half says nothing
of the behaviours of the other.

A listed property is often the conjunction of a few invariants that together
make one statement (`BookAgrees`, `FilesHoldTheStream`, `CidNamesOneOrder`,
`MarginInputsAgree`...); each conjunct has its own comment in the module.
Most modules with variables also have a type invariant `TypeOK`; it is not in
the list of a `.cfg`, and is checked by adding it there.

## 3. Casting

**`Cast`** is `CastSender` and `CastReceiver` of `rsx-cast/src/cast.rs`.  A
record is its sequence number.

| Code | Model |
|---|---|
| `WalWriter::append_framed` + `CastSender::send_framed` | `Publish`, `SendFramed`: the send ring is written first; a send error leaves `nextSeq` behind |
| `WalWriter::flush` | `Flush` |
| `tick` | `Tick` (a heartbeat announces `nextSeq - 1`) |
| `handle_nak` | `HandleNak`: send ring first, then the WAL file; a frame above the slot size (`Oversize`) is only in the file |
| entering `try_recv_with` | `BeginPoll`; then one step per datagram |
| heartbeat / stale / in-order / early packet | `RecvHeartbeat`, `RecvStale`, `RecvInOrder`, `RecvAhead` |
| `WouldBlock`: drain | `Drain` |
| `maybe_nak`, `oldest_missing_run`, `fault` | `MaybeNak`, `MissingRun`, `SendNak` |
| `reset_after_replay` | `ResetAfterReplay` |
| UDP | `net`, `naks`: lost, duplicated, delayed and reordered at will (`Transmit`, `Consume`, `Lose`, `LoseNak`) |

Time is abstract: whether a debounce window has passed is a choice.  A call
of `try_recv_with` is several steps because a heartbeat may enter FAULTED and
the same call still delivers; between two datagrams the sender and the
network move.

**`CastReplay`** adds `handle_replay` of the consumers that replay over TCP.
**`CastOrders`** adds the two branches of the matching loop: FAULTED skips the
gap, RECONNECT is an idle spin.

| Run | Bounds | Shows |
|---|---|---|
| `cast_replay` | 4 records, rings of 2, one datagram in flight, one retry, send errors, one oversize record | nothing is skipped silently; the position a sticky state reports is right up to one record; every flushed and announced record is applied in the end |
| `cast_orders` | 4 records, reorder ring 1, two datagrams | orders arrive once and in order, through skips; the stream gets past every record |

Four records wrap both rings twice, so an occupied slot, an evicted frame and
a gap longer than the ring all happen; one retry is the least that tells the
first NAK from the last.  `ResyncGap = MaxDelay = 5` says that no datagram is
later than the reset threshold (100 in the code): `MaxDelay <= ResyncGap` is
an assumption of the proofs and of the run, see section 14.

*Fairness.*  `WF` of flush, poll, drain and replay: the loops run them on
every spin.  `SF` of "a heartbeat is sent" and "a heartbeat is heard while the
debounce window is over": heartbeats repeat for ever and the network is not
cut off for ever.  Nothing is assumed of data packets and NAKs except that
no packet is in flight for ever.

## 4. Order book and matching engine

**`Compression`** is `CompressionMap` and `build_price_asc`: five zones of
growing width, `PriceToIndex`, `PriceAsc`.  **`Occupancy`** is the bitmap with
its summary levels and the two searches.  **`LevelScan`** sweeps the prices
under every geometry of the run and the bitmap through every set of slots
(word width 2, nine slots: three levels).

| Run | Bounds | Shows |
|---|---|---|
| `level_scan` | mids 5000, 5003, 15001, 17990, ticks 1 and 3, at least 5000 ticks per mid; every set of 9 slots | each price has one reachable slot, the walk over the slots meets prices in order, zone 0 is exact, the searches return the least and greatest occupied slot |

The mids are chosen on and off the divisions of the zone widths; 5000 ticks
per mid is the least at which no zone is degenerate (section 14).

**`Book`** holds the book as one record and its calls as operators from book
to book: slab, levels, best prices, `InsertResting`, `CancelOrder`, `Recenter`
and migration, users.  A level's linked list is the sequence of its handles.
**`MatchOrder`** is `process_new_order`: validation, reduce-only clamp,
post-only, `can_fill_fully`, the match loop over exact and compressed slots,
the event cap, and the terminal event.  **`Matching`** adds the handlers:

| Code | Model |
|---|---|
| `process_order` | `NewOrder`, `Resend` (dedup, match, publish, index, recentre in one step) |
| `process_cancel` | `ProcessCancel` |
| `maintain_users` | `Maintain` |
| `DedupTracker::maybe_cleanup` | `Evict` |
| `apply_due_configs` | `ApplyConfig` |

**`AbstractBook`** is the promise: a set of resting orders in price-time
priority and the users' positions; `Execute` takes any legal execution.
`ImplementsAbstract` maps each slab order to an abstract one and checks every
step of the engine against it.

| Run | Bounds | Shows |
|---|---|---|
| `matching` | two users, up to three orders of 13 kinds (two prices in one compressed slot, and all kinds at one price), or three makers in the compressed slot and a taker, a cap of two makers, one aged dedup key, a config that changes the tick | levels, occupancy, slab, cancel index and users agree with the resting orders (`BookAgrees`); the cached best prices are the best (`BestIsBest`); every step is one of the abstract book's, so price-time priority, the cap on makers, fill-or-kill and an uncrossed book hold (`ImplementsAbstract`) |

Three orders reach a partial fill, several makers in one compressed slot and a
recentre between two orders.  The cap of two is reached by a fourth, a taker
behind three sells that share the compressed slot, with a maker left over.  The
orders of a behaviour come from one of three sets (`OneScenario` in
`MCMatching`), which keeps the product of price geometry and order kinds small.

**`MeRecovery`** adds the WAL buffer, the disk, the checkpoint writer thread,
the config sidecar and crashes.  `Crash` keeps any prefix of the unflushed
buffer; `Boot` restores the checkpoint, replays the log behind it, rebuilds
the index and the dedup window and continues the numbering.  `Shutdown` is the
SIGTERM path.

| Run | Bounds | Shows |
|---|---|---|
| `me_recovery` | one crash, one checkpoint, one config, six records of log | replay reproduces the live book from every checkpoint that could be found (`ReplayReproducesBook`); numbers in the log increase and the dedup window covers it (`RestartContinuesLog`) |

## 5. Risk shard: persistence and failover

**`RiskShard`** is what one record of the engine's log does to a shard
(`process_fill`, `confirm_freeze`, `release_frozen_for_order`, `apply_record`)
and what one batch does to Postgres (`flush_batch`, `load_from_postgres`).  A
position and an account are the sequence of fills they have booked: both are
folds over it, and their `version` is its length.  A freeze is its order.  A
fill's events enter the persist ring in the order of the code: fill row, rows
of the taker, rows of the maker, tip.

**`RiskRecovery`** is the life of a node (`app.rs`, `promotion.rs`,
`lease.rs`, `cast_loop.rs`).  `role` goes from `down` to `warm` (`Boot`: one
snapshot of Postgres), catches up with the log (`CatchUp`), takes the lock
when it is level with the log (`Acquire`, role `drain`), drains again, and is
`live` once the old main has closed its sockets (`GoLive`).  A live node
freezes and forwards orders (`ProcessOrder`), reads the log by casting
(`Receive`) or, behind a gap, by replay (`ReplayGap`: only an acceptance
differs, whose freeze is not written), and its worker writes any prefix of the
ring (`Flush`), fenced by the lock.  `LockLost` may catch the worker behind
the fence; its transaction can commit later (`LateCommit`), even after the
node has been demoted.  `Crash`, `WorkerDies` and `Shutdown` end a node.  A
final drain that fails is a `Crash`.  The engine is external: it accepts,
refuses, matches and cancels, and each action appends what it would log.

Three history variables record what the code loses, so that the properties can
be stated beside it: `torn` (rows that were ahead of the tip when loaded),
`missed` (bookings a new main had in memory and Postgres had not) and `skewed`
(orders whose freeze or release was applied and not written: in catch-up, in
a gap replay, in a late commit, or in flight at a promotion).

| Run | Bounds | Shows |
|---|---|---|
| `risk_recovery` | two nodes, three orders of three users of whom two are the shard's, two losses; batches cut anywhere until the first loss | outside `missed` no fill below the tip is lost and outside `torn` none is booked twice (`EachFillOnce`); a freeze in Postgres was accepted, and outside `skewed` a live shard's freezes are the engine's open orders (`FreezesFollowOrders`); no row or tip goes back (`RowsNeverGoBack`) |

The bounds of `MCRiskRecovery` order the orders and let the engine wait for
the main: what a node reads in one go it applies in the same way record by
record.  Two losses are what it takes for a main to take over and to be taken
over from, which is when state that was only in memory is missed.

## 6. The live risk shard

**`RiskAccounts`** is the arithmetic of one symbol as operators from shard to
shard: `apply_fill`, fees, `PortfolioMargin::calculate`, `check_order`, freezes
with their per-user index, the liquidation engine, socialized losses, the
insurance fund, funding and the fallback price.  Division is the code's:
truncated, with amounts of few units so that it bites.  **`RiskTrading`** is the
loop of `cast_loop.rs`:

| Code | Model |
|---|---|
| a record of the engine | `ApplyRecord` (fill, acceptance, end of an order; the engine's answers are in `log`) |
| a gateway order, a cancel | `ProcessOrder`, `ProcessCancel` |
| a mark, a best bid and offer | `MarkArrives`, `StashBbo` (applied by the next tick) |
| `tick`, then the drain of both rings | `EndOfPass`: cancels, liquidation rounds, losses, stashed prices, funding; the sends, of which one may fail |
| the clock | `Second` |

The engine is external: it matches at the maker's price, cancels, and refuses
nothing.  `stale` records whose margin has moved since the code last looked at
it.

**`RiskFunding`** is what the live model leaves out of funding: the persist
ring and worker, the tables `accounts`, `funding_payments` and
`funding_intervals`, the lock, promotion (`follow_funding`), the circuit, and a
transaction that outlives its lock session.  A collateral is the list of what
was charged to it.

| Run | Bounds | Shows |
|---|---|---|
| `risk_trading` | two users, four orders, marks 1 and 16, one best price, rings of two, one failed send, two seconds; two mains, two intervals, one fill, one loss | reservations, their index, positions and the exposed users agree with orders and fills (`MarginInputsAgree`); money is only moved, funding once per interval (`MoneyIsAccounted`), and the fund covers deficits only (`FundPaysDeficits`); who is below maintenance margin when it is looked at is pursued (`PursuitFollowsMargin`); rounds can be placed and orders of a pursued user are cancelled (`LiquidationIsOrderly`); the tables and the main agree on what was charged, over a failover (`FundingIsPaidOnce`), and the current interval is recorded in the end (`FundingIsRecorded`) |

The marks are far below and far above the entry price, so that either side is
liquidated, with and without a deficit; a ring of two fills in the middle of a
pass.  *Fairness* (funding only): the clock, the threads of a main and its
worker run on; nothing is assumed of fills, of the end of an abandoned
transaction, or of losses.

## 7. WAL files and replication

**`WalFiles`** is `rsx-cast/src/wal.rs`: the writer with its buffer, the active
file, rotated segments named by their first and last record, retention, and the
readers.  A flush is the steps of the code (cut, rename, create, write, sync),
so that a reader, a failure or a kill comes between any two.  A kill loses the
process and not what was written: the page cache survives it.  Power loss is
not modelled.  **`Replication`** adds `handle_client` of the server for one
connection, the consumer with its tip file, and the recorder with its archive
of one file per day.

| Code | Model |
|---|---|
| `append_framed`, `flush`, `rotate` | `AppendRecord`, `FlushStart`, `RotateRename`, `RotateCreate`, `FlushWrite`, `FlushSync`; failing: `RotateFail`, `FlushFail` |
| opening a writer | `OpenWriter` (`cut_torn_tail`, `set_next_seq`) |
| `handle_client` | `Accept` (the range check), `ListDirectory`, `ReadNext`; CAUGHT_UP, then tailing |
| `ReplicationConsumer::run` | `Receive`, `ReceiveCaughtUp`, `EndOfStream` |
| `RecorderState` | in `Receive`: repeated records, rotation by date, buffer, flush; `ReceiveFails`, `StopRecorder`, `StartRecorder` |
| the environment | `Kill`, `KillRecorder`, `BreakConnection`, `NextDay` |

| Run | Bounds | Shows |
|---|---|---|
| `replication` | three records, segments of two, a flush of the archive every two, one fault, one change of date | names, contents and order of the files are right at every step, and a NAK finds any record on disk (`FilesHoldTheStream`); a connection ascends and passes over a record in three named cases only (`StreamIsFaithful`); what the tip covers can be read from the archive unless a crash, a failed rotation or a failed last flush took it or it lies behind a torn frame, and a day's file ascends unless a write failed (`ArchiveIsFaithful`); a follower has received, or was sent past, every record on disk, is refused, or waits behind the record it was told it had (`FollowerCatchesUp`) |

Three records in segments of two give a rotated segment, an active file and a
pruned segment at once.  `StopRecorder` is the end of `main`: the last flush may
fail with any part of the buffer written.  A record is archived when a reader of
its day's file gets to it, so not behind a torn frame.  *Fairness*: the writer's
flush, the server, the consumer and restarts go on; appends, faults and the date
owe nothing.

## 8. Gateway

**`GatewayOrders`** holds the tables as operators: pending orders with their
stages and counters, client ids with their expiry queue, the circuit breaker,
the token buckets.  The pending orders are a function from order ids: ids grow,
so the order of the queue is that of the ids.  The module ends with the types
of these values, for the proofs.  **`Gateway`** is the
reactor thread: a step is what runs between two awaits.

| Code | Model |
|---|---|
| `handle_connection` | `Session(c)`: connect, submit (`NewOrderSent`, `NewOrderRefused`, `NewOrderUnsent`), cancel, drain of the queue (`WriteMessage`), park and wake, leave |
| `route_*` | `RouteEvent`: inserted, done, failed, fill; for a known, a timed out and an unknown order |
| the loop's housekeeping | `Turn`: the sweep (timeouts, expiry of ids), heartbeats, idle time-outs, the phases of shutdown |
| SIGTERM | `Signal`; then Draining, Closing, Exited |
| risk | external, `RiskAnswer`: answers in any order, or never, or the answer is lost |

| Run | Bounds | Shows |
|---|---|---|
| `gateway` | one client id, two orders, one order in flight, breaker threshold one, window and cooldown one, clock to four | `CidNamesOneOrder`, `LiveIsCancellable`, `SessionsAreServed`, `AdmissionIsSound`, `EveryOrderIsAnswered` |

Two orders under one id are what it takes for an answer of the first to meet
the second; a capacity of one makes a freed slot visible at once.  The clock
lets the last order time out, its id expire and the drain end.

**`GatewayFeed`** is how the records get to the reactor, in the run
`symbol_config`: the receive thread with gap replay, the event ring and the
doorbell, and the sidecar that reads the symbol table (section 11).

## 9. Marketdata

**`ShadowBook`** is the book the service rebuilds from the engine's records and
the snapshots and deltas derived from it.  **`Marketdata`** is the process:

| Code | Model |
|---|---|
| start, bootstrap from the tip file | `Boot`, `BootFails`, `Stop` |
| the loop: records, gap, replay and its retries, tip, eviction, time-outs | `Loop` |
| `handle_connection` | `Handler(c)`: subscribe (snapshot), unsubscribe, park, write, close |
| broadcast, `push_to_client`, `resend_snapshot` | operators on the state, inside the steps above |

| Run | Bounds | Shows |
|---|---|---|
| `marketdata` | two engines with three records each (one has a partial fill), one client with a queue of two, snapshots one level deep, two starts, two attempts of a replay, one of fault, heartbeat, time-out and eviction | a depth subscriber holds the book or sees a jump, is found by broadcasts and woken (`ClientsFollowBooks`); the shadow book is the engine's unless one of six named things happened (`BookIsTheEngines`) |

`Faulted` has the two ways into a replay: a report of the position the receiver
is at, and, after a fault that was entered on a heartbeat, of the one before it,
so that the replay brings a record the same call had delivered.

A queue of two overflows in a snapshot and two deltas; depth one leaves a level
of the first book out of a snapshot.

## 10. Mark

**`Mark`** is one task per source, the rings, the aggregator with its sweep,
the WAL and its flush, stop and kill, and risk's receiver.

| Code | Model |
|---|---|
| a feed's message, a failed dial | `HandleMsg`, `ConnectFails` |
| the loop | `PopUpdate`, `NextRing`, `Sweep`, `Flush`, `FlushLater` |
| stop, kill, start | `Ends`, `Start` |
| risk's `update_mark`, its replay of a gap | `Receive`, `Faulted` |

| Run | Bounds | Shows |
|---|---|---|
| `mark` | three sources, two prices, staleness of two sweeps, three quotes, one fault | the mark is the middle of the prices its mask names, and a quiet source leaves both within a sweep (`MarkIsMiddle`); risk holds the last mark unless its record was refused, renumbered or thrown away with a replay, and no number on disk is given out again (`MarksReachRisk`) |

Three sources are the least with a middle that one wrong feed cannot move.

## 11. Symbol configuration

**`SymbolSchedule`** is the table of versions with the checks of `config
schedule`; **`SymbolConfig`** is the way of a version to the engine and to risk,
**`GatewayFeed`** to the gateway.

| Code | Model |
|---|---|
| `config schedule` | `ScheduleRead`, `ScheduleInsert`, and a second operator's command between them |
| the engine's sidecar and loop | `HandOffDueConfigs`, `ApplyDueConfig`, `WriteAppliedConfig`, `EngineBoot`; failing: `WriteAppliedFails`, `PostgresLost`, `EngineCrash` |
| risk | `RiskBoot`, `RiskPromote`, `RiskReceive` (`process_config_applied`), `RiskPassesOver` (warm, or dropped as old), `ReloadSymbolConfig`, `DrainConfigUpdates`; failing: `RiskCrash`, `RiskReceiveAgain`, `ReloadFails` |
| the gateway's receive thread | `Receive`, `RecvFaulted`, `RecvReconnect` |
| its reactor and sidecar | `Reactor`, `SidecarReload`, `SidecarPoll`, `SidecarFails` |

| Run | Bounds | Shows |
|---|---|---|
| `symbol_config` | three versions, effective at one or two, clock from one to three, risk's clock one behind, rings of one, one fault; three records, event ring of one | versions are effective in order and acceptable to both readers whatever two operators do (`ScheduleIsSound`); a live shard goes back only for a version announced twice (`VersionsGoForward`); engine and risk converge but for named exceptions (`ReadersConverge`); records reach the reactor in order and wake it (`FeedIsFaithful`); nothing stays on the ring, and the gateway ends with the version in force (`GatewaySettles`) |

A crash of the engine takes the unflushed end of its stream, read by risk or
not, and the restarted engine gives those numbers again: `gone` are the records
risk has read and no log has, and while `ahead` holds risk drops what comes as
old.  The sidecar has one Postgres client for its life, and `linked` says
whether it still answers.

*Fairness*: clock, threads and timers go on and a supervisor restarts what
died; a poll of the sidecar is fair while its client answers.  On the way to
engine and risk these steps are fair together, which is the same there: each
uses up a tick, a version or a record.  A request to the gateway's sidecar is
not fair, its timer is.

## 12. Proofs

* `CastReplayProofs` (for every ring size, retry budget and number of
  records): `TypeCorrect`, `NeverSkips` (`NoSilentSkip`), `ReportsDelivered`
  (`ReportedIsDelivered`).  Assumptions: `CastAssumption` (sizes are naturals,
  rings are not empty) and `ReplayAssumption` (the consumer knows its tip, no
  datagram is later than the reset threshold).  `NoSilentSkip` is not
  inductive: a slot of the ring, a packet in flight or a NAK could name a
  record that was never published, and the sticky state could report any
  position.  `IInv` adds that everything in flight or buffered is a published
  record (`KnownRecords`), that the receiver expects the record behind the
  tip, or the tip itself for one call after a replay (`Position`), and that a
  sticky state reports the record before the expected one, up to the delivery
  in the same call (`Sticky`).  One lemma per action.
* `CastOrdersProofs`: `OnceAndInOrder` (`EachOnceInOrder`), for every ring size,
  number of records and schedule of loss, duplication and delay up to the
  bound.  `IInv` is `Typed`; no data packet carries number zero (`Numbered`);
  the expected number is beyond everything delivered (`Ahead`); and a fault
  reaches as far as the running call may still deliver (`GapCovers`), so that
  resuming behind the gap repeats nothing.  `OrdersAssumption`: no packet is
  later than the reset threshold (`cast.rs:717`, section 14).
* `BookProofs` (for every set of users, requests and identifiers):
  `NeverCrossed`, `PriorityTotal`, `RestingWellFormed`.  A residual rests only
  when every crossing maker is gone, so it cannot cross; it gets the next
  arrival number, and all others are at or below the clock.  The engine has
  these properties through the refinement that `matching` checks.  And
  `IndexInRange`, for every mid, tick and price: `price_to_index` stays inside
  the level array.  The argument is the shape of a map (`MapShape`: thresholds
  grow, zones lie one after the other) and the zone of a distance
  (`ZoneOfDistance`).
* `SymbolConfigProofs` (for every seed row, set of changes, times, clock lag and
  ring size).  `SoundSchedule` (`ScheduleIsSound`): `ScheduleInv` is about the
  table, and `WriterInv` about the transaction an operator has open: its copy
  follows the row it was copied from, and that row is still in the table.
  `VersionsForward` (`VersionsGoForward`): whether a reload may take the shard
  back depends on what is queued for it, so `ConfigInv` adds to these two the
  types, what the engine's rings hold (`RingsInv`), what is announced on the
  wire (`WireInv`), what waits in risk's queues (`QueueInv`) and that what was
  fetched is in the table (`FetchedInv`).  The version in force is the largest
  of a finite set; that it exists comes from the least-number principle.
  `ConfigAssumption`: the seed row passes both readers' checks, bounds and
  times are naturals, a lag is at most the start time, changes are integers.
* `GatewayFeedProofs`: `FaithfulFeed` (`FeedIsFaithful`), for every ring size
  and number of records.  `FeedInv` is `FeedTypes`; the records on the ring
  follow what the reactor has seen (`OrderInv`); the receiver's position is at
  most one record behind what was pushed (`RecvInv`); once the reactor has
  found its ring empty, the doorbell has been rung for what lies on it, or the
  batch or replay that will ring it is still under way (`PingInv`).
* `GatewayProofs`: all five properties of the run `gateway`, for every number of
  orders, client ids, sessions and limiters and every capacity, threshold and
  time-out: `OneOrderForEachCid` (`CidNamesOneOrder`), `LiveOrdersCancellable`
  (`LiveIsCancellable`), `SoundAdmission` (`AdmissionIsSound`),
  `OrdersAnswered` (`EveryOrderIsAnswered`), `ServedSessions`
  (`SessionsAreServed`).  The first four rest on one invariant, `CoreInv`:
  * `Types`, and `BookInv`: the counters kept beside the pending table count it,
    and every entry is of an order that was sent;
  * `CircuitInv`: the breaker is not half open between two steps;
  * `RateInv`: tokens left and orders since any earlier order are at most the
    burst and the refill since then;
  * `AnswerInv`: an order without an answer is Submitted and was young at the
    last sweep, and a drain began after the last send; `RingInv`: what answers
    are under way;
  * `LiveIsCancellable` itself, `IdsInv` (every binding of the id table is of an
    order sent, at the time it was sent, and is in the expiry queue, which is in
    order of time), and `CidInv`: an order keeps its
    client id until it fails or the window passes, and while its failure may
    still come it is tracked or no longer holds the id.

  `SessionInv` is apart: what a session owes is what it is writing and then its
  queue, it writes if and only if there is something to write, a queued message
  has set the wake flag, and the close has woken whoever waits.

  The operators on the tables are reasoned about once.  `GatewayStepProofs`
  states what it needs of them as `Promises`, and has one lemma per step of the
  reactor with the promises as an assumption; `GatewayOrdersProofs` proves the
  lemmas on the operators; `GatewayProofs` shows that they keep the promises
  (`TablesKeep`) and discharges the assumption.  `OrdersAssumption`: capacity
  and threshold are positive, the other sizes naturals.  `GatewayAssumption`:
  the time-outs are naturals, sweep interval and queue length are positive, and
  the clock of the instance runs long enough for the last order to time out.

Only model-checked:

* Liveness (`EventuallyApplied`, `StreamAdvances`, `FollowerCatchesUp`,
  `FundingIsRecorded`, `ReadersConverge`, `GatewaySettles`): the prover has
  neither fairness nor `ENABLED`.
* The refinement `ImplementsAbstract` and the agreement invariants of `Matching`
  and `MeRecovery`: the match loop is a recursive operator, and what it computes
  needs induction over the makers.
* The bitmap searches (`PricesAreFound`, `SearchesAreExact`): climb and descent
  are recursive functions over the levels, and that they are exact is an
  induction over them with powers of the word size.
* The safety properties of sections 5, 6, 7, 9 and 10.  Those about sums over
  users, fills or orders (`MoneyIsAccounted`, `FundPaysDeficits`,
  `MarginInputsAgree`) need what a fold computes, again an induction; for the
  others no proof has been attempted.

## 13. Not modelled

The component list of `PROJECT.json` has every part with its status.

* Support crates, the command line, the clients and the playground: encoding,
  sockets, logging, user interface; no protocol state.
* Bytes: record and checkpoint layouts, WebSocket and REST parsing and
  formatting, the venues' messages of the mark sources.  A record is what its
  reader tells apart.
* Power loss: a kill keeps what was written.  Pruning of the archive, TLS and
  the recorder's watchdog.
* In the book: the full slab, which ends the process (the number of orders is
  bounded by its size); `modify_order_price` and lazy migration, which no
  process calls.  `modify_order_qty_down` is called by marketdata alone, and is
  in `ShadowBook`.
* In the risk shard: portfolios of several symbols, saturation of 64-bit
  amounts, insurance and liquidation rows in Postgres, commands to the engine
  that are lost on the way.
* In the gateway: eviction of the per-address limiters, the minting of order
  ids (a counter here), several users.
* Wall-clock time is abstract in the transport and the recovery models (every
  timer may fire at any moment) and a small clock in gateway, mark, funding
  and symbol configuration.

## 14. Where code and documents disagree

The models contain the behaviour below, and the listed properties are stated so
that they hold beside it: each exception is named in the property, or excluded
by a constant or a request set that is named here.  Where a module also has the
stronger property, its name is given in parentheses: named in the `.cfg` of the
run it fails, with the behaviour as its trace.

Casting, book and matching engine:

* The matching loop never leaves RECONNECT (`ReconnectEnds`;
  `rsx-matching/src/cast_loop.rs:174` against `rsx-cast/src/cast.rs:415`).
* `update_config` keeps the compression map of the old tick, so the cached best
  price can be wrong after a finer tick (`BestIsBest` of `Spec` with
  `TickRequests`, mid 10002 and tick 2 changed to 1;
  `rsx-book/src/book.rs:151` against `rsx-book/src/level.rs:14`).
* A checkpoint may be on disk before the log it covers, and a resend then
  executes twice (`NoDoubleExecution`; `rsx-matching/src/wal.rs:612` against
  `specs/2/47-validation-edge-cases.md:433`).
* Replay of a torn batch executes an order without logging its fills
  (`PositionsMatchWal`; `rsx-matching/src/wal.rs:533` against
  `specs/2/28-risk.md:593`).
* A failed send leaves the heartbeat behind (`cast.rs:236`): a stream-ending
  record whose send failed is announced only by its successor.
  `EventuallyApplied` is about announced records.
* A heartbeat can enter FAULTED in a call that then delivers the missing
  record (`cast.rs:692`): replay applies it again.  `ReportedIsDelivered`
  allows for that record.
* A record delivered off the wire leaves its reorder slot occupied
  (`cast.rs:736`) and can raise RECONNECT one ring length later.
* A packet more than 100 behind resets the receiver (`cast.rs:717`), a late
  duplicate too.  `MaxDelay` excludes it.
* A zone with less than one slot per side puts its prices into a neighbour's
  range (`book.rs:580`), and the best bid found may not be the best
  (`book.rs:520`).  `MinMidTicks` and the mids of the runs exclude it.
* `can_fill_fully` counts the makers of a compressed slot in arrival order,
  the match loop takes them in price order (`matching.rs:478`).  When the slot
  holds more makers than the cap, a fill-or-kill order can be filled in part;
  the quantities of `MCMatching` exclude it, the better price has the larger.
* The reduce-only clamp is applied at entry only (`matching.rs:88`).
* After a crash the writer reuses numbers that were cast and not flushed
  (`recovery.rs:162`), and receivers drop them as old (`cast.rs:729`).
  `WalIncreases` is about the log alone; for what it does to risk's
  configuration see below.
* `CONFIG_APPLIED` is skipped by replay (`wal.rs:516`), and a checkpoint's
  config wins over the applied row (`recovery.rs:112`): `me_recovery` applies
  a config only beside one order at a price both ticks accept.

Replication and recorder:

* A request for the record behind the end of the stream starts with `last_seq =
  from_seq`; with nothing to stream, CAUGHT_UP names a record that was not sent
  and the tail starts behind it (`NoGap`;
  `rsx-cast/src/replication_server.rs:147` against
  `specs/2/10-replication.md:662`, "No gap, no duplicate.", and `:664`).
* A failed archive write is repeated behind what had landed, so that a torn
  frame may have whole ones behind it, where `read_last_seq` and any other
  reader stops (`ArchiveIsReadable`; `rsx-recorder/src/main.rs:58` against
  `specs/2/48-wal.md:114`, "the archive is the long-term copy and the complete
  fill log").
* The recorder's tip can be persisted ahead of its buffer, a failed rotation
  drops the record while the tip moves on, and a failed last flush is only
  logged.  A restart on a later day repeats records across day files.
* A writer left on `/dev/null` by a failed rotation never flushes again.

Risk:

* Rows and tip of a fill may be in two batches, and the dedup compares with the
  tip alone (`PositionIsSumOfFills` of `RiskRecovery`;
  `rsx-risk/src/position.rs:245` against
  `rsx-risk/tests/crash_guarantees_test.rs:216`).
* Without a persist producer, catch-up drops the rows of what it applies
  (`FillsTableComplete`; `rsx-risk/src/persist.rs:576` against `:570`).
* The fence of `flush_batch` is checked before the commit (`persist.rs:394`),
  so a demoted main can still commit (`persist.rs:349` says it cannot).
  `RowsNeverGoBack` holds by the versions; freezes have none, so one that the
  successor released can come back (`skewed`).
* An acceptance read by gap replay freezes in memory and writes no row, and an
  order in flight at a promotion is accepted without a freeze
  (`margin.rs:376`).
* An overtaken transaction also overwrites an account row of equal version, so
  that a recorded funding payment is missing from the collateral, and can take
  an interval's key, on which its successor's batches fail until the circuit
  opens.
* A mark runs no margin scan (`MarginCheckedOnEveryPrice`;
  `rsx-risk/src/price.rs:51` against `specs/2/28-risk.md:285`, "Margin
  recalculated on every price tick for all exposed users.").
* A ring that fills in the middle of a liquidation drops the orders and losses
  that are left, although the round is counted (`rsx-risk/src/shard.rs:243`,
  whose warning says "retrying next tick").
* `realized_pnl` is in no equity or collateral
  (`specs/2/42-testing-risk.md:104` counts it into the balance).
* A failed cancel is not sent again, and an order can be let in during its
  user's liquidation: `LiquidationIsOrderly` leaves both out (`spared`).
* A socialized loss is not followed by a warm replica.

Gateway:

* A session that sees Closing after it awaited its writes returns without
  looking at its queue, and an answer queued meanwhile is lost
  (`AnswerBeforeClose`; `rsx-gateway/src/handler.rs:131` against
  `specs/2/11-gateway.md:92`).
* A restart forgets the client ids; a lost ORDER_DONE leaves an order resting
  here for ever; after the window, a cancel by id finds the oldest of two.

Marketdata:

* A retry of a replay drains again from the same position and applies records
  twice (`rsx-marketdata/src/main.rs:68`), and so does a replay from a position
  that was reported one behind (`cast.rs:692`).
* A start from the tip file has none of what rested before it
  (`rsx-marketdata/ARCHITECTURE.md:94`, "makes restart idempotent").  Records
  cast between CAUGHT_UP and the first packet are missed unnoticed, and one
  replay address serves the streams of all engines.
* `rsx-marketdata/src/state.rs:243` relies on a next snapshot tick that does not
  exist.  A snapshot clears the deltas of other symbols from the queue; it is
  cut at a depth and the deltas behind it are not; an eviction loses resting
  orders.

Mark:

* When all sources are stale risk keeps the last mark
  (`specs/2/15-mark.md:180`, "Risk engines fall back to index price").
* A refused append leaves a hole and is not tried again; a source stops for
  good after its retries; a restart takes numbers that were cast and not
  flushed, and risk drops those marks as old.

Symbol configuration:

* `apply_symbol_config` compares no versions, so a version announced again can
  take risk back for good (`specs/2/19-metadata.md:62`, "Once applied, **never
  revert**", and `:68`, "Older versions are ignored.").
* A failed or dropped reload is not tried again, and an announcement that a
  warm or restarted node did not see is lost to it while its clock is behind.
* Risk and gateway read the schedule by their own clocks too, and can run ahead
  of the engine (`specs/2/19-metadata.md:14`, "not direct DB polling").
* The sidecar's Postgres client is not opened again (`config.rs:408` of
  `rsx-matching/src`): once it is lost no version reaches the book until the
  engine is restarted, and no applied row is written.
* A version announced by a restarted engine under a number risk has had before
  is dropped as old, and nothing announces it again.
* A crash before the applied row, or a failed write of it, boots the engine with
  an older version; a book restored from a checkpoint keeps its configuration.
* An event ring that fills within one batch is freed by the timer alone, since
  the doorbell is rung after the batch.
