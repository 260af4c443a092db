----------------------------- MODULE SymbolConfig -----------------------------
(***************************************************************************)
(* How a new version of a symbol's configuration reaches the matching      *)
(* engine and the risk shard.                                              *)
(*                                                                         *)
(*   operators  insert versions into symbol_config_schedule;               *)
(*   engine     a sidecar thread polls the schedule and hands due versions *)
(*              to the matching loop, which applies each to its book,      *)
(*              announces it as CONFIG_APPLIED on its stream and hands it  *)
(*              back for the symbol_config_applied row;                    *)
(*   risk       reads the schedule by its own clock at boot and promotion; *)
(*              live, an announced version is fetched by the persist       *)
(*              worker and installed by the next tick.  The record is also *)
(*              forwarded to the gateway: module GatewayFeed.              *)
(*                                                                         *)
(* A configuration is named by its version: rows are never changed.  The   *)
(* behaviours start with version 1 applied everywhere (before it, an       *)
(* engine runs on its environment's configuration).  Every fault (a crash, *)
(* a failed query, a repeated record) spends one of MaxFaults.             *)
(*                                                                         *)
(* Sources: rsx-risk/src/{config,app,persist,cast_loop,replay}.rs,         *)
(* rsx-matching/src/{config,app}.rs.                                       *)
(***************************************************************************)
EXTENDS SymbolSchedule, Functions

CONSTANTS
  Changes,       \* the settings an operator may ask for
  Times,         \* the effective times an operator may ask for
  Lag,           \* how far a process's clock is behind: engine, risk
  StartTime,     \* the true time as the behaviour starts; version 1 is
                 \* effective from time 0, before any clock
  MaxVersion,    \* bound: versions scheduled
  MaxTime,       \* bound: the clock
  MaxFaults,     \* bound: faults
  RingCap        \* slots of each ring of configurations

(* The migrations insert a version 1 that every reader can install; a clock is
   behind the true time and past time 0; a setting is a number. *)
ASSUME ConfigAssumption ==
  /\ Seed \in [ConfigField -> Int]
  /\ ReadableByRisk(FirstRow) /\ ReadableByGateway(FirstRow)
  /\ CheckedMarginRules(FirstRow)
  /\ IntMax \in Nat /\ StartTime \in Nat /\ RingCap \in Nat
  /\ Lag \in [{"engine", "risk"} -> 0..StartTime]
  /\ Times \subseteq Nat
  /\ \A changes \in Changes : \A f \in DOMAIN changes : changes[f] \in Int

VARIABLES
  now,        \* the true time
  schedule,   \* the rows of symbol_config_schedule
  applied,    \* the version of the symbol_config_applied row, 0 if none
  writer,     \* an operator's open transaction, or Idle
  engine,     \* the matching engine's process
  linked,     \* whether its sidecar's connection to Postgres is open
  wire,       \* the CONFIG_APPLIED records of the engine's stream
  gone,       \* the positions of those that risk had read and a crash took
              \* from the log
  ahead,      \* risk's next number may be above the engine's
  risk,       \* the risk shard's process
  faults,     \* faults so far
  missed,     \* (history) announced versions that risk read and did not install
  again       \* (history) versions announced a second time

pgVars == <<now, schedule, applied, writer>>
wireVars == <<wire, gone, again>>
meVars == <<engine, linked, wireVars, ahead>>
riskVars == <<risk, missed>>
vars == <<pgVars, meVars, riskVars, faults>>

None == -1
Idle == [base |-> 0]
Fault == faults < MaxFaults /\ faults' = faults + 1
Clock(process) == now - Lag[process]

-----------------------------------------------------------------------------
(* Operators. *)

(***************************************************************************)
(* What schedule_symbol_config checks before it writes: each setting by    *)
(* itself, then the time and the interval against the highest version.     *)
(***************************************************************************)
MaySchedule(changes, at) ==
  LET base == schedule[Len(schedule)] IN
  /\ Len(schedule) < MaxVersion
  /\ \A f \in DOMAIN changes : CheckedConfigValue(f, changes[f])
  /\ CheckedScheduleTime(base, at)
  /\ "funding_interval" \in DOMAIN changes =>
       CheckedFundingInterval(base.set["funding_interval"],
                              changes["funding_interval"])

(* The row must read back as one that risk will install. *)
MayCommit(row) == ReadableByRisk(row) /\ CheckedMarginRules(row)

(***************************************************************************)
(* The read of the highest version.  A command that will be refused writes *)
(* nothing and is left out; rows do not change, so that a copy is one risk *)
(* will not install is settled here.                                       *)
(***************************************************************************)
ScheduleRead(changes, at) ==
  /\ writer = Idle
  /\ MaySchedule(changes, at)
  /\ MayCommit(Copied(schedule[Len(schedule)], changes, at))
  /\ writer' = [base |-> Len(schedule), changes |-> changes, at |-> at]
  /\ UNCHANGED <<now, schedule, applied, meVars, riskVars, faults>>

\* Mutant of ScheduleInsert: the copy takes the next free number, whatever
\* version it copied.
ScheduleInsertNext ==
  /\ writer # Idle
  /\ schedule' = Append(schedule, Copied(schedule[writer.base],
                                         writer.changes, writer.at))
  /\ writer' = Idle
  /\ UNCHANGED <<now, applied, meVars, riskVars, faults>>

(***************************************************************************)
(* The insert of version base + 1 and the commit.  The transaction is      *)
(* abandoned when another writer has taken the number.                     *)
(***************************************************************************)
ScheduleInsert ==
  /\ writer # Idle
  /\ schedule' = IF Len(schedule) = writer.base
                 THEN Append(schedule, Copied(schedule[writer.base],
                                              writer.changes, writer.at))
                 ELSE schedule
  /\ writer' = Idle
  /\ UNCHANGED <<now, applied, meVars, riskVars, faults>>

(***************************************************************************)
(* The command of another operator, in one step: had the schedule changed  *)
(* between its read and its insert, it would have written nothing.         *)
(***************************************************************************)
ScheduleRival(changes, at) ==
  LET row == Copied(schedule[Len(schedule)], changes, at) IN
  /\ writer # Idle
  /\ MaySchedule(changes, at)
  /\ MayCommit(row)
  /\ schedule' = Append(schedule, row)
  /\ UNCHANGED <<now, applied, writer, meVars, riskVars, faults>>

Tick ==
  /\ now < MaxTime
  /\ now' = now + 1
  /\ UNCHANGED <<schedule, applied, writer, meVars, riskVars, faults>>

-----------------------------------------------------------------------------
(* The matching engine. *)

(* emit_config_applied. *)
Announce(v) ==
  /\ wire' = Append(wire, v)
  /\ again' = again \cup ({v} \cap Range(wire))
  /\ UNCHANGED <<gone, ahead>>

LoadAppliedConfig == applied

(***************************************************************************)
(* The book of a booting engine is the newest checkpoint's, whose          *)
(* configuration is any version the book has had, or a new one with the    *)
(* boot configuration, that of the applied row.                            *)
(***************************************************************************)
BootBooks == {LoadAppliedConfig} \cup 1..engine.book

(***************************************************************************)
(* Boot: the sidecar goes on from the applied row's version, which is      *)
(* announced.                                                              *)
(***************************************************************************)
EngineBoot ==
  /\ ~engine.up
  /\ \E book \in BootBooks :
       engine' = [up |-> TRUE, handed |-> LoadAppliedConfig, due |-> <<>>,
                  done |-> <<>>, book |-> book, boot |-> book]
  /\ linked' = TRUE
  /\ Announce(LoadAppliedConfig)
  /\ UNCHANGED <<pgVars, riskVars, faults>>

(***************************************************************************)
(* A crash loses the rings and what had not reached the WAL files.  The    *)
(* restarted engine numbers on from the files, and a record is cast before *)
(* it is flushed: when risk had read more than the first "kept" records,   *)
(* or others behind them, the next numbers are below the one risk waits    *)
(* for.                                                                    *)
(***************************************************************************)
EngineCrash ==
  /\ engine.up
  /\ Fault
  /\ engine' = [engine EXCEPT !.up = FALSE, !.due = <<>>, !.done = <<>>]
  /\ \E kept \in 0..Len(wire) :
       /\ wire' = SubSeq(wire, 1, IF kept < risk.read THEN risk.read ELSE kept)
       /\ gone' = gone \cup (kept + 1)..risk.read
       /\ \/ kept <= risk.read /\ ahead' = TRUE
          \/ kept >= risk.read /\ UNCHANGED ahead
  /\ UNCHANGED <<pgVars, linked, again, riskVars>>

(***************************************************************************)
(* The sidecar owns one client and does not open another: from now on its  *)
(* polls and its writes fail.                                              *)
(***************************************************************************)
PostgresLost ==
  /\ engine.up /\ linked
  /\ Fault
  /\ linked' = FALSE
  /\ UNCHANGED <<pgVars, engine, wireVars, ahead, riskVars>>

(***************************************************************************)
(* The sidecar's poll: the due versions, lowest first, onto the ring until *)
(* it is full.  (Versions are contiguous, so are the due ones.)  A poll    *)
(* that fails hands nothing over, and the next one asks again.             *)
(***************************************************************************)
HandOffDueConfigs ==
  LET configs == PollScheduled(schedule, engine.handed, Clock("engine"))
      room == RingCap - Len(engine.due)
      pushed == {v \in configs : v < Min(configs) + room}
  IN
  /\ engine.up /\ linked
  /\ pushed # {}
  /\ engine' = [engine EXCEPT
       !.due = @ \o [i \in 1..Cardinality(pushed) |-> Min(configs) + i - 1],
       !.handed = Max(pushed)]
  /\ UNCHANGED <<pgVars, linked, wireVars, ahead, riskVars, faults>>

(***************************************************************************)
(* apply_due_configs, one version: the book, the ring of applied versions  *)
(* (full: the row is not written), the announcement.                       *)
(***************************************************************************)
ApplyDueConfig ==
  /\ engine.due # <<>>
  /\ LET v == Head(engine.due) IN
     /\ engine' = [engine EXCEPT
          !.book = v,
          !.due = Tail(@),
          !.done = IF Len(@) < RingCap THEN Append(@, v) ELSE @]
     /\ Announce(v)
  /\ UNCHANGED <<pgVars, linked, riskVars, faults>>

WriteAppliedConfig ==
  /\ engine.done # <<>> /\ linked
  /\ applied' = Head(engine.done)
  /\ engine' = [engine EXCEPT !.done = Tail(@)]
  /\ UNCHANGED <<now, schedule, writer, linked, wireVars, ahead, riskVars, faults>>

(* A failed upsert has left the ring and is not tried again. *)
WriteAppliedFails ==
  /\ engine.done # <<>>
  /\ IF linked THEN Fault ELSE UNCHANGED faults
  /\ engine' = [engine EXCEPT !.done = Tail(@)]
  /\ UNCHANGED <<pgVars, linked, wireVars, ahead, riskVars>>

-----------------------------------------------------------------------------
(* The risk shard. *)

Stopped == [phase |-> "down", version |-> 0, interval |-> 0, reloads |-> <<>>,
            updates |-> <<>>, read |-> 0]

(***************************************************************************)
(* apply_symbol_config: the one write path, at boot, at promotion and on a *)
(* live reload.  It compares no versions.                                  *)
(***************************************************************************)
ApplySymbolConfig(r, v) ==
  IF CheckedFundingInterval(r.interval, schedule[v].set["funding_interval"])
  THEN [r EXCEPT !.version = v,
                 !.interval = schedule[v].set["funding_interval"]]
  ELSE r

ApplySymbolConfigs(r) ==
  LET active == ActiveVersion(schedule, Clock("risk")) IN
  IF active = 0 THEN r ELSE ApplySymbolConfig(r, active)

(***************************************************************************)
(* A node boots warm: it loads the active version by its own clock and     *)
(* follows the engine's stream from a durable tip.                         *)
(***************************************************************************)
RiskBoot ==
  /\ risk.phase = "down"
  /\ \E tip \in 0..risk.read :
       /\ risk' = ApplySymbolConfigs([Stopped EXCEPT !.phase = "warm",
                                                     !.read = tip])
       /\ missed' = {v \in Range(SubSeq(wire, 1, tip)) : v > risk'.version}
  /\ UNCHANGED <<pgVars, meVars, faults>>

(***************************************************************************)
(* Records a node goes past.  A warm one has no persist worker: what is    *)
(* announced to it is dropped (process_config_applied).  A record under a  *)
(* number the node has had from the engine before its crash is dropped as  *)
(* old (try_recv_with).  And what the log lost is not there for a node     *)
(* that starts again.                                                      *)
(***************************************************************************)
RiskPassesOver ==
  /\ risk.phase # "down"
  /\ risk.read < Len(wire)
  /\ LET next == risk.read + 1 IN
     /\ risk.phase = "warm" \/ ahead \/ next \in gone
     /\ missed' = IF wire[next] > risk.version /\ next \notin gone
                  THEN missed \cup {wire[next]} ELSE missed
     /\ risk' = [risk EXCEPT !.read = next]
  /\ UNCHANGED <<pgVars, meVars, faults>>

(***************************************************************************)
(* Promotion reads the schedule again, before the first live record.       *)
(***************************************************************************)
RiskPromote ==
  /\ risk.phase = "warm"
  /\ risk' = ApplySymbolConfigs([risk EXCEPT !.phase = "live"])
  /\ missed' = {v \in missed : v > risk'.version}
  /\ UNCHANGED <<pgVars, meVars, faults>>

\* Mutant of ProcessConfigApplied: any version is fetched.
ProcessConfigAppliedAny(r, v) == [r EXCEPT !.reloads = Append(@, v)]

\* Mutant of ProcessConfigApplied: no fetch is queued behind another.
ProcessConfigAppliedOne(r, v) ==
  IF v <= r.version \/ r.reloads # <<>> THEN r
  ELSE [r EXCEPT !.reloads = Append(@, v)]

(* process_config_applied: a version above the installed one is fetched. *)
ProcessConfigApplied(r, v) ==
  IF v <= r.version THEN r ELSE [r EXCEPT !.reloads = Append(@, v)]

(***************************************************************************)
(* A live CONFIG_APPLIED: the fetch is queued for the persist worker (the  *)
(* ring of 8192 is taken as unbounded); GatewayFeed has the forwarding.    *)
(* Its number is the next one: from here on the engine's are not behind.   *)
(***************************************************************************)
RiskReceive ==
  /\ risk.phase = "live"
  /\ risk.read < Len(wire)
  /\ risk.read + 1 \notin gone
  /\ risk' = [ProcessConfigApplied(risk, wire[risk.read + 1])
                EXCEPT !.read = @ + 1]
  /\ ahead' = FALSE
  /\ UNCHANGED <<pgVars, engine, linked, wireVars, missed, faults>>

(* The record before a fault is applied and forwarded again by the replay. *)
RiskReceiveAgain ==
  /\ risk.phase = "live"
  /\ risk.read \in 1..Len(wire) \ gone /\ ~ahead
  /\ Fault
  /\ risk' = ProcessConfigApplied(risk, wire[risk.read])
  /\ UNCHANGED <<pgVars, meVars, missed>>

(***************************************************************************)
(* The persist worker, between two batches: fetch the named version and    *)
(* hand it to the shard.  A full ring drops it.                            *)
(***************************************************************************)
ReloadSymbolConfig ==
  /\ risk.reloads # <<>>
  /\ LET v == Head(risk.reloads)
         fits == /\ v \in DOMAIN schedule
                 /\ ReadableByRisk(schedule[v])
                 /\ Len(risk.updates) < RingCap
     IN
     /\ risk' = [risk EXCEPT !.reloads = Tail(@),
                             !.updates = IF fits THEN Append(@, v) ELSE @]
     /\ missed' = IF fits THEN missed ELSE missed \cup {v}
  /\ UNCHANGED <<pgVars, meVars, faults>>

(* A failed query is logged and the fetch forgotten. *)
ReloadFails ==
  /\ risk.reloads # <<>>
  /\ Fault
  /\ risk' = [risk EXCEPT !.reloads = Tail(@)]
  /\ missed' = missed \cup {Head(risk.reloads)}
  /\ UNCHANGED <<pgVars, meVars>>

(***************************************************************************)
(* The fetched versions are installed oldest first, each by the check of   *)
(* apply_symbol_config: the last one with the symbol's funding interval    *)
(* (the first one's, when none was installed yet) stays.                   *)
(***************************************************************************)
ApplyUpdates(r, updates) ==
  LET interval == IF r.interval = 0
                  THEN schedule[Head(updates)].set["funding_interval"]
                  ELSE r.interval
      taken == {i \in DOMAIN updates :
                  schedule[updates[i]].set["funding_interval"] = interval}
  IN IF taken = {} THEN r
     ELSE [r EXCEPT !.version = updates[Max(taken)], !.interval = interval]

(* The head of a tick: every fetched version is installed. *)
DrainConfigUpdates ==
  /\ risk.updates # <<>>
  /\ risk' = [ApplyUpdates(risk, risk.updates) EXCEPT !.updates = <<>>]
  /\ missed' = {v \in missed : v > risk'.version}
  /\ UNCHANGED <<pgVars, meVars, faults>>

(***************************************************************************)
(* A crash or a demotion: the rings are lost.                              *)
(***************************************************************************)
RiskCrash ==
  /\ risk.phase # "down"
  /\ Fault
  /\ risk' = [Stopped EXCEPT !.read = risk.read]
  /\ UNCHANGED <<pgVars, meVars, missed>>

-----------------------------------------------------------------------------
(* Version 1 runs everywhere and a risk node is warm. *)
Init ==
  /\ now = StartTime
  /\ schedule = <<FirstRow>>
  /\ applied = 1
  /\ writer = Idle
  /\ engine = [up |-> TRUE, book |-> 1, handed |-> 1, due |-> <<>>,
               done |-> <<>>, boot |-> 1]
  /\ linked = TRUE
  /\ wire = <<>> /\ gone = {} /\ ahead = FALSE
  /\ again = {}
  /\ risk = [Stopped EXCEPT !.phase = "warm", !.version = 1, !.interval =
               Seed["funding_interval"]]
  /\ missed = {}
  /\ faults = 0

Schedule ==
  \/ \E changes \in Changes, at \in Times :
       ScheduleRead(changes, at) \/ ScheduleRival(changes, at)
  \/ ScheduleInsert

Engine ==
  EngineBoot \/ HandOffDueConfigs \/ ApplyDueConfig \/ WriteAppliedConfig

Risk ==
  \/ RiskBoot \/ RiskPassesOver \/ RiskPromote \/ RiskReceive
  \/ ReloadSymbolConfig \/ DrainConfigUpdates

Faults ==
  \/ EngineCrash \/ PostgresLost \/ WriteAppliedFails \/ RiskCrash \/ RiskReceiveAgain
  \/ ReloadFails

Next == Schedule \/ Tick \/ Engine \/ Risk \/ Faults

Spec == Init /\ [][Next]_vars

-----------------------------------------------------------------------------
(* Every ring is within its capacity, every position within its stream and
   every version one of the schedule's. *)
TypeOK ==
  /\ now \in StartTime..MaxTime
  /\ Len(schedule) \in 1..MaxVersion
  /\ applied \in 0..Len(schedule)
  /\ engine.book \in 0..Len(schedule) /\ engine.handed \in 0..Len(schedule)
  /\ Len(engine.due) <= RingCap /\ Len(engine.done) <= RingCap
  /\ \A i \in DOMAIN wire : wire[i] \in 1..Len(schedule)
  /\ risk.phase \in {"down", "warm", "live"}
  /\ risk.version \in 0..Len(schedule)
  /\ risk.read \in 0..Len(wire)
  /\ Len(risk.updates) <= RingCap
  /\ faults \in 0..MaxFaults

(* Whatever two operators do at the same time, a version is effective no
   earlier than a lower one, keeps the symbol's funding interval and is one
   that both readers can install: so the highest effective version of
   load_symbol_configs is the last of poll_scheduled_configs at every time. *)
ScheduleIsSound ==
  \A v \in DOMAIN schedule :
    /\ ReadableByRisk(schedule[v]) /\ ReadableByGateway(schedule[v])
    /\ CheckedMarginRules(schedule[v])
    /\ v > 1 => /\ schedule[v - 1].at <= schedule[v].at
                /\ schedule[v].set["funding_interval"] =
                     schedule[v - 1].set["funding_interval"]

(* The applied row an engine boots on never goes back to an older version,
   whatever crashes and failed writes come between. *)
AppliedRowAscends == [][applied' >= applied]_vars

(* A live shard goes back to an older version only when a restarted engine
   has announced that version a second time: the shard compares versions as
   it queues the fetch and not as it installs the row. *)
GoesBackOnlyIf ==
  [][risk.phase = "live" /\ risk'.phase = "live" /\ risk'.version < risk.version
       => risk'.version \in again]_vars

(* Versions go forward: in the applied row always, in a live shard but for
   that case. *)
VersionsGoForward == AppliedRowAscends /\ GoesBackOnlyIf

(* Both readers converge, in spite of full rings, failed writes and restarts.
   The engine's book ends up with the version in force by its clock; the
   exceptions are a book restored from a checkpoint older than the applied
   row, and a sidecar that has lost its connection to Postgres.  The shard ends
   up with the version the engine announced last, whether the record, the
   engine or the shard was lost on the way.  There are four exceptions, and
   nothing tries again for any of them: a fetch that failed or was dropped; an
   announcement a node passed over while warm, or before its restart, and not
   in force by its clock as it boots or is promoted; one dropped as old, since
   a restarted engine gave it a number that risk had read before the crash; and
   a version announced a second time and fetched while a newer one was being
   installed, after which the newer one's second announcement is not newer. *)
ReadersConverge ==
  <>[](/\ \/ engine.book \in {ActiveVersion(schedule, Clock("engine")), engine.boot}
          \/ ~linked
       /\ wire # <<>> => \/ risk.version >= wire[Len(wire)]
                         \/ wire[Len(wire)] \in missed
                         \/ risk.version \in again)
=============================================================================
