---------------------------- MODULE SymbolSchedule ----------------------------
(***************************************************************************)
(* The table symbol_config_schedule: one row per version of a symbol's     *)
(* configuration, written by the operator's `config schedule` command and  *)
(* read by the matching engine, by risk and by the gateway.  A row is      *)
(* never changed.  Row v of the sequence is version v; a row holds the     *)
(* time from which it is effective and the columns that a check reads      *)
(* (the other columns are copied from version to version unread).          *)
(*                                                                         *)
(* Sources: rsx-risk/src/config.rs, rsx-matching/src/config.rs,            *)
(* rsx-gateway/src/symbols.rs.                                             *)
(***************************************************************************)
EXTENDS Integers, Sequences, FiniteSets, FiniteSetsExt

CONSTANTS
  Seed,      \* the columns of version 1, which the migrations insert
  IntMax     \* the largest value of an INT column (i32::MAX)

Quantities == {"tick_size", "min_notional"}
Signed == {"funding_min", "funding_max"}
Counts == {"initial_margin", "maintenance_margin", "max_leverage",
           "funding_interval"}
ConfigField == Quantities \cup Signed \cup Counts

(***************************************************************************)
(* What a single setting must satisfy before the table is looked at.       *)
(***************************************************************************)
CheckedConfigValue(field, value) ==
  /\ field \notin Signed => value > 0
  /\ field \notin Quantities => value \in -IntMax..IntMax

(***************************************************************************)
(* What the copied version must satisfy: maintenance below initial margin  *)
(* and a leverage of at least 1.                                           *)
(***************************************************************************)
CheckedMarginRules(row) ==
  /\ row.set["maintenance_margin"] < row.set["initial_margin"]
  /\ row.set["max_leverage"] >= 1

CheckedFundingInterval(current, requested) ==
  current = 0 \/ requested = current

CheckedScheduleTime(base, at) == at >= base.at

(***************************************************************************)
(* The rows risk can read, and those the gateway can.                      *)
(***************************************************************************)
CheckedFunding(row) ==
  /\ row.set["funding_interval"] > 0
  /\ row.set["funding_min"] <= row.set["funding_max"]

ReadableByRisk(row) == CheckedFunding(row) /\ row.set["min_notional"] > 0

ReadableByGateway(row) ==
  row.set["tick_size"] > 0 /\ row.set["min_notional"] > 0

(***************************************************************************)
(* The row that schedule_symbol_config inserts: a copy of base with the    *)
(* changes laid over it.                                                   *)
(***************************************************************************)
Copied(base, changes, at) ==
  [at  |-> at,
   set |-> [f \in ConfigField |->
              IF f \in DOMAIN changes THEN changes[f] ELSE base.set[f]]]

FirstRow == [at |-> 0, set |-> Seed]

(***************************************************************************)
(* The two queries: every version above `current` that is effective at t,  *)
(* in the order of their numbers, and the highest version effective at t   *)
(* (0 when there is none).                                                 *)
(***************************************************************************)
PollScheduled(schedule, current, t) ==
  {v \in DOMAIN schedule : v > current /\ schedule[v].at <= t}

ActiveVersion(schedule, t) ==
  Max({v \in DOMAIN schedule : schedule[v].at <= t} \cup {0})
=============================================================================
