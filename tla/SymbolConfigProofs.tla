-------------------------- MODULE SymbolConfigProofs --------------------------
(***************************************************************************)
(* Proofs about the way of a configuration: that the schedule is sound     *)
(* whatever two operators do at once, and that versions go forward, for    *)
(* every set of changes, every lag of the clocks, every ring size and any  *)
(* number of versions and faults.                                          *)
(***************************************************************************)
EXTENDS SymbolConfig, FiniteSetsExt, FiniteSetTheorems, WellFoundedInduction, TLAPS

-----------------------------------------------------------------------------
(* The least and the greatest element of a set of natural numbers, and the *)
(* size of an interval.  The least-number principle is also how induction  *)
(* over a number goes here: what fails somewhere fails at a least number.  *)

(* A non-empty set of natural numbers has a least element. *)
LEMMA LeastExists ==
    ASSUME NEW S, S \subseteq Nat, S # {}
    PROVE  \E x \in S : \A y \in S : x <= y
  <1>1. PICK x \in S : \A y \in S : ~ (<<y, x>> \in OpToRel(<, Nat))
    BY NatLessThanWellFounded, WFMin, Zenon
  <1>2. ASSUME NEW y \in S PROVE x <= y
    <2>1. ~ (<<y, x>> \in OpToRel(<, Nat))
      BY <1>1, Zenon
    <2>2. ~(y < x)
      BY <2>1 DEF OpToRel
    <2> QED BY <2>2
  <1> QED BY <1>2

(* Min of such a set is its least element. *)
LEMMA MinIsLeast ==
    ASSUME NEW S, S \subseteq Nat, S # {}
    PROVE  Min(S) \in S /\ \A y \in S : Min(S) <= y
  BY LeastExists, Zenon DEF Min

(* Max of a bounded one is its greatest element. *)
LEMMA MaxIsGreatest ==
    ASSUME NEW S, S \subseteq Nat, S # {}, NEW n \in Nat, \A y \in S : y <= n
    PROVE  Max(S) \in S /\ \A y \in S : y <= Max(S)
  <1> DEFINE below == {n - y : y \in S}
  <1>1. below \subseteq Nat /\ below # {}
    <2>1. ASSUME NEW y \in S PROVE n - y \in Nat
      <3>1. y \in Nat /\ y <= n
        OBVIOUS
      <3> QED BY <3>1
    <2> QED BY <2>1, Zenon
  <1>2. PICK least \in below : \A z \in below : least <= z
    BY <1>1, LeastExists, Zenon
  <1>3. PICK x \in S : least = n - x
    OBVIOUS
  <1>4. \A y \in S : x >= y
    <2> SUFFICES ASSUME NEW y \in S PROVE x >= y
      OBVIOUS
    <2>1. n - y \in below
      OBVIOUS
    <2>2. n - x <= n - y
      BY <1>2, <1>3, <2>1
    <2>3. x \in Nat /\ y \in Nat
      OBVIOUS
    <2> QED BY <2>2, <2>3
  <1> QED BY <1>4, Zenon DEF Max

(* An interval has as many elements as its ends are apart, and one. *)
LEMMA IntervalSize ==
    ASSUME NEW a \in Nat, NEW b \in Nat, a <= b
    PROVE  Cardinality(a .. b) = b - a + 1
  BY FS_Interval

-----------------------------------------------------------------------------
Row == [at : Int, set : [ConfigField -> Int]]

Interval(row) == row.set["funding_interval"]

Installable(row) ==
  ReadableByRisk(row) /\ ReadableByGateway(row) /\ CheckedMarginRules(row)

(* A row that may follow base. *)
Follows(row, base) ==
  /\ row \in Row
  /\ Installable(row)
  /\ row.at >= base.at
  /\ Interval(row) = Interval(base)

(* Rows are installable, of one interval, and later from version to version;
   the first is effective before any clock. *)
ScheduleInv ==
  /\ schedule \in Seq(Row) /\ Len(schedule) >= 1
  /\ schedule[1].at = 0
  /\ \A v \in 1..Len(schedule) :
       Installable(schedule[v]) /\ Interval(schedule[v]) = Interval(schedule[1])
  /\ \A u, v \in 1..Len(schedule) : u <= v => schedule[u].at <= schedule[v].at

(* What an operator's open transaction would insert follows the version it
   was copied from, which is still in the table. *)
WriterInv ==
  writer # Idle =>
    /\ writer.base \in 1..Len(schedule)
    /\ Follows(Copied(schedule[writer.base], writer.changes, writer.at),
               schedule[writer.base])

-----------------------------------------------------------------------------
(* What the checks of schedule_symbol_config give: the copy follows the row it
   was copied from. *)
LEMMA CopyFollows ==
  ASSUME ScheduleInv, NEW changes \in Changes, NEW at \in Times,
         MaySchedule(changes, at),
         MayCommit(Copied(schedule[Len(schedule)], changes, at))
  PROVE  Follows(Copied(schedule[Len(schedule)], changes, at),
                 schedule[Len(schedule)])
  <1> DEFINE base == schedule[Len(schedule)]
             row == Copied(base, changes, at)
  <1>1. base \in Row /\ Installable(base)
    BY DEF ScheduleInv
  <1>2. \A f \in DOMAIN changes : changes[f] \in Int
    BY ConfigAssumption
  <1> HIDE DEF base
  <1>3. row \in Row
    BY <1>1, <1>2, ConfigAssumption DEF Row, Copied
  <1>4. row.at >= base.at
    BY DEF MaySchedule, CheckedScheduleTime, Copied, base
  <1>5. {"tick_size", "min_notional", "funding_interval"} \subseteq ConfigField
    BY DEF ConfigField, Quantities, Counts
  <1>6. \A f \in {"tick_size", "min_notional"} : row.set[f] > 0
    <2> SUFFICES ASSUME NEW f \in {"tick_size", "min_notional"}
                 PROVE  row.set[f] > 0
      OBVIOUS
    <2>1. row.set[f] = IF f \in DOMAIN changes THEN changes[f] ELSE base.set[f]
      BY <1>5 DEF Copied
    <2>2. f \in DOMAIN changes => changes[f] > 0
      BY DEF MaySchedule, CheckedConfigValue, Signed
    <2>3. base.set[f] > 0
      BY <1>1 DEF Installable, ReadableByGateway
    <2> QED BY <2>1, <2>2, <2>3
  <1>7. Interval(row) = Interval(base)
    <2>1. Interval(row) = IF "funding_interval" \in DOMAIN changes
                          THEN changes["funding_interval"] ELSE Interval(base)
      BY <1>5 DEF Copied, Interval
    <2>2. Interval(base) # 0
      BY <1>1 DEF Installable, ReadableByRisk, CheckedFunding, Interval
    <2>3. "funding_interval" \in DOMAIN changes =>
            changes["funding_interval"] = Interval(base)
      BY <2>2 DEF MaySchedule, CheckedFundingInterval, Interval, base
    <2> QED BY <2>1, <2>3
  <1>8. Installable(row)
    BY <1>6 DEF MayCommit, Installable, ReadableByGateway, base
  <1> QED BY <1>3, <1>4, <1>7, <1>8 DEF Follows, base

(* A row that follows the highest version may be appended; rows are never
   changed, so what an open transaction would insert stays as it was. *)
LEMMA AppendFollows ==
  ASSUME ScheduleInv, WriterInv, NEW row, Follows(row, schedule[Len(schedule)]),
         schedule' = Append(schedule, row), writer' \in {writer, Idle}
  PROVE  ScheduleInv' /\ WriterInv' /\ Len(schedule') >= Len(schedule)
  <1> USE DEF ScheduleInv
  <1>0. row \in Row
    BY DEF Follows
  <1>1. /\ schedule' \in Seq(Row) /\ Len(schedule') = Len(schedule) + 1
        /\ \A v \in 1..Len(schedule) : schedule'[v] = schedule[v]
        /\ schedule'[Len(schedule')] = row
    BY <1>0
  <1>2. \A v \in 1..Len(schedule') : v \in 1..Len(schedule) \/ schedule'[v] = row
    BY <1>1
  <1>3. schedule'[1].at = 0
    BY <1>1
  <1>4. \A v \in 1..Len(schedule') : /\ Installable(schedule'[v])
                                     /\ Interval(schedule'[v]) = Interval(schedule'[1])
    BY <1>1, <1>2 DEF Follows
  <1>5. \A u, v \in 1..Len(schedule') : u <= v => schedule'[u].at <= schedule'[v].at
    <2> SUFFICES ASSUME NEW u \in 1..Len(schedule'), NEW v \in 1..Len(schedule'), u <= v
                 PROVE  schedule'[u].at <= schedule'[v].at
      OBVIOUS
    <2>1. schedule[Len(schedule)] \in Row
      OBVIOUS
    <2>2. \A w \in 1..Len(schedule) : schedule[w].at <= schedule[Len(schedule)].at
      <3>1. Len(schedule) \in 1..Len(schedule)
        OBVIOUS
      <3> QED BY <3>1
    <2>3. \A w \in 1..Len(schedule) : schedule[w].at \in Int
      <3>1. \A w \in 1..Len(schedule) : schedule[w] \in Row
        OBVIOUS
      <3> QED BY <3>1 DEF Row
    <2>4. row.at \in Int /\ row.at >= schedule[Len(schedule)].at
      BY <1>0 DEF Row, Follows
    <2>5. CASE v \in 1..Len(schedule)
      BY <1>1, <2>5
    <2>6. CASE v = Len(schedule) + 1 /\ u \in 1..Len(schedule)
      BY <1>1, <2>2, <2>3, <2>4, <2>6
    <2>7. CASE v = Len(schedule) + 1 /\ u = v
      BY <1>1, <2>4, <2>7
    <2> QED BY <1>1, <2>5, <2>6, <2>7
  <1>6. WriterInv'
    <2> SUFFICES ASSUME writer' # Idle PROVE WriterInv'
      BY DEF WriterInv
    <2>1. writer' = writer /\ writer.base \in 1..Len(schedule)
      BY DEF WriterInv
    <2>2. schedule'[writer.base] = schedule[writer.base]
          /\ writer.base \in 1..Len(schedule')
      BY <1>1, <2>1
    <2> QED BY <2>1, <2>2 DEF WriterInv
  <1> QED BY <1>1, <1>3, <1>4, <1>5, <1>6

(* The schedule changes by the operators alone. *)
LEMMA ScheduleStep ==
  ASSUME ScheduleInv, WriterInv, [Next]_vars
  PROVE  ScheduleInv' /\ WriterInv' /\ Len(schedule') >= Len(schedule)
  <1>0. Len(schedule) >= Len(schedule)
    BY DEF ScheduleInv
  <1>1. ASSUME NEW changes \in Changes, NEW at \in Times, ScheduleRead(changes, at)
        PROVE  ScheduleInv' /\ WriterInv' /\ Len(schedule') >= Len(schedule)
    <2>1. writer' = [base |-> Len(schedule), changes |-> changes, at |-> at]
          /\ schedule' = schedule
      BY <1>1 DEF ScheduleRead
    <2>2. Follows(Copied(schedule[Len(schedule)], changes, at), schedule[Len(schedule)])
      BY <1>1, CopyFollows DEF ScheduleRead
    <2>3. Len(schedule) \in 1..Len(schedule)
      BY DEF ScheduleInv
    <2>4. writer'.base = Len(schedule) /\ writer'.changes = changes /\ writer'.at = at
      BY <2>1
    <2>5. WriterInv'
      BY <2>1, <2>2, <2>3, <2>4 DEF WriterInv
    <2> QED BY <1>0, <2>1, <2>5 DEF ScheduleInv
  <1>2. ASSUME NEW changes \in Changes, NEW at \in Times, ScheduleRival(changes, at)
        PROVE  ScheduleInv' /\ WriterInv' /\ Len(schedule') >= Len(schedule)
    BY <1>2, CopyFollows, AppendFollows DEF ScheduleRival
  <1>3. CASE ScheduleInsert
    <2>1. writer' = Idle /\ writer # Idle
      BY <1>3 DEF ScheduleInsert
    <2>2. CASE Len(schedule) = writer.base
      <3>1. Follows(Copied(schedule[writer.base], writer.changes, writer.at),
                    schedule[Len(schedule)])
        BY <2>1, <2>2 DEF WriterInv
      <3> QED BY <1>3, <2>1, <2>2, <3>1, AppendFollows DEF ScheduleInsert
    <2>3. CASE Len(schedule) # writer.base
      BY <1>0, <1>3, <2>1, <2>3 DEF ScheduleInsert, ScheduleInv, WriterInv
    <2> QED BY <2>2, <2>3
  <1>4. CASE Tick
    BY <1>0, <1>4 DEF Tick, ScheduleInv, WriterInv
  <1>5. CASE Engine
    BY <1>0, <1>5 DEF Engine, EngineBoot, HandOffDueConfigs, ApplyDueConfig,
         WriteAppliedConfig, ScheduleInv, WriterInv, pgVars
  <1>6. CASE Risk
    BY <1>0, <1>6, Zenon DEF Risk, RiskBoot, RiskPassesOver, RiskPromote,
         RiskReceive, ReloadSymbolConfig, DrainConfigUpdates, ScheduleInv, WriterInv, pgVars
  <1>7. CASE Faults
    BY <1>0, <1>7 DEF Faults, EngineCrash, PostgresLost, WriteAppliedFails,
         RiskCrash, RiskReceiveAgain, ReloadFails, ScheduleInv, WriterInv, pgVars
  <1>8. CASE UNCHANGED vars
    BY <1>0, <1>8 DEF vars, pgVars, ScheduleInv, WriterInv
  <1> QED BY <1>1, <1>2, <1>3, <1>4, <1>5, <1>6, <1>7, <1>8 DEF Next, Schedule

LEMMA ScheduleInit == Init => ScheduleInv /\ WriterInv
  <1> SUFFICES ASSUME Init PROVE ScheduleInv /\ WriterInv
    OBVIOUS
  <1>1. FirstRow \in Row
    BY ConfigAssumption DEF FirstRow, Row
  <1>2. schedule \in Seq(Row) /\ Len(schedule) = 1 /\ schedule[1] = FirstRow
    BY <1>1 DEF Init
  <1>3. FirstRow.at = 0 /\ Installable(FirstRow)
    BY ConfigAssumption DEF FirstRow, Installable
  <1> QED BY <1>2, <1>3 DEF ScheduleInv, WriterInv, Init

(* Whatever two operators do at the same time, every version is one that risk
   and the gateway install, of the symbol's funding interval, and effective no
   earlier than the version before it (schedule_symbol_config). *)
THEOREM SoundSchedule == Spec => []ScheduleIsSound
  <1>1. ScheduleInv => ScheduleIsSound
    <2> SUFFICES ASSUME ScheduleInv, NEW v \in DOMAIN schedule
                 PROVE  /\ Installable(schedule[v])
                        /\ v > 1 => /\ schedule[v - 1].at <= schedule[v].at
                                    /\ Interval(schedule[v]) = Interval(schedule[v - 1])
      BY DEF ScheduleIsSound, Installable, Interval
    <2>1. v \in 1..Len(schedule) /\ (v > 1 => v - 1 \in 1..Len(schedule))
      BY DEF ScheduleInv
    <2> QED BY <2>1 DEF ScheduleInv
  <1> QED BY <1>1, ScheduleInit, ScheduleStep, PTL DEF Spec
-----------------------------------------------------------------------------
(* The state of the processes. *)
Engines == [up : BOOLEAN, book : Nat, handed : Nat, due : Seq(Nat),
            done : Seq(Nat), boot : Nat]
Shards == [phase : {"down", "warm", "live"}, version : Nat, interval : Int,
           reloads : Seq(Nat), updates : Seq(Nat), read : Nat]

Types ==
  /\ now \in Int /\ now >= StartTime
  /\ applied \in Nat /\ applied >= 1
  /\ engine \in Engines
  /\ wire \in Seq(Nat)
  /\ risk \in Shards
  /\ risk.read <= Len(wire)

(* The last version that left the ring of due ones. *)
Taken == engine.handed - Len(engine.due)

(* The ring of due versions holds the numbers up to the last handed over, and
   the ring of applied ones ascends from the applied row to the last taken. *)
RingsInv ==
  /\ applied <= Taken
  /\ \A i \in 1..Len(engine.due) : engine.due[i] = Taken + i
  /\ \A i \in 1..Len(engine.done) : applied <= engine.done[i] /\ engine.done[i] <= Taken
  /\ \A i, j \in 1..Len(engine.done) : i <= j => engine.done[i] <= engine.done[j]
  /\ ~engine.up => engine.due = <<>> /\ engine.done = <<>>

(* Version u was announced among the first n records.  Version 1 runs from the
   start without an announcement. *)
WasAnnounced(u, n) == u = 1 \/ \E k \in 1..n : wire[k] = u

(* From the applied row's version on, nothing is announced before all the
   versions below it; so one announced behind a higher one is announced for a
   second time. *)
WireInv ==
  /\ engine.up => \A u \in applied..Taken : WasAnnounced(u, Len(wire))
  /\ \A n \in 1..Len(wire) : \A u \in applied..wire[n] : WasAnnounced(u, n)
  /\ \A k, n \in 1..Len(wire) :
       k < n => wire[k] <= wire[n] \/ wire[n] \in again \/ wire[n] = 1

(* Version v may be installed after version u. *)
MayFollow(u, v) == u <= v \/ v \in again

(* What a live shard has queued was announced, is not version 1, and goes
   forward but for versions announced twice; a shard that is not live has
   nothing queued. *)
QueueInv ==
  /\ risk.phase # "down" => risk.version >= 1
  /\ risk.phase # "live" => risk.reloads = <<>> /\ risk.updates = <<>>
  /\ \A i \in 1..Len(risk.reloads) :
       /\ \E k \in 1..risk.read : wire[k] = risk.reloads[i]
       /\ MayFollow(risk.version, risk.reloads[i])
       /\ \A j \in 1..i : MayFollow(risk.reloads[j], risk.reloads[i])
       /\ \A j \in 1..Len(risk.updates) : MayFollow(risk.updates[j], risk.reloads[i])
  /\ \A i \in 1..Len(risk.updates) :
       /\ \E k \in 1..risk.read : wire[k] = risk.updates[i]
       /\ MayFollow(risk.version, risk.updates[i])

(* What the persist worker hands to the shard is a row of the schedule. *)
FetchedInv == \A i \in 1..Len(risk.updates) : risk.updates[i] \in 1..Len(schedule)

ConfigInv ==
  ScheduleInv /\ WriterInv /\ Types /\ RingsInv /\ WireInv /\ QueueInv /\ FetchedInv
-----------------------------------------------------------------------------
LEMMA ConfigInit == Init => Types /\ RingsInv /\ WireInv /\ QueueInv
  <1> SUFFICES ASSUME Init PROVE Types /\ RingsInv /\ WireInv /\ QueueInv
    OBVIOUS
  <1>1. Seed["funding_interval"] \in Int
    BY ConfigAssumption DEF ConfigField, Counts
  <1>2. risk = [phase |-> "warm", version |-> 1, interval |-> Seed["funding_interval"],
                reloads |-> <<>>, updates |-> <<>>, read |-> 0]
    BY Zenon DEF Init, Stopped
  <1>3. Types
    <2>1. now \in Int /\ now >= StartTime /\ applied \in Nat /\ applied >= 1
      BY ConfigAssumption DEF Init
    <2>2. engine \in Engines
      <3>1. <<>> \in Seq(Nat) /\ 1 \in Nat /\ TRUE \in BOOLEAN
        OBVIOUS
      <3>2. engine = [up |-> TRUE, book |-> 1, handed |-> 1, due |-> <<>>,
                      done |-> <<>>, boot |-> 1]
        BY DEF Init
      <3> QED BY <3>1, <3>2 DEF Engines
    <2>3. wire \in Seq(Nat) /\ risk.read <= Len(wire)
      <3>1. wire = <<>>
        BY DEF Init
      <3>2. risk.read = 0
        BY <1>2
      <3> QED BY <3>1, <3>2
    <2>4. risk \in Shards
      BY <1>1, <1>2 DEF Shards
    <2> QED BY <2>1, <2>2, <2>3, <2>4 DEF Types
  <1>4. RingsInv
    BY DEF Init, RingsInv, Taken
  <1>5. WireInv
    BY DEF Init, WireInv, Taken, WasAnnounced
  <1>6. QueueInv
    BY <1>2 DEF QueueInv
  <1> QED BY <1>3, <1>4, <1>5, <1>6

(* An announcement of a version from the applied row's on, all below which was
   announced since, keeps the order of the stream. *)
LEMMA AnnounceStep ==
  ASSUME Types, WireInv, NEW v \in Nat, v >= applied, Announce(v),
         applied' = applied, \A u \in applied..(v - 1) : WasAnnounced(u, Len(wire))
  PROVE  /\ wire' \in Seq(Nat) /\ Len(wire') = Len(wire) + 1
         /\ \A k \in 1..Len(wire) : wire'[k] = wire[k]
         /\ wire'[Len(wire')] = v /\ again \subseteq again'
         /\ \A n \in 1..Len(wire') : \A u \in applied'..wire'[n] : WasAnnounced(u, n)'
         /\ \A k, n \in 1..Len(wire') :
              k < n => wire'[k] <= wire'[n] \/ wire'[n] \in again' \/ wire'[n] = 1
  <1>0. wire \in Seq(Nat) /\ applied \in Nat
    BY DEF Types
  <1>1. /\ wire' \in Seq(Nat) /\ Len(wire') = Len(wire) + 1
        /\ \A k \in 1..Len(wire) : wire'[k] = wire[k]
        /\ wire'[Len(wire) + 1] = v
    BY <1>0 DEF Announce
  <1>2. again \subseteq again' /\ (v \in Range(wire) => v \in again')
    BY DEF Announce
  <1>3. \A k \in 1..Len(wire) : wire[k] \in Range(wire) /\ wire[k] \in Nat
    BY <1>0 DEF Range
  <1>4. ASSUME NEW n \in 1..Len(wire'), NEW u \in applied'..wire'[n]
        PROVE  WasAnnounced(u, n)'
    <2>1. CASE n \in 1..Len(wire)
      <3>1. u \in applied..wire[n]
        BY <1>1, <2>1
      <3>2. WasAnnounced(u, n)
        BY <2>1, <3>1 DEF WireInv
      <3>3. \A k \in 1..n : wire'[k] = wire[k]
        BY <1>0, <1>1, <2>1
      <3> QED BY <3>2, <3>3 DEF WasAnnounced
    <2>2. CASE n = Len(wire) + 1 /\ u = v
      BY <1>1, <2>2 DEF WasAnnounced
    <2>3. CASE n = Len(wire) + 1 /\ u # v
      <3>1. u \in applied..(v - 1)
        BY <1>1, <2>3
      <3> QED BY <1>1, <2>3, <3>1 DEF WasAnnounced
    <2> QED BY <1>1, <2>1, <2>2, <2>3
  <1>5. ASSUME NEW k \in 1..Len(wire'), NEW n \in 1..Len(wire'), k < n
        PROVE  wire'[k] <= wire'[n] \/ wire'[n] \in again' \/ wire'[n] = 1
    <2>1. CASE n \in 1..Len(wire)
      BY <1>1, <1>2, <1>5, <2>1 DEF WireInv
    <2>2. CASE n = Len(wire) + 1 /\ wire[k] > v
      <3>1. k \in 1..Len(wire) /\ v \in applied..wire[k]
        BY <1>1, <1>3, <1>5, <2>2
      <3>2. WasAnnounced(v, k)
        BY <3>1 DEF WireInv
      <3>3. v = 1 \/ v \in Range(wire)
        BY <1>3, <3>1, <3>2 DEF WasAnnounced
      <3> QED BY <1>1, <1>2, <2>2, <3>3
    <2>3. CASE n = Len(wire) + 1 /\ ~(wire[k] > v)
      <3>1. k \in 1..Len(wire) /\ wire[k] \in Nat
        BY <1>1, <1>3, <1>5, <2>3
      <3> QED BY <1>1, <2>3, <3>1
    <2> QED BY <1>1, <2>1, <2>2, <2>3
  <1> QED BY <1>1, <1>2, <1>4, <1>5

(* What is queued stays in order when records are announced: more versions may
   follow one another. *)
LEMMA QueueKept ==
  ASSUME Types, QueueInv, risk' = risk, again \subseteq again',
         \A k \in 1..risk.read : wire'[k] = wire[k]
  PROVE  QueueInv'
  <1>1. \A u, v : MayFollow(u, v) => MayFollow(u, v)'
    BY DEF MayFollow
  <1>2. \A x : (\E k \in 1..risk.read : wire[k] = x) => \E k \in 1..risk.read : wire'[k] = x
    OBVIOUS
  <1>3. \A i \in 1..Len(risk.reloads) :
         /\ \E k \in 1..risk.read : wire'[k] = risk.reloads[i]
         /\ MayFollow(risk.version, risk.reloads[i])'
         /\ \A j \in 1..i : MayFollow(risk.reloads[j], risk.reloads[i])'
         /\ \A j \in 1..Len(risk.updates) : MayFollow(risk.updates[j], risk.reloads[i])'
    BY <1>1, <1>2 DEF QueueInv
  <1>4. \A i \in 1..Len(risk.updates) :
         /\ \E k \in 1..risk.read : wire'[k] = risk.updates[i]
         /\ MayFollow(risk.version, risk.updates[i])'
    BY <1>1, <1>2 DEF QueueInv
  <1> QED BY <1>3, <1>4 DEF QueueInv

(* Booting announces the applied row's version and goes on from there. *)
LEMMA EngineBootStep ==
  ASSUME ConfigInv, EngineBoot
  PROVE  Types' /\ RingsInv' /\ WireInv' /\ QueueInv'
  <1> USE DEF ConfigInv
  <1>1. PICK book \in BootBooks :
          engine' = [up |-> TRUE, handed |-> applied, due |-> <<>>,
                     done |-> <<>>, book |-> book, boot |-> book]
    BY Zenon DEF EngineBoot, LoadAppliedConfig
  <1>2. Announce(applied) /\ UNCHANGED <<pgVars, riskVars>>
    BY DEF EngineBoot, LoadAppliedConfig
  <1>3. applied \in Nat /\ book \in Nat /\ risk.read \in Nat /\ risk.read <= Len(wire)
    BY DEF Types, Engines, Shards, BootBooks, LoadAppliedConfig
  <1>4. applied' = applied /\ risk' = risk /\ now' = now
    BY <1>2 DEF pgVars, riskVars
  <1>5. /\ wire' \in Seq(Nat) /\ Len(wire') = Len(wire) + 1
        /\ \A k \in 1..Len(wire) : wire'[k] = wire[k]
        /\ wire'[Len(wire')] = applied /\ again \subseteq again'
        /\ \A n \in 1..Len(wire') : \A u \in applied'..wire'[n] : WasAnnounced(u, n)'
        /\ \A k, n \in 1..Len(wire') :
             k < n => wire'[k] <= wire'[n] \/ wire'[n] \in again' \/ wire'[n] = 1
    BY <1>2, <1>3, <1>4, AnnounceStep
  <1>6. Len(wire) \in Nat
    BY DEF Types
  <1>7. engine' \in Engines
    BY <1>1, <1>3 DEF Engines
  <1>8. Types'
    BY <1>3, <1>4, <1>5, <1>6, <1>7 DEF Types
  <1>9. engine'.due = <<>> /\ engine'.done = <<>> /\ engine'.up /\ Taken' = applied
    BY <1>1, <1>3 DEF Taken
  <1>10. RingsInv'
    BY <1>3, <1>4, <1>9 DEF RingsInv
  <1>11. \A u \in applied'..Taken' : WasAnnounced(u, Len(wire))'
    BY <1>3, <1>4, <1>5, <1>6, <1>9 DEF WasAnnounced
  <1>12. WireInv'
    BY <1>5, <1>11 DEF WireInv
  <1>13. QueueInv'
    BY <1>3, <1>4, <1>5, <1>6, QueueKept
  <1> QED BY <1>8, <1>10, <1>12, <1>13

(* A crash empties the rings and takes back records that risk has not read;
   the order of the stream is that of each of its prefixes. *)
LEMMA EngineCrashStep ==
  ASSUME ConfigInv, EngineCrash
  PROVE  Types' /\ RingsInv' /\ WireInv' /\ QueueInv'
  <1> USE DEF ConfigInv
  <1>0. risk.read \in Nat /\ risk.read <= Len(wire) /\ Len(wire) \in Nat
    BY DEF Types, Shards
  <1>1. PICK kept \in risk.read..Len(wire) : wire' = SubSeq(wire, 1, kept)
    BY <1>0 DEF EngineCrash
  <1>2. engine' = [engine EXCEPT !.up = FALSE, !.due = <<>>, !.done = <<>>]
    BY DEF EngineCrash
  <1>3. UNCHANGED <<applied, now, risk, again>>
    BY DEF EngineCrash, pgVars, riskVars
  <1>4. wire \in Seq(Nat) /\ risk.read \in Nat /\ risk.read <= Len(wire) /\ applied \in Nat
    BY DEF Types, Shards
  <1>5. /\ wire' \in Seq(Nat) /\ Len(wire') = kept /\ kept \in Nat /\ kept <= Len(wire)
        /\ risk.read <= kept
        /\ \A k \in 1..kept : wire'[k] = wire[k]
    <2>1. kept \in Nat /\ kept <= Len(wire) /\ risk.read <= kept
      BY <1>4
    <2> QED BY <1>1, <1>4, <2>1
  <1>6. engine' \in Engines
    <2>1. <<>> \in Seq(Nat) /\ FALSE \in BOOLEAN
      OBVIOUS
    <2>2. engine \in Engines
      BY DEF Types
    <2> QED BY <1>2, <2>1, <2>2, Zenon DEF Engines
  <1>7. Types'
    BY <1>3, <1>4, <1>5, <1>6 DEF Types
  <1>8. /\ engine'.due = <<>> /\ engine'.done = <<>> /\ ~engine'.up
        /\ engine'.handed = engine.handed
    BY <1>2 DEF Types, Engines
  <1>9. engine.handed \in Nat /\ Len(engine.due) \in Nat
    BY DEF Types, Engines
  <1>10. Taken' = engine.handed
    BY <1>8, <1>9 DEF Taken
  <1>11. applied <= engine.handed
    BY <1>4, <1>9 DEF RingsInv, Taken
  <1>12. RingsInv'
    BY <1>3, <1>8, <1>10, <1>11 DEF RingsInv
  <1>13. WireInv'
    <2>1. ASSUME NEW n \in 1..Len(wire'), NEW u \in applied'..wire'[n]
          PROVE  WasAnnounced(u, n)'
      <3>1. n \in 1..Len(wire) /\ u \in applied..wire[n] /\ \A k \in 1..n : wire'[k] = wire[k]
        BY <1>3, <1>4, <1>5
      <3> QED BY <3>1 DEF WireInv, WasAnnounced
    <2>2. \A k, n \in 1..Len(wire') :
            k < n => wire'[k] <= wire'[n] \/ wire'[n] \in again' \/ wire'[n] = 1
      <3> SUFFICES ASSUME NEW k \in 1..Len(wire'), NEW n \in 1..Len(wire'), k < n
                   PROVE  wire'[k] <= wire'[n] \/ wire'[n] \in again' \/ wire'[n] = 1
        OBVIOUS
      <3>1. /\ k \in 1..Len(wire) /\ n \in 1..Len(wire)
            /\ wire'[k] = wire[k] /\ wire'[n] = wire[n]
        BY <1>4, <1>5
      <3> QED BY <1>3, <3>1 DEF WireInv
    <2> QED BY <1>8, <2>1, <2>2 DEF WireInv
  <1>14. QueueInv'
    BY <1>3, <1>4, <1>5, QueueKept
  <1> QED BY <1>7, <1>12, <1>13, <1>14

(* The due versions are the next ones in sequence, and as many of them as fit
   are pushed. *)
LEMMA DueAreNext ==
  ASSUME ScheduleInv, NEW handed \in Nat, handed >= 1, NEW t \in Int, NEW room \in Int,
         {v \in PollScheduled(schedule, handed, t) :
            v < Min(PollScheduled(schedule, handed, t)) + room} # {}
  PROVE  LET configs == PollScheduled(schedule, handed, t)
             pushed == {v \in configs : v < Min(configs) + room}
         IN /\ Min(configs) = handed + 1
            /\ Max(pushed) \in Nat /\ Max(pushed) > handed
            /\ Cardinality(pushed) = Max(pushed) - handed
  <1> DEFINE configs == PollScheduled(schedule, handed, t)
             pushed == {v \in configs : v < Min(configs) + room}
  <1>1. \A v : v \in configs <=> v \in 1..Len(schedule) /\ v > handed /\ schedule[v].at <= t
    BY DEF PollScheduled, ScheduleInv
  <1>2. Len(schedule) \in Nat /\ \A v \in 1..Len(schedule) : schedule[v].at \in Int
    <2>1. \A v \in 1..Len(schedule) : schedule[v] \in Row
      BY DEF ScheduleInv
    <2> QED BY <2>1 DEF Row, ScheduleInv
  <1> HIDE DEF configs
  <1>3. \A u, v : v \in configs /\ u \in (handed + 1)..v => u \in configs
    <2> SUFFICES ASSUME NEW u, NEW v, v \in configs, u \in (handed + 1)..v
                 PROVE  u \in configs
      OBVIOUS
    <2>1. v \in 1..Len(schedule) /\ schedule[v].at <= t
      BY <1>1
    <2>2. u \in 1..Len(schedule) /\ u <= v /\ u > handed
      BY <1>2, <2>1
    <2>3. schedule[u].at <= schedule[v].at
      BY <2>1, <2>2 DEF ScheduleInv
    <2>4. schedule[u].at <= t
      BY <1>2, <2>1, <2>2, <2>3
    <2> QED BY <1>1, <2>2, <2>4
  <1>4. configs \subseteq Nat /\ configs # {}
    BY <1>1, <1>2 DEF configs
  <1>5. Min(configs) = handed + 1
    <2>1. Min(configs) \in configs /\ \A y \in configs : Min(configs) <= y
      BY <1>4, MinIsLeast, Zenon
    <2>2. Min(configs) \in Nat /\ Min(configs) > handed
      BY <1>1, <2>1, <1>4
    <2>3. handed + 1 \in (handed + 1)..Min(configs)
      BY <2>2
    <2>4. handed + 1 \in configs
      BY <1>3, <2>1, <2>3
    <2> QED BY <2>1, <2>2, <2>4
  <1> DEFINE last == Max(pushed)
  <1>6. last \in pushed /\ \A y \in pushed : y <= last
    <2>1. pushed \subseteq Nat /\ pushed # {} /\ \A y \in pushed : y <= Len(schedule)
      BY <1>1, <1>2, <1>4 DEF configs
    <2> QED BY <1>2, <2>1, MaxIsGreatest, Zenon
  <1>7. last \in configs /\ last < handed + 1 + room
    BY <1>5, <1>6
  <1>8. last \in Nat /\ last > handed
    BY <1>1, <1>4, <1>7
  <1>9. pushed = (handed + 1)..last
    <2>1. ASSUME NEW v \in pushed PROVE v \in (handed + 1)..last
      <3>1. v \in Nat /\ v > handed /\ v <= last
        BY <1>1, <1>4, <1>6
      <3> QED BY <1>8, <3>1
    <2>2. ASSUME NEW u \in (handed + 1)..last PROVE u \in pushed
      <3>1. u \in configs
        BY <1>3, <1>7
      <3>2. u < handed + 1 + room
        BY <1>7, <1>8
      <3> QED BY <1>5, <3>1, <3>2
    <2> HIDE DEF pushed, last
    <2> QED BY <2>1, <2>2, Zenon
  <1> HIDE DEF pushed, last
  <1>10. Cardinality(pushed) = last - handed
    BY <1>8, <1>9, IntervalSize
  <1> QED BY <1>5, <1>8, <1>10 DEF configs, pushed, last

(* A run of numbers that ends at h, continued by n more. *)
LEMMA RunContinued ==
  ASSUME NEW due \in Seq(Nat), NEW h \in Nat, NEW n \in Nat,
         \A i \in 1..Len(due) : due[i] = h - Len(due) + i
  PROVE  LET new == due \o [i \in 1..n |-> h + 1 + i - 1]
         IN /\ new \in Seq(Nat) /\ Len(new) = Len(due) + n
            /\ \A i \in 1..Len(new) : new[i] = h - Len(due) + i
  <1> DEFINE tail == [i \in 1..n |-> h + 1 + i - 1]
             new == due \o tail
  <1>1. \A i \in 1..n : h + 1 + i - 1 \in Nat /\ h + 1 + i - 1 = h + i
    OBVIOUS
  <1>2. tail \in Seq(Nat) /\ Len(tail) = n /\ \A i \in 1..n : tail[i] = h + i
    <2>1. tail \in Seq(Nat) /\ Len(tail) = n
      BY <1>1
    <2>2. \A i \in 1..n : tail[i] = h + i
      BY <1>1
    <2> QED BY <2>1, <2>2
  <1> HIDE DEF tail
  <1>3. new \in Seq(Nat) /\ Len(new) = Len(due) + n
    <2>1. tail \in Seq(Nat) /\ Len(tail) = n
      BY <1>2
    <2>2. due \o tail \in Seq(Nat)
      BY <2>1
    <2>3. Len(due \o tail) = Len(due) + Len(tail)
      BY <2>1
    <2> QED BY <2>1, <2>2, <2>3
  <1>4. ASSUME NEW i \in 1..Len(new) PROVE new[i] = h - Len(due) + i
    <2>1. CASE i <= Len(due)
      BY <1>2, <1>3, <2>1
    <2>2. CASE i > Len(due)
      <3>1. new[i] = tail[i - Len(due)] /\ i - Len(due) \in 1..n
        BY <1>2, <1>3, <2>2
      <3> QED BY <1>2, <1>3, <3>1
    <2> QED BY <1>3, <2>1, <2>2
  <1> QED BY <1>3, <1>4 DEF tail

(* The sidecar appends the next versions to the ring. *)
LEMMA HandOffStep ==
  ASSUME ConfigInv, HandOffDueConfigs
  PROVE  Types' /\ RingsInv' /\ WireInv' /\ QueueInv'
  <1> DEFINE configs == PollScheduled(schedule, engine.handed, Clock("engine"))
             room == RingCap - Len(engine.due)
             pushed == {v \in configs : v < Min(configs) + room}
  <1>1. /\ pushed # {} /\ engine.up
        /\ engine' = [engine EXCEPT
             !.due = @ \o [i \in 1..Cardinality(pushed) |-> Min(configs) + i - 1],
             !.handed = Max(pushed)]
        /\ UNCHANGED <<now, applied, wire, again, risk>>
    BY DEF HandOffDueConfigs, pgVars, wireVars, riskVars
  <1>2. engine \in Engines /\ applied \in Nat /\ applied >= 1 /\ now \in Int
    BY DEF Types, ConfigInv
  <1>3. engine.handed \in Nat /\ engine.due \in Seq(Nat) /\ Len(engine.due) \in Nat
    BY <1>2 DEF Engines
  <1>4. engine.handed >= 1
    BY <1>2, <1>3 DEF ConfigInv, RingsInv, Taken
  <1>5. Clock("engine") \in Int /\ room \in Int
    BY <1>2, <1>3, ConfigAssumption DEF Clock
  <1>6. /\ Min(configs) = engine.handed + 1
        /\ Max(pushed) \in Nat /\ Max(pushed) > engine.handed
        /\ Cardinality(pushed) = Max(pushed) - engine.handed
    BY <1>1, <1>3, <1>4, <1>5, DueAreNext DEF ConfigInv
  <1>7. PICK l \in Nat :
          /\ l > engine.handed
          /\ engine' = [engine EXCEPT
               !.due = engine.due \o [i \in 1..(l - engine.handed) |-> engine.handed + 1 + i - 1],
               !.handed = l]
    <2> HIDE DEF configs, pushed, room
    <2> QED BY <1>1, <1>6, Zenon
  <1> HIDE DEF configs, pushed, room
  <1>8. \A i \in 1..Len(engine.due) : engine.due[i] = engine.handed - Len(engine.due) + i
    BY DEF ConfigInv, RingsInv, Taken
  <1>9. PICK due \in Seq(Nat) :
          /\ engine' = [engine EXCEPT !.due = due, !.handed = l]
          /\ Len(due) = Len(engine.due) + (l - engine.handed)
          /\ \A i \in 1..Len(due) : due[i] = engine.handed - Len(engine.due) + i
    <2> DEFINE new == engine.due \o
                 [i \in 1..(l - engine.handed) |-> engine.handed + 1 + i - 1]
    <2>1. l - engine.handed \in Nat
      BY <1>3, <1>7
    <2>2. /\ new \in Seq(Nat) /\ Len(new) = Len(engine.due) + (l - engine.handed)
          /\ \A i \in 1..Len(new) : new[i] = engine.handed - Len(engine.due) + i
      BY <1>3, <1>8, <2>1, RunContinued, Zenon
    <2>3. engine' = [engine EXCEPT !.due = new, !.handed = l]
      BY <1>7
    <2> HIDE DEF new
    <2> QED BY <2>2, <2>3, Zenon
  <1>10. /\ engine' \in Engines /\ engine'.due = due
         /\ engine'.handed = l /\ engine'.done = engine.done /\ engine'.up
    BY <1>1, <1>2, <1>9, Zenon DEF Engines
  <1>11. Taken' = Taken
    BY <1>3, <1>9, <1>10 DEF Taken
  <1>12. Types'
    BY <1>1, <1>10 DEF Types, ConfigInv
  <1>13. RingsInv'
    <2>1. \A i \in 1..Len(engine'.due) : engine'.due[i] = Taken' + i
      BY <1>9, <1>10, <1>11 DEF Taken
    <2> QED BY <1>1, <1>10, <1>11, <2>1, Zenon DEF RingsInv, ConfigInv
  <1>14. WireInv'
    BY <1>1, <1>10, <1>11 DEF WireInv, WasAnnounced, ConfigInv
  <1>15. QueueInv'
    BY <1>1, QueueKept DEF ConfigInv
  <1> QED BY <1>12, <1>13, <1>14, <1>15

(* What taking the head of a sequence leaves, and what appending to it adds. *)
LEMMA TailElements ==
  ASSUME NEW S, NEW s \in Seq(S), s # <<>>
  PROVE  /\ Len(s) \in Nat /\ Len(s) >= 1 /\ Head(s) = s[1] /\ s[1] \in S
         /\ Tail(s) \in Seq(S) /\ Len(Tail(s)) = Len(s) - 1
         /\ \A i \in 1..Len(Tail(s)) : i + 1 \in 1..Len(s) /\ Tail(s)[i] = s[i + 1]
  <1>1. Len(s) \in Nat /\ Len(s) >= 1 /\ Head(s) = s[1] /\ s[1] \in S
    OBVIOUS
  <1>2. Tail(s) \in Seq(S) /\ Len(Tail(s)) = Len(s) - 1
    OBVIOUS
  <1> QED BY <1>1, <1>2

LEMMA AppendElements ==
  ASSUME NEW S, NEW s \in Seq(S), NEW e \in S
  PROVE  /\ Append(s, e) \in Seq(S) /\ Len(s) \in Nat /\ Len(Append(s, e)) = Len(s) + 1
         /\ \A i \in 1..Len(s) : Append(s, e)[i] = s[i]
         /\ Append(s, e)[Len(s) + 1] = e
  OBVIOUS

(* The engine takes the next version off the ring and announces it. *)
LEMMA ApplyDueStep ==
  ASSUME ConfigInv, ApplyDueConfig
  PROVE  Types' /\ RingsInv' /\ WireInv' /\ QueueInv'
  <1> DEFINE v == Head(engine.due)
  <1>0. /\ engine.due # <<>> /\ Announce(v)
        /\ engine' = [engine EXCEPT
             !.book = v, !.due = Tail(engine.due),
             !.done = IF Len(engine.done) < RingCap THEN Append(engine.done, v) ELSE engine.done]
        /\ UNCHANGED <<now, applied, risk>>
    BY DEF ApplyDueConfig, pgVars, riskVars
  <1>1. /\ engine \in Engines /\ applied \in Nat /\ wire \in Seq(Nat)
        /\ risk.read \in Nat /\ risk.read <= Len(wire)
    BY DEF Types, ConfigInv, Shards
  <1>2. engine.handed \in Nat /\ engine.due \in Seq(Nat) /\ engine.done \in Seq(Nat)
    BY <1>1 DEF Engines
  <1>3. /\ Len(engine.due) \in Nat /\ Len(engine.due) >= 1 /\ v = engine.due[1] /\ v \in Nat
        /\ Tail(engine.due) \in Seq(Nat) /\ Len(Tail(engine.due)) = Len(engine.due) - 1
        /\ \A i \in 1..Len(Tail(engine.due)) :
             i + 1 \in 1..Len(engine.due) /\ Tail(engine.due)[i] = engine.due[i + 1]
    <2>1. engine.due # <<>>
      BY <1>0
    <2> QED BY <1>2, <2>1, TailElements
  <1>4. v = Taken + 1 /\ Taken \in Int /\ applied <= Taken
    BY <1>2, <1>3 DEF ConfigInv, RingsInv, Taken
  <1>5. engine.up
    BY <1>0 DEF ConfigInv, RingsInv
  <1>6. \A u \in applied..(v - 1) : WasAnnounced(u, Len(wire))
    BY <1>1, <1>4, <1>5 DEF ConfigInv, WireInv
  <1>7. /\ wire' \in Seq(Nat) /\ Len(wire') = Len(wire) + 1
        /\ \A k \in 1..Len(wire) : wire'[k] = wire[k]
        /\ wire'[Len(wire')] = v /\ again \subseteq again'
        /\ \A n \in 1..Len(wire') : \A u \in applied'..wire'[n] : WasAnnounced(u, n)'
        /\ \A k, n \in 1..Len(wire') :
             k < n => wire'[k] <= wire'[n] \/ wire'[n] \in again' \/ wire'[n] = 1
    <2>1. v >= applied /\ applied' = applied /\ Announce(v)
      BY <1>0, <1>1, <1>4
    <2> HIDE DEF v
    <2> QED BY <1>3, <1>6, <2>1, AnnounceStep DEF ConfigInv
  <1> HIDE DEF v
  <1>8. PICK done \in Seq(Nat) :
          /\ engine' = [engine EXCEPT !.book = v, !.due = Tail(engine.due), !.done = done]
          /\ \A i \in 1..Len(done) :
               \/ i \in 1..Len(engine.done) /\ done[i] = engine.done[i]
               \/ i = Len(engine.done) + 1 /\ done[i] = v
    <2> DEFINE longer == Append(engine.done, v)
    <2>1. /\ longer \in Seq(Nat) /\ Len(engine.done) \in Nat /\ Len(longer) = Len(engine.done) + 1
          /\ \A i \in 1..Len(engine.done) : longer[i] = engine.done[i]
          /\ longer[Len(engine.done) + 1] = v
      BY <1>2, <1>3, AppendElements
    <2> HIDE DEF longer
    <2>2. CASE Len(engine.done) < RingCap
      <3>1. engine' = [engine EXCEPT !.book = v, !.due = Tail(engine.due), !.done = longer]
        BY <1>0, <2>2 DEF longer
      <3>2. \A i \in 1..Len(longer) :
               \/ i \in 1..Len(engine.done) /\ longer[i] = engine.done[i]
               \/ i = Len(engine.done) + 1 /\ longer[i] = v
        BY <2>1
      <3> QED BY <2>1, <3>1, <3>2, Zenon
    <2>3. CASE ~(Len(engine.done) < RingCap)
      <3>1. engine' = [engine EXCEPT !.book = v, !.due = Tail(engine.due), !.done = engine.done]
        BY <1>0, <2>3
      <3> QED BY <1>2, <3>1, Zenon
    <2> QED BY <2>2, <2>3, Zenon
  <1>9. /\ engine' \in Engines /\ engine'.due = Tail(engine.due) /\ engine'.done = done
        /\ engine'.handed = engine.handed /\ engine'.up
    BY <1>1, <1>3, <1>5, <1>8, Zenon DEF Engines
  <1>10. Taken' = Taken + 1
    BY <1>2, <1>3, <1>9 DEF Taken
  <1>11. Types'
    <2>1. Len(wire) \in Nat
      BY <1>1
    <2> QED BY <1>0, <1>1, <1>7, <1>9, <2>1 DEF Types, ConfigInv
  <1>12. RingsInv'
    <2>1. ASSUME NEW i \in 1..Len(engine'.due) PROVE engine'.due[i] = Taken' + i
      <3>1. i + 1 \in 1..Len(engine.due) /\ engine'.due[i] = engine.due[i + 1] /\ i \in Int
        BY <1>3, <1>9
      <3>2. engine.due[i + 1] = Taken + (i + 1)
        BY <3>1 DEF ConfigInv, RingsInv
      <3> QED BY <1>4, <1>10, <3>1, <3>2
    <2>2. \A i \in 1..Len(engine.done) :
             engine.done[i] \in Nat /\ applied <= engine.done[i] /\ engine.done[i] <= Taken
      BY <1>2 DEF ConfigInv, RingsInv
    <2>3. ASSUME NEW i \in 1..Len(done) PROVE applied <= done[i] /\ done[i] <= Taken + 1
      <3>1. CASE i \in 1..Len(engine.done) /\ done[i] = engine.done[i]
        <4>1. /\ engine.done[i] \in Nat /\ applied <= engine.done[i]
              /\ engine.done[i] <= Taken
          BY <2>2, <3>1
        <4> QED BY <1>1, <1>4, <3>1, <4>1
      <3>2. CASE done[i] = v
        BY <1>1, <1>4, <3>2
      <3> QED BY <1>8, <3>1, <3>2
    <2>4. ASSUME NEW i \in 1..Len(done), NEW j \in 1..Len(done), i <= j
          PROVE  done[i] <= done[j]
      <3>1. CASE j \in 1..Len(engine.done)
        <4>1. i \in 1..Len(engine.done)
          BY <2>4, <3>1
        <4>2. done[i] = engine.done[i] /\ done[j] = engine.done[j]
          BY <1>2, <1>8, <3>1, <4>1
        <4> QED BY <2>4, <3>1, <4>1, <4>2 DEF ConfigInv, RingsInv
      <3>2. CASE j = Len(engine.done) + 1 /\ done[j] = v
        BY <1>4, <2>3, <3>2
      <3> QED BY <1>8, <3>1, <3>2
    <2>5. applied' = applied /\ applied' <= Taken'
      BY <1>0, <1>1, <1>4, <1>10
    <2>6. \A i \in 1..Len(engine'.done) :
            applied' <= engine'.done[i] /\ engine'.done[i] <= Taken'
      BY <1>9, <1>10, <2>3, <2>5
    <2>7. \A i, j \in 1..Len(engine'.done) : i <= j => engine'.done[i] <= engine'.done[j]
      BY <1>9, <2>4
    <2> QED BY <1>9, <2>1, <2>5, <2>6, <2>7 DEF RingsInv
  <1>13. WireInv'
    <2>1. \A u \in applied'..Taken' : WasAnnounced(u, Len(wire))'
      <3>1. Len(wire') \in 1..Len(wire') /\ wire'[Len(wire')] = Taken'
        BY <1>1, <1>4, <1>7, <1>10
      <3> QED BY <1>7, <3>1, Zenon DEF WasAnnounced
    <2> QED BY <1>7, <2>1 DEF WireInv
  <1>14. QueueInv'
    <2>1. \A k \in 1..risk.read : wire'[k] = wire[k]
      BY <1>1, <1>7
    <2> QED BY <1>0, <1>7, <2>1, QueueKept DEF ConfigInv
  <1> QED BY <1>11, <1>12, <1>13, <1>14

(* A version leaves the ring of applied ones, into the row or lost. *)
LEMMA WriteAppliedStep ==
  ASSUME ConfigInv, WriteAppliedConfig \/ WriteAppliedFails
  PROVE  Types' /\ RingsInv' /\ WireInv' /\ QueueInv' /\ applied' >= applied
  <1>1. /\ engine.done # <<>>
        /\ applied' \in {applied, Head(engine.done)}
        /\ engine' = [engine EXCEPT !.done = Tail(engine.done)]
        /\ UNCHANGED <<now, wire, again, risk>>
    BY DEF WriteAppliedConfig, WriteAppliedFails, pgVars, wireVars, riskVars
  <1>2. engine \in Engines /\ applied \in Nat /\ applied >= 1
    BY DEF Types, ConfigInv
  <1>3. /\ engine.handed \in Nat /\ engine.due \in Seq(Nat) /\ engine.done \in Seq(Nat)
        /\ Taken \in Int
    BY <1>2 DEF Engines, Taken
  <1> DEFINE done == Tail(engine.done)
  <1>4. /\ Len(engine.done) \in Nat /\ Len(engine.done) >= 1
        /\ Head(engine.done) = engine.done[1] /\ engine.done[1] \in Nat
        /\ done \in Seq(Nat) /\ Len(done) = Len(engine.done) - 1
        /\ \A i \in 1..Len(done) : i + 1 \in 1..Len(engine.done) /\ done[i] = engine.done[i + 1]
    BY <1>1, <1>3, TailElements
  <1> HIDE DEF done
  <1>5. /\ engine' \in Engines /\ engine'.due = engine.due /\ engine'.done = done
        /\ engine'.handed = engine.handed /\ engine'.up = engine.up
    BY <1>1, <1>2, <1>4, Zenon DEF Engines, done
  <1>6. Taken' = Taken
    BY <1>5 DEF Taken
  <1>7. /\ \A i \in 1..Len(engine.done) :
             applied <= engine.done[i] /\ engine.done[i] <= Taken
        /\ \A i, j \in 1..Len(engine.done) : i <= j => engine.done[i] <= engine.done[j]
        /\ \A i \in 1..Len(engine.due) : engine.due[i] = Taken + i
        /\ applied <= Taken /\ engine.up
    BY <1>1 DEF ConfigInv, RingsInv
  <1>8. 1 \in 1..Len(engine.done)
    BY <1>4
  <1>9. /\ applied' \in Nat /\ applied' >= applied /\ applied' <= Taken
        /\ applied' = applied \/ applied' = engine.done[1]
    BY <1>1, <1>2, <1>4, <1>7, <1>8
  <1>10. Types'
    BY <1>1, <1>2, <1>5, <1>9 DEF Types, ConfigInv
  <1>11. RingsInv'
    <2>1. ASSUME NEW i \in 1..Len(done) PROVE applied' <= done[i] /\ done[i] <= Taken
      <3>1. i + 1 \in 1..Len(engine.done) /\ done[i] = engine.done[i + 1] /\ 1 <= i + 1
        BY <1>4
      <3>2. engine.done[1] <= engine.done[i + 1] /\ applied <= engine.done[i + 1]
        BY <1>7, <1>8, <3>1
      <3> QED BY <1>7, <1>9, <3>1, <3>2
    <2>2. ASSUME NEW i \in 1..Len(done), NEW j \in 1..Len(done), i <= j
          PROVE  done[i] <= done[j]
      <3>1. /\ i + 1 \in 1..Len(engine.done) /\ done[i] = engine.done[i + 1]
            /\ j + 1 \in 1..Len(engine.done) /\ done[j] = engine.done[j + 1]
        BY <1>4
      <3>2. i + 1 <= j + 1
        BY <2>2, <3>1
      <3> QED BY <1>7, <3>1, <3>2
    <2>3. engine'.up
      BY <1>5, <1>7
    <2> QED BY <1>5, <1>6, <1>7, <1>9, <2>1, <2>2, <2>3 DEF RingsInv
  <1>12. WireInv'
    <2>1. ASSUME NEW u \in applied'..Taken' PROVE WasAnnounced(u, Len(wire))'
      <3>1. u \in applied..Taken
        BY <1>2, <1>3, <1>6, <1>9
      <3> QED BY <1>1, <1>7, <3>1 DEF ConfigInv, WireInv, WasAnnounced
    <2>2. ASSUME NEW n \in 1..Len(wire'), NEW u \in applied'..wire'[n] PROVE WasAnnounced(u, n)'
      <3>1. n \in 1..Len(wire) /\ wire[n] \in Nat
        BY <1>1 DEF ConfigInv, Types
      <3>2. u \in applied..wire[n]
        BY <1>1, <1>2, <1>9, <3>1
      <3> QED BY <1>1, <3>1, <3>2 DEF ConfigInv, WireInv, WasAnnounced
    <2>3. \A k, n \in 1..Len(wire') :
             k < n => wire'[k] <= wire'[n] \/ wire'[n] \in again' \/ wire'[n] = 1
      BY <1>1 DEF ConfigInv, WireInv
    <2> QED BY <2>1, <2>2, <2>3 DEF WireInv
  <1>13. QueueInv'
    BY <1>1, QueueKept DEF ConfigInv
  <1> QED BY <1>9, <1>10, <1>11, <1>12, <1>13

(* The schedule and the clock move on, or the sidecar loses its client. *)
LEMMA ClockStep ==
  ASSUME ConfigInv, Schedule \/ Tick \/ PostgresLost \/ UNCHANGED vars
  PROVE  Types' /\ RingsInv' /\ WireInv' /\ QueueInv' /\ applied' = applied /\ risk' = risk
  <1>1. UNCHANGED <<applied, engine, wire, again, risk>>
    BY DEF Schedule, ScheduleRead, ScheduleInsert, ScheduleRival, Tick, PostgresLost,
           vars, pgVars, meVars, wireVars, riskVars
  <1>2. now' \in Int /\ now' >= StartTime
    <2>1. now \in Int /\ now >= StartTime /\ now' \in {now, now + 1}
      BY DEF ConfigInv, Types, Schedule, ScheduleRead, ScheduleInsert, ScheduleRival, Tick,
             PostgresLost, vars, pgVars
    <2> QED BY <2>1, ConfigAssumption
  <1>3. Types'
    BY <1>1, <1>2 DEF ConfigInv, Types
  <1>4. RingsInv'
    BY <1>1 DEF ConfigInv, RingsInv, Taken
  <1>5. WireInv'
    BY <1>1 DEF ConfigInv, WireInv, WasAnnounced, Taken
  <1>6. QueueInv'
    BY <1>1, QueueKept DEF ConfigInv
  <1> QED BY <1>1, <1>3, <1>4, <1>5, <1>6

-----------------------------------------------------------------------------
(* The steps of the risk shard. *)
LEMMA RiskKeeps ==
  ASSUME ConfigInv, UNCHANGED <<pgVars, engine, wire, again>>,
         risk' \in Shards, risk'.read <= Len(wire)
  PROVE  Types' /\ RingsInv' /\ WireInv' /\ applied' = applied
  BY DEF ConfigInv, pgVars, Types, RingsInv, WireInv, WasAnnounced, Taken

(* Version 1 is in force at every time. *)
LEMMA SomeActive ==
  ASSUME ScheduleInv, Types
  PROVE  ActiveVersion(schedule, Clock("risk")) \in 1..Len(schedule)
  <1> DEFINE due == {v \in DOMAIN schedule : schedule[v].at <= Clock("risk")} \cup {0}
  <1>1. Len(schedule) \in Nat /\ Len(schedule) >= 1 /\ DOMAIN schedule = 1..Len(schedule)
    BY DEF ScheduleInv
  <1>2. Clock("risk") \in Int /\ Clock("risk") >= 0
    <2>1. Lag["risk"] \in 0..StartTime
      BY ConfigAssumption
    <2> QED BY <2>1, ConfigAssumption DEF Clock, Types
  <1>3. due \subseteq Nat /\ 1 \in due /\ \A v \in due : v <= Len(schedule)
    <2>1. schedule[1].at <= Clock("risk")
      BY <1>2 DEF ScheduleInv
    <2> QED BY <1>1, <2>1
  <1>4. Max(due) \in due /\ \A v \in due : v <= Max(due)
    <2> HIDE DEF due
    <2> QED BY <1>1, <1>3, MaxIsGreatest, Zenon
  <1>5. Max(due) \in Nat /\ 1 <= Max(due) /\ Max(due) <= Len(schedule)
    <2> HIDE DEF due
    <2> QED BY <1>3, <1>4, Zenon
  <1>6. Max(due) \in 1..Len(schedule)
    <2> HIDE DEF due
    <2> QED BY <1>1, <1>5
  <1>7. ActiveVersion(schedule, Clock("risk")) = Max(due)
    BY DEF ActiveVersion
  <1> HIDE DEF due
  <1> QED BY <1>6, <1>7

(* A row of the schedule has an interval. *)
LEMMA RowInterval ==
  ASSUME ScheduleInv, NEW v \in 1..Len(schedule)
  PROVE  schedule[v].set["funding_interval"] \in Int
  <1>1. schedule[v] \in Row
    BY DEF ScheduleInv
  <1>2. "funding_interval" \in ConfigField
    BY DEF ConfigField, Counts
  <1> QED BY <1>1, <1>2 DEF Row

(* Booting and promotion install the version in force, or none. *)
LEMMA InstallActive ==
  ASSUME ScheduleInv, Types, NEW r \in Shards
  PROVE  /\ ApplySymbolConfigs(r) \in Shards
         /\ ApplySymbolConfigs(r).version \in
              {r.version, ActiveVersion(schedule, Clock("risk"))}
         /\ r.interval = 0 => ApplySymbolConfigs(r).version >= 1
         /\ \A f \in {"phase", "reloads", "updates", "read"} :
              ApplySymbolConfigs(r)[f] = r[f]
  <1> DEFINE v == ActiveVersion(schedule, Clock("risk"))
             i == schedule[v].set["funding_interval"]
  <1>1. v \in 1..Len(schedule)
    BY SomeActive
  <1>2. i \in Int /\ v \in Nat /\ v >= 1 /\ v # 0
    BY <1>1, RowInterval
  <1>3. ApplySymbolConfigs(r) =
          IF r.interval = 0 \/ i = r.interval THEN [r EXCEPT !.version = v, !.interval = i] ELSE r
    BY <1>2 DEF ApplySymbolConfigs, ApplySymbolConfig, CheckedFundingInterval
  <1> HIDE DEF v, i
  <1>4. CASE r.interval = 0 \/ i = r.interval
    BY <1>2, <1>3, <1>4, Zenon DEF Shards, v
  <1>5. CASE ~(r.interval = 0 \/ i = r.interval)
    BY <1>3, <1>5 DEF v
  <1> QED BY <1>4, <1>5

LEMMA RiskBootStep ==
  ASSUME ConfigInv, RiskBoot
  PROVE  /\ Types' /\ RingsInv' /\ WireInv' /\ QueueInv' /\ applied' = applied
         /\ risk'.updates = <<>> /\ risk.phase # "live"
  <1>1. PICK tip \in 0..risk.read :
          risk' = ApplySymbolConfigs([Stopped EXCEPT !.phase = "warm", !.read = tip])
    BY Zenon DEF RiskBoot
  <1>2. UNCHANGED <<pgVars, engine, wire, again>> /\ risk.phase = "down"
    BY DEF RiskBoot, meVars, wireVars
  <1> DEFINE r == [Stopped EXCEPT !.phase = "warm", !.read = tip]
  <1>3. risk' = ApplySymbolConfigs(r)
    BY <1>1
  <1>4. risk.read \in Nat /\ Len(wire) \in Nat /\ risk.read <= Len(wire)
    BY DEF ConfigInv, Types, Shards
  <1>5. r \in Shards
    <2>1. tip \in Nat
      BY <1>4
    <2>2. Stopped \in Shards
      <3>1. <<>> \in Seq(Nat)
        OBVIOUS
      <3> QED BY <3>1 DEF Stopped, Shards
    <2> QED BY <2>1, <2>2, Zenon DEF Shards
  <1>6. r.interval = 0 /\ r.phase = "warm" /\ r.reloads = <<>> /\ r.updates = <<>> /\ r.read = tip
    BY DEF Stopped
  <1> HIDE DEF r
  <1>7. /\ risk' \in Shards /\ risk'.version >= 1 /\ risk'.phase = "warm"
        /\ risk'.reloads = <<>> /\ risk'.updates = <<>> /\ risk'.read = tip
    BY <1>3, <1>5, <1>6, InstallActive DEF ConfigInv
  <1>8. risk'.read <= Len(wire)
    BY <1>4, <1>7
  <1>9. QueueInv'
    BY <1>7 DEF QueueInv
  <1> QED BY <1>2, <1>7, <1>8, <1>9, RiskKeeps

(* Reading on queues nothing: what is queued was read before. *)
LEMMA ReadOn ==
  ASSUME ConfigInv, UNCHANGED <<wire, again>>, NEW k \in Nat, k >= risk.read,
         risk' = [risk EXCEPT !.read = k]
  PROVE  /\ QueueInv' /\ risk' \in Shards /\ risk'.read = k
         /\ risk'.version = risk.version /\ risk'.updates = risk.updates
  <1>1. risk \in Shards /\ risk.read \in Nat
    BY DEF ConfigInv, Types, Shards
  <1>2. /\ risk' \in Shards /\ risk'.read = k /\ risk'.phase = risk.phase
        /\ risk'.version = risk.version /\ risk'.reloads = risk.reloads
        /\ risk'.updates = risk.updates
    BY <1>1, Zenon DEF Shards
  <1>3. 1..risk.read \subseteq 1..k
    BY <1>1
  <1>4. \A x : (\E j \in 1..risk.read : wire[j] = x) => \E j \in 1..k : wire[j] = x
    BY <1>3
  <1>5. \A i \in 1..Len(risk.reloads) :
          /\ \E j \in 1..k : wire[j] = risk.reloads[i]
          /\ MayFollow(risk.version, risk.reloads[i])
          /\ \A j \in 1..i : MayFollow(risk.reloads[j], risk.reloads[i])
          /\ \A j \in 1..Len(risk.updates) : MayFollow(risk.updates[j], risk.reloads[i])
    BY <1>4, Zenon DEF ConfigInv, QueueInv
  <1>6. \A i \in 1..Len(risk.updates) :
          /\ \E j \in 1..k : wire[j] = risk.updates[i]
          /\ MayFollow(risk.version, risk.updates[i])
    BY <1>4, Zenon DEF ConfigInv, QueueInv
  <1>7. /\ risk.phase # "down" => risk.version >= 1
        /\ risk.phase # "live" => risk.reloads = <<>> /\ risk.updates = <<>>
    BY DEF ConfigInv, QueueInv
  <1>8. \A x, y : MayFollow(x, y)' <=> MayFollow(x, y)
    BY DEF MayFollow
  <1> QED BY <1>2, <1>5, <1>6, <1>7, <1>8 DEF QueueInv

LEMMA RiskPassesOverStep ==
  ASSUME ConfigInv, RiskPassesOver
  PROVE  /\ Types' /\ RingsInv' /\ WireInv' /\ QueueInv' /\ applied' = applied
         /\ risk'.updates = risk.updates /\ risk'.version = risk.version
  <1>1. /\ UNCHANGED <<pgVars, engine, wire, again>> /\ risk.read < Len(wire)
        /\ risk' = [risk EXCEPT !.read = risk.read + 1]
    BY DEF RiskPassesOver, meVars, wireVars
  <1>2. /\ risk.read + 1 \in Nat /\ risk.read + 1 >= risk.read
        /\ risk.read + 1 <= Len(wire)
    BY <1>1 DEF ConfigInv, Types, Shards
  <1>3. /\ QueueInv' /\ risk' \in Shards /\ risk'.read = risk.read + 1
        /\ risk'.version = risk.version /\ risk'.updates = risk.updates
    BY <1>1, <1>2, ReadOn
  <1> QED BY <1>1, <1>2, <1>3, RiskKeeps

LEMMA RiskPromoteStep ==
  ASSUME ConfigInv, RiskPromote
  PROVE  /\ Types' /\ RingsInv' /\ WireInv' /\ QueueInv' /\ applied' = applied
         /\ risk'.updates = risk.updates /\ risk.phase # "live"
  <1> DEFINE r == [risk EXCEPT !.phase = "live"]
  <1>1. /\ UNCHANGED <<pgVars, engine, wire, again>> /\ risk.phase = "warm"
        /\ risk' = ApplySymbolConfigs(r)
    BY DEF RiskPromote, meVars, wireVars
  <1>2. risk \in Shards
    BY DEF ConfigInv, Types
  <1>3. /\ r \in Shards /\ r.version = risk.version /\ r.reloads = risk.reloads
        /\ r.updates = risk.updates /\ r.read = risk.read
    BY <1>2 DEF Shards
  <1> HIDE DEF r
  <1>4. /\ risk' \in Shards /\ risk'.reloads = risk.reloads
        /\ risk'.updates = risk.updates /\ risk'.read = risk.read
        /\ risk'.version \in {risk.version, ActiveVersion(schedule, Clock("risk"))}
    BY <1>1, <1>3, InstallActive DEF ConfigInv
  <1>5. risk.version >= 1 /\ risk.reloads = <<>> /\ risk.updates = <<>>
    BY <1>1 DEF ConfigInv, QueueInv
  <1>6. risk'.version >= 1
    <2>1. ActiveVersion(schedule, Clock("risk")) \in 1..Len(schedule)
      BY SomeActive DEF ConfigInv
    <2>2. \A v \in 1..Len(schedule) : v >= 1
      OBVIOUS
    <2> QED BY <1>4, <1>5, <2>1, <2>2
  <1>7. QueueInv'
    BY <1>4, <1>5, <1>6 DEF QueueInv
  <1>8. risk'.read <= Len(wire)
    BY <1>4 DEF ConfigInv, Types
  <1> QED BY <1>1, <1>4, <1>7, <1>8, RiskKeeps

LEMMA RiskCrashStep ==
  ASSUME ConfigInv, RiskCrash
  PROVE  /\ Types' /\ RingsInv' /\ WireInv' /\ QueueInv' /\ applied' = applied
         /\ risk'.updates = <<>> /\ risk'.phase # "live"
  <1>1. /\ UNCHANGED <<pgVars, engine, wire, again>>
        /\ risk' = [phase |-> "down", version |-> 0, interval |-> 0, reloads |-> <<>>,
                    updates |-> <<>>, read |-> risk.read]
    BY DEF RiskCrash, Stopped, meVars, wireVars
  <1>2. risk.read \in Nat /\ risk.read <= Len(wire)
    BY DEF ConfigInv, Types, Shards
  <1>3. risk' \in Shards
    <2>1. <<>> \in Seq(Nat) /\ 0 \in Nat /\ 0 \in Int
      OBVIOUS
    <2> QED BY <1>1, <1>2, <2>1 DEF Shards
  <1>4. risk'.read <= Len(wire)
    BY <1>1, <1>2
  <1>5. QueueInv'
    BY <1>1 DEF QueueInv
  <1> QED BY <1>1, <1>3, <1>4, <1>5, RiskKeeps

(* A live record, new or repeated, is queued behind what it may follow. *)
LEMMA ReceiveStep ==
  ASSUME ConfigInv, RiskReceive \/ RiskReceiveAgain
  PROVE  /\ Types' /\ RingsInv' /\ WireInv' /\ QueueInv' /\ applied' = applied
         /\ risk'.updates = risk.updates /\ risk'.version = risk.version
  <1>1. risk \in Shards /\ wire \in Seq(Nat) /\ risk.read <= Len(wire)
    BY DEF ConfigInv, Types
  <1>2. risk.read \in Nat /\ risk.version \in Nat /\ risk.reloads \in Seq(Nat)
        /\ Len(wire) \in Nat
    BY <1>1 DEF Shards
  <1>3. UNCHANGED <<pgVars, engine, wire, again>> /\ risk.phase = "live"
    BY DEF RiskReceive, RiskReceiveAgain, meVars, wireVars
  <1>4. PICK k \in Nat : /\ k \in 1..Len(wire) /\ k >= risk.read
                        /\ risk' = [ProcessConfigApplied(risk, wire[k]) EXCEPT !.read = k]
    <2>1. CASE RiskReceive
      <3>1. ProcessConfigApplied(risk, wire[risk.read + 1]).read = risk.read
        BY <1>1 DEF ProcessConfigApplied, Shards
      <3>2. risk' = [ProcessConfigApplied(risk, wire[risk.read + 1]) EXCEPT !.read = risk.read + 1]
        BY <2>1, <3>1 DEF RiskReceive
      <3>3. risk.read + 1 \in Nat /\ risk.read + 1 \in 1..Len(wire) /\ risk.read + 1 >= risk.read
        BY <1>2, <2>1 DEF RiskReceive
      <3> QED BY <3>2, <3>3, Zenon
    <2>2. CASE RiskReceiveAgain
      <3>1. risk' = [ProcessConfigApplied(risk, wire[risk.read]) EXCEPT !.read = risk.read]
        BY <1>1, <2>2, Zenon DEF RiskReceiveAgain, ProcessConfigApplied, Shards
      <3>2. risk.read \in 1..Len(wire) /\ risk.read >= risk.read
        BY <1>1, <1>2, <2>2 DEF RiskReceiveAgain
      <3> QED BY <1>2, <3>1, <3>2, Zenon
    <2> QED BY <2>1, <2>2
  <1> DEFINE v == wire[k]
             longer == Append(risk.reloads, v)
  <1>5. v \in Nat
    BY <1>1, <1>4
  <1>6. CASE v <= risk.version
    <2>1. risk' = [risk EXCEPT !.read = k]
      BY <1>4, <1>6 DEF ProcessConfigApplied
    <2>2. /\ QueueInv' /\ risk' \in Shards /\ risk'.read = k
          /\ risk'.version = risk.version /\ risk'.updates = risk.updates
      BY <1>3, <1>4, <2>1, ReadOn
    <2>3. risk'.read <= Len(wire)
      BY <1>2, <1>4, <2>2
    <2> QED BY <1>3, <2>2, <2>3, RiskKeeps
  <1>7. CASE ~(v <= risk.version)
    <2>1. /\ longer \in Seq(Nat) /\ Len(risk.reloads) \in Nat
          /\ Len(longer) = Len(risk.reloads) + 1
          /\ \A i \in 1..Len(risk.reloads) : longer[i] = risk.reloads[i]
          /\ longer[Len(risk.reloads) + 1] = v
      BY <1>2, <1>5, AppendElements
    <2>2. risk' = [risk EXCEPT !.reloads = longer, !.read = k]
      BY <1>4, <1>7 DEF ProcessConfigApplied
    <2> HIDE DEF longer, v
    <2>3. /\ risk' \in Shards /\ risk'.read = k /\ risk'.phase = risk.phase
          /\ risk'.version = risk.version /\ risk'.reloads = longer
          /\ risk'.updates = risk.updates
      BY <1>1, <1>4, <2>1, <2>2, Zenon DEF Shards
    <2>4. risk'.read <= Len(wire) /\ wire' = wire /\ again' = again
      BY <1>2, <1>3, <1>4, <2>3
    <2>5. risk.version >= 1
      BY <1>3 DEF ConfigInv, QueueInv
    <2>6. v # 1 /\ MayFollow(risk.version, v)
      BY <1>2, <1>5, <1>7, <2>5 DEF MayFollow
    <2>7. \A j \in 1..k : MayFollow(wire[j], v)
      <3> SUFFICES ASSUME NEW j \in 1..k PROVE MayFollow(wire[j], v)
        OBVIOUS
      <3>1. CASE j = k
        BY <1>5, <3>1 DEF MayFollow, v
      <3>2. CASE j < k
        <4>1. j \in 1..Len(wire) /\ k \in 1..Len(wire)
          BY <1>2, <1>4
        <4> QED BY <2>6, <3>2, <4>1 DEF ConfigInv, WireInv, MayFollow, v
      <3> QED BY <1>4, <3>1, <3>2
    <2>8. \A x : (\E j \in 1..risk.read : wire[j] = x)
                 => MayFollow(x, v) /\ \E j \in 1..k : wire[j] = x
      <3>1. \A j \in 1..risk.read : j \in 1..k
        BY <1>2, <1>4
      <3> QED BY <2>7, <3>1
    <2>9. QueueInv'
      <3> DEFINE n == Len(risk.reloads)
      <3>1. \A i \in 1..Len(longer) : i \in 1..n \/ i = n + 1
        BY <2>1
      <3>2. \A i \in 1..n :
              /\ \E j \in 1..k : wire[j] = risk.reloads[i]
              /\ MayFollow(risk.version, risk.reloads[i]) /\ MayFollow(risk.reloads[i], v)
              /\ \A j \in 1..i : MayFollow(risk.reloads[j], risk.reloads[i])
              /\ \A j \in 1..Len(risk.updates) : MayFollow(risk.updates[j], risk.reloads[i])
        BY <2>8, Zenon DEF ConfigInv, QueueInv
      <3>3. \A i \in 1..Len(risk.updates) :
              /\ \E j \in 1..k : wire[j] = risk.updates[i]
              /\ MayFollow(risk.version, risk.updates[i]) /\ MayFollow(risk.updates[i], v)
        BY <2>8, Zenon DEF ConfigInv, QueueInv
      <3>4. \E j \in 1..k : wire[j] = v
        BY <1>4 DEF v
      <3>5. ASSUME NEW i \in 1..Len(longer)
            PROVE  /\ \E j \in 1..k : wire[j] = longer[i]
                   /\ MayFollow(risk.version, longer[i])
                   /\ \A j \in 1..i : MayFollow(longer[j], longer[i])
                   /\ \A j \in 1..Len(risk.updates) : MayFollow(risk.updates[j], longer[i])
        <4>1. CASE i \in 1..n
          <5>1. \A j \in 1..i : j \in 1..n /\ longer[j] = risk.reloads[j]
            BY <2>1, <4>1
          <5>2. longer[i] = risk.reloads[i]
            BY <2>1, <4>1
          <5> QED BY <3>2, <4>1, <5>1, <5>2
        <4>2. CASE i = n + 1
          <5>1. longer[i] = v
            BY <2>1, <4>2
          <5>2. \A j \in 1..i : longer[j] = v \/ (j \in 1..n /\ longer[j] = risk.reloads[j])
            BY <2>1, <4>2
          <5>3. MayFollow(v, v)
            BY <1>5 DEF MayFollow
          <5>4. \A j \in 1..i : MayFollow(longer[j], v)
            BY <3>2, <5>2, <5>3
          <5> QED BY <2>6, <3>3, <3>4, <5>1, <5>4
        <4> QED BY <3>1, <4>1, <4>2
      <3>6. \A x, y : MayFollow(x, y)' <=> MayFollow(x, y)
        BY <2>4 DEF MayFollow
      <3> QED BY <1>3, <2>3, <2>4, <2>5, <3>3, <3>5, <3>6 DEF QueueInv
    <2> QED BY <1>3, <2>3, <2>4, <2>9, RiskKeeps
  <1> QED BY <1>6, <1>7

(* A fetch leaves the queue: fetched, dropped or failed. *)
LEMMA ReloadStep ==
  ASSUME ConfigInv, ReloadSymbolConfig \/ ReloadFails
  PROVE  /\ Types' /\ RingsInv' /\ WireInv' /\ QueueInv' /\ FetchedInv'
         /\ applied' = applied /\ risk'.version = risk.version
  <1> DEFINE v == Head(risk.reloads)
             rest == Tail(risk.reloads)
             m == Len(risk.updates)
  <1>1. risk \in Shards /\ wire \in Seq(Nat) /\ risk.read <= Len(wire)
    BY DEF ConfigInv, Types
  <1>2. risk.version \in Nat /\ risk.reloads \in Seq(Nat) /\ risk.updates \in Seq(Nat)
    BY <1>1 DEF Shards
  <1>3. UNCHANGED <<pgVars, engine, wire, again>> /\ risk.reloads # <<>> /\ risk.phase = "live"
    BY DEF ReloadSymbolConfig, ReloadFails, ConfigInv, QueueInv, meVars, wireVars
  <1>4. /\ Len(risk.reloads) \in Nat /\ Len(risk.reloads) >= 1
        /\ v = risk.reloads[1] /\ v \in Nat
        /\ rest \in Seq(Nat) /\ Len(rest) = Len(risk.reloads) - 1
        /\ \A i \in 1..Len(rest) :
             i + 1 \in 1..Len(risk.reloads) /\ rest[i] = risk.reloads[i + 1]
    BY <1>2, <1>3, TailElements
  <1>5. PICK updates \in Seq(Nat) :
          /\ risk' = [risk EXCEPT !.reloads = rest, !.updates = updates]
          /\ \A i \in 1..Len(updates) :
               \/ i \in 1..m /\ updates[i] = risk.updates[i]
               \/ updates[i] = v /\ v \in DOMAIN schedule
    <2> DEFINE fits == /\ v \in DOMAIN schedule
                       /\ ReadableByRisk(schedule[v])
                       /\ Len(risk.updates) < RingCap
               longer == Append(risk.updates, v)
    <2>1. CASE ReloadSymbolConfig /\ fits
      <3>1. risk' = [risk EXCEPT !.reloads = rest, !.updates = longer]
        BY <2>1 DEF ReloadSymbolConfig
      <3>2. /\ longer \in Seq(Nat) /\ m \in Nat /\ Len(longer) = m + 1
            /\ \A i \in 1..m : longer[i] = risk.updates[i]
            /\ longer[m + 1] = v
        BY <1>2, <1>4, AppendElements
      <3>3. \A i \in 1..Len(longer) : i \in 1..m \/ i = m + 1
        BY <3>2
      <3> HIDE DEF longer, v, rest, m
      <3> QED BY <2>1, <3>1, <3>2, <3>3, Zenon
    <2>2. CASE (ReloadSymbolConfig /\ ~fits) \/ ReloadFails
      <3>1. risk' = [risk EXCEPT !.reloads = rest, !.updates = risk.updates]
        BY <1>1, <2>2, Zenon DEF ReloadSymbolConfig, ReloadFails, Shards
      <3> HIDE DEF v, rest
      <3> QED BY <1>2, <3>1, Zenon
    <2> QED BY <2>1, <2>2, Zenon
  <1> HIDE DEF v, rest
  <1>6. /\ risk' \in Shards /\ risk'.read = risk.read /\ risk'.phase = risk.phase
        /\ risk'.version = risk.version /\ risk'.reloads = rest
        /\ risk'.updates = updates
    BY <1>1, <1>4, <1>5, Zenon DEF Shards
  <1>7. risk'.read <= Len(wire) /\ wire' = wire /\ again' = again /\ schedule' = schedule
    BY <1>1, <1>3, <1>6 DEF pgVars
  <1>8. \A i \in 1..Len(risk.reloads) :
          /\ \E j \in 1..risk.read : wire[j] = risk.reloads[i]
          /\ MayFollow(risk.version, risk.reloads[i])
          /\ \A j \in 1..i : MayFollow(risk.reloads[j], risk.reloads[i])
          /\ \A j \in 1..m : MayFollow(risk.updates[j], risk.reloads[i])
    BY DEF ConfigInv, QueueInv
  <1>9. \A i \in 1..m :
          /\ \E j \in 1..risk.read : wire[j] = risk.updates[i]
          /\ MayFollow(risk.version, risk.updates[i])
    BY DEF ConfigInv, QueueInv
  <1> HIDE DEF m
  <1>10. 1 \in 1..Len(risk.reloads)
    BY <1>4
  <1>11. \A i \in 1..Len(rest) : MayFollow(v, rest[i])
    <2> SUFFICES ASSUME NEW i \in 1..Len(rest) PROVE MayFollow(v, rest[i])
      OBVIOUS
    <2>1. i + 1 \in 1..Len(risk.reloads) /\ rest[i] = risk.reloads[i + 1] /\ 1 \in 1..(i + 1)
      BY <1>4
    <2> QED BY <1>4, <1>8, <2>1
  <1>12. ASSUME NEW i \in 1..Len(rest)
         PROVE  /\ \E j \in 1..risk.read : wire[j] = rest[i]
                /\ MayFollow(risk.version, rest[i])
                /\ \A j \in 1..i : MayFollow(rest[j], rest[i])
                /\ \A j \in 1..Len(updates) : MayFollow(updates[j], rest[i])
    <2>1. i + 1 \in 1..Len(risk.reloads) /\ rest[i] = risk.reloads[i + 1]
      BY <1>4
    <2>2. ASSUME NEW j \in 1..i PROVE MayFollow(rest[j], rest[i])
      <3>1. j \in 1..Len(rest) /\ j + 1 \in 1..(i + 1)
        BY <1>4
      <3>2. rest[j] = risk.reloads[j + 1]
        BY <1>4, <3>1
      <3> QED BY <1>8, <2>1, <3>1, <3>2
    <2>3. ASSUME NEW j \in 1..Len(updates) PROVE MayFollow(updates[j], rest[i])
      BY <1>5, <1>8, <1>11, <2>1, Zenon
    <2> QED BY <1>8, <2>1, <2>2, <2>3
  <1>13. ASSUME NEW i \in 1..Len(updates)
         PROVE  /\ \E j \in 1..risk.read : wire[j] = updates[i]
                /\ MayFollow(risk.version, updates[i])
    BY <1>4, <1>5, <1>8, <1>9, <1>10
  <1>14. QueueInv'
    <2>1. \A x, y : MayFollow(x, y)' <=> MayFollow(x, y)
      BY <1>7 DEF MayFollow
    <2>2. risk.version >= 1
      BY <1>3 DEF ConfigInv, QueueInv
    <2> QED BY <1>3, <1>6, <1>7, <1>12, <1>13, <2>1, <2>2 DEF QueueInv
  <1>15. FetchedInv'
    <2>1. DOMAIN schedule = 1..Len(schedule)
      BY DEF ConfigInv, ScheduleInv
    <2> QED BY <1>5, <1>6, <1>7, <2>1 DEF ConfigInv, FetchedInv, m
  <1> QED BY <1>3, <1>6, <1>7, <1>14, <1>15, RiskKeeps

(* The fetched versions are installed: the shard stays or takes one of them. *)
LEMMA DrainStep ==
  ASSUME ConfigInv, DrainConfigUpdates
  PROVE  /\ Types' /\ RingsInv' /\ WireInv' /\ QueueInv' /\ applied' = applied
         /\ risk'.updates = <<>>
         /\ risk'.version < risk.version => risk'.version \in again
  <1> DEFINE updates == risk.updates
             interval == IF risk.interval = 0
                         THEN schedule[Head(updates)].set["funding_interval"]
                         ELSE risk.interval
             taken == {i \in DOMAIN updates :
                         schedule[updates[i]].set["funding_interval"] = interval}
  <1>1. risk \in Shards /\ wire \in Seq(Nat) /\ risk.read <= Len(wire)
    BY DEF ConfigInv, Types
  <1>2. /\ risk.version \in Nat /\ updates \in Seq(Nat) /\ Len(updates) \in Nat
        /\ DOMAIN updates = 1..Len(updates)
    BY <1>1 DEF Shards
  <1>3. UNCHANGED <<pgVars, engine, wire, again>> /\ updates # <<>> /\ risk.phase = "live"
    BY DEF DrainConfigUpdates, ConfigInv, QueueInv, meVars, wireVars
  <1>4. risk' = [IF taken = {} THEN risk
                 ELSE [risk EXCEPT !.version = updates[Max(taken)], !.interval = interval]
                   EXCEPT !.updates = <<>>]
    BY Zenon DEF DrainConfigUpdates, ApplyUpdates
  <1>5. interval \in Int
    <2>1. CASE risk.interval = 0
      <3>1. Head(updates) = updates[1] /\ 1 \in 1..Len(updates)
        BY <1>2, <1>3
      <3>2. Head(updates) \in 1..Len(schedule)
        BY <3>1 DEF ConfigInv, FetchedInv
      <3> QED BY <2>1, <3>2, RowInterval DEF ConfigInv
    <2>2. CASE risk.interval # 0
      BY <1>1, <2>2 DEF Shards
    <2> QED BY <2>1, <2>2
  <1>6. taken # {} => Max(taken) \in 1..Len(updates)
    <2>1. taken \subseteq 1..Len(updates)
      BY <1>2
    <2> HIDE DEF taken
    <2>2. taken \subseteq Nat /\ \A i \in taken : i <= Len(updates)
      BY <1>2, <2>1
    <2> QED BY <1>2, <2>1, <2>2, MaxIsGreatest, Zenon
  <1> HIDE DEF taken, interval
  <1>7. PICK v \in Nat, int \in Int :
          /\ risk' = [risk EXCEPT !.version = v, !.interval = int, !.updates = <<>>]
          /\ v = risk.version \/ \E i \in 1..Len(updates) : v = updates[i]
    <2>1. CASE taken = {}
      <3>1. risk' = [risk EXCEPT !.version = risk.version, !.interval = risk.interval,
                                 !.updates = <<>>]
        BY <1>1, <1>4, <2>1, Zenon DEF Shards
      <3>2. risk.interval \in Int
        BY <1>1 DEF Shards
      <3> QED BY <1>2, <3>1, <3>2, Zenon
    <2>2. CASE taken # {}
      <3>1. risk' = [risk EXCEPT !.version = updates[Max(taken)], !.interval = interval,
                                 !.updates = <<>>]
        BY <1>4, <2>2, Zenon
      <3>2. updates[Max(taken)] \in Nat
        BY <1>2, <1>6, <2>2
      <3> QED BY <1>5, <1>6, <2>2, <3>1, <3>2, Zenon
    <2> QED BY <2>1, <2>2, Zenon
  <1>8. /\ risk' \in Shards /\ risk'.read = risk.read /\ risk'.phase = risk.phase
        /\ risk'.version = v /\ risk'.reloads = risk.reloads /\ risk'.updates = <<>>
    <2>1. <<>> \in Seq(Nat)
      OBVIOUS
    <2> QED BY <1>1, <1>7, <2>1, Zenon DEF Shards
  <1>9. risk'.read <= Len(wire) /\ wire' = wire /\ again' = again
    BY <1>1, <1>3, <1>8
  <1>10. v >= 1
    <2>1. risk.version >= 1
      BY <1>3 DEF ConfigInv, QueueInv
    <2>2. \A i \in 1..Len(updates) : updates[i] >= 1
      BY DEF ConfigInv, FetchedInv
    <2> QED BY <1>7, <2>1, <2>2
  <1>11. QueueInv'
    <2>1. \A x, y : MayFollow(x, y)' <=> MayFollow(x, y)
      BY <1>9 DEF MayFollow
    <2>2. \A i \in 1..Len(risk.reloads) :
            /\ \E j \in 1..risk.read : wire[j] = risk.reloads[i]
            /\ MayFollow(v, risk.reloads[i])
            /\ \A j \in 1..i : MayFollow(risk.reloads[j], risk.reloads[i])
      BY <1>7 DEF ConfigInv, QueueInv
    <2> QED BY <1>3, <1>8, <1>9, <1>10, <2>1, <2>2 DEF QueueInv
  <1>12. risk'.version < risk.version => risk'.version \in again
    <2>1. \A i \in 1..Len(updates) : MayFollow(risk.version, updates[i])
      BY DEF ConfigInv, QueueInv
    <2> QED BY <1>2, <1>7, <1>8, <2>1 DEF MayFollow
  <1> QED BY <1>3, <1>8, <1>9, <1>11, <1>12, RiskKeeps

-----------------------------------------------------------------------------
(* A row that was fetched stays in the schedule. *)
LEMMA FetchedKept ==
  ASSUME ConfigInv, [Next]_vars, risk'.updates \in {risk.updates, <<>>}
  PROVE  FetchedInv'
  <1>1. ScheduleInv' /\ Len(schedule') >= Len(schedule)
    BY ScheduleStep DEF ConfigInv
  <1>2. Len(schedule) \in Nat /\ Len(schedule') \in Nat
    BY <1>1 DEF ConfigInv, ScheduleInv
  <1>3. \A v \in 1..Len(schedule) : v \in 1..Len(schedule')
    BY <1>1, <1>2
  <1>4. CASE risk'.updates = risk.updates
    BY <1>3, <1>4 DEF ConfigInv, FetchedInv
  <1>5. CASE risk'.updates = <<>>
    BY <1>5 DEF FetchedInv
  <1> QED BY <1>4, <1>5

(* What a step may never do to the applied row and to a live shard. *)
Forward ==
  /\ applied' >= applied
  /\ risk.phase = "live" /\ risk'.phase = "live" /\ risk'.version < risk.version
       => risk'.version \in again

LEMMA ConfigStep ==
  ASSUME ConfigInv, [Next]_vars
  PROVE  ConfigInv' /\ Forward
  <1>1. ScheduleInv' /\ WriterInv'
    BY ScheduleStep DEF ConfigInv
  <1>2. /\ risk \in Shards /\ risk.version \in Nat /\ applied \in Nat
        /\ ~(risk.version < risk.version) /\ applied >= applied
    BY DEF ConfigInv, Types, Shards
  <1> DEFINE Kept == /\ Types' /\ RingsInv' /\ WireInv' /\ QueueInv'
                     /\ FetchedInv' /\ Forward
  <1>3. /\ Types' /\ RingsInv' /\ WireInv' /\ QueueInv'
        /\ applied' >= applied /\ risk' = risk
        => Kept
    BY <1>2, FetchedKept DEF Forward
  <1>4. /\ Types' /\ RingsInv' /\ WireInv' /\ QueueInv'
        /\ applied' = applied /\ risk'.updates \in {risk.updates, <<>>}
        /\ \/ risk.phase # "live" \/ risk'.phase # "live"
           \/ risk'.version = risk.version
           \/ risk'.version < risk.version => risk'.version \in again
        => Kept
    BY <1>2, FetchedKept DEF Forward
  <1> SUFFICES Kept
    BY <1>1 DEF ConfigInv
  <1> HIDE DEF Kept
  <1>5. CASE Schedule \/ Tick \/ PostgresLost \/ UNCHANGED vars
    BY <1>2, <1>3, <1>5, ClockStep
  <1>6. CASE EngineBoot
    BY <1>2, <1>3, <1>6, EngineBootStep, Zenon DEF EngineBoot, pgVars, riskVars
  <1>7. CASE HandOffDueConfigs
    BY <1>2, <1>3, <1>7, HandOffStep DEF HandOffDueConfigs, pgVars, riskVars
  <1>8. CASE ApplyDueConfig
    BY <1>2, <1>3, <1>8, ApplyDueStep DEF ApplyDueConfig, pgVars, riskVars
  <1>9. CASE WriteAppliedConfig \/ WriteAppliedFails
    BY <1>3, <1>9, WriteAppliedStep DEF WriteAppliedConfig, WriteAppliedFails, riskVars
  <1>10. CASE EngineCrash
    BY <1>2, <1>3, <1>10, EngineCrashStep DEF EngineCrash, pgVars, riskVars
  <1>11. CASE RiskBoot
    BY <1>4, <1>11, RiskBootStep
  <1>12. CASE RiskPassesOver
    BY <1>4, <1>12, RiskPassesOverStep
  <1>13. CASE RiskPromote
    BY <1>4, <1>13, RiskPromoteStep
  <1>14. CASE RiskReceive \/ RiskReceiveAgain
    BY <1>4, <1>14, ReceiveStep
  <1>15. CASE ReloadSymbolConfig \/ ReloadFails
    BY <1>2, <1>15, ReloadStep DEF Forward, Kept
  <1>16. CASE DrainConfigUpdates
    BY <1>4, <1>16, DrainStep
  <1>17. CASE RiskCrash
    BY <1>4, <1>17, RiskCrashStep
  <1> QED
    BY <1>5, <1>6, <1>7, <1>8, <1>9, <1>10, <1>11, <1>12, <1>13, <1>14, <1>15, <1>16, <1>17
       DEF Next, Engine, Risk, Faults

(* Versions go forward for every schedule, clock lag and ring size: the
   applied row never goes back, and a live shard goes back only to a version
   that a restarted engine has announced a second time (apply_due_configs,
   process_config_applied, drain_config_updates). *)
THEOREM VersionsForward == Spec => VersionsGoForward
  <1>1. Init => ConfigInv
    <2>1. Init => FetchedInv
      BY DEF Init, Stopped, FetchedInv
    <2> QED BY <2>1, ScheduleInit, ConfigInit DEF ConfigInv
  <1>2. ConfigInv /\ [Next]_vars => ConfigInv'
    BY ConfigStep
  <1>3. ConfigInv /\ [Next]_vars => [applied' >= applied]_vars
    BY ConfigStep DEF Forward
  <1>4. ConfigInv /\ [Next]_vars
          => [risk.phase = "live" /\ risk'.phase = "live" /\ risk'.version < risk.version
                => risk'.version \in again]_vars
    BY ConfigStep DEF Forward
  <1> QED BY <1>1, <1>2, <1>3, <1>4, PTL
          DEF Spec, VersionsGoForward, AppliedRowAscends, GoesBackOnlyIf

=============================================================================
