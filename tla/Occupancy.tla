----------------------------- MODULE Occupancy -----------------------------
(***************************************************************************)
(* The hierarchical occupancy bitmap of rsx-book/src/occupancy.rs.  Level  *)
(* 1 has a bit per slot; level k + 1 has a bit per W-bit word of level k.  *)
(* A level is the set of its set bits.  The code's words are 64 bits wide. *)
(***************************************************************************)
EXTENDS Integers, FiniteSetsExt

CONSTANTS N,      \* number of slots
          W       \* bits in a word

ASSUME OccupancyAssumption == N \in Nat \ {0} /\ W \in Nat \ {0, 1}

None == -1

\* Number of words of level k, as Occupancy::new sizes them.
Words[k \in 1 .. N + 1] == ((IF k = 1 THEN N ELSE Words[k - 1]) + W - 1) \div W

\* The top level is the first with a single word.
Depth == Min({k \in 1 .. N + 1 : Words[k] = 1})
Levels == 1 .. Depth

VARIABLE levels

OccupancyInit == levels = [k \in Levels |-> {}]

\* The set bits of word w of level k.
Word(k, w) == {i \in levels[k] : i \div W = w}

\* Slot i's bit at level k.
BitAt(i, k) == i \div W ^ (k - 1)

\* set: climbs while the word it touches was empty.
Set(i) ==
  levels' = [k \in Levels |->
    IF \A j \in 1 .. k - 1 : Word(j, BitAt(i, j + 1)) = {}
    THEN levels[k] \union {BitAt(i, k)} ELSE levels[k]]

\* clear: climbs while the word it touches becomes empty.
Clear(i) ==
  levels' = [k \in Levels |->
    IF \A j \in 1 .. k - 1 : Word(j, BitAt(i, j + 1)) \subseteq {BitAt(i, j)}
    THEN levels[k] \ {BitAt(i, k)} ELSE levels[k]]

\* Mutant of FindNext: the climb resumes in the word just searched.
FindNextSameWord(from) ==
  LET idx[k \in Levels] == IF k = 1 THEN from ELSE idx[k - 1] \div W
      masked[k \in Levels] == {i \in Word(k, idx[k] \div W) : i >= idx[k]}
      hits == {k \in Levels : masked[k] # {} /\ \A j \in 1 .. k : idx[j] \div W < Words[j]}
      top == Min(hits)
      pos[k \in Levels] == IF k = top THEN Min(masked[k]) ELSE Min(Word(k, pos[k + 1]))
  IN IF from >= N \/ hits = {} THEN None ELSE pos[1]

\* find_next: climbs, one word to the right at each level, until a masked
\* word has a bit, then descends along the lowest bits.
FindNext(from) ==
  LET idx[k \in Levels] == IF k = 1 THEN from ELSE idx[k - 1] \div W + 1
      masked[k \in Levels] == {i \in Word(k, idx[k] \div W) : i >= idx[k]}
      hits == {k \in Levels : masked[k] # {} /\ \A j \in 1 .. k : idx[j] \div W < Words[j]}
      top == Min(hits)
      pos[k \in Levels] == IF k = top THEN Min(masked[k]) ELSE Min(Word(k, pos[k + 1]))
  IN IF from >= N \/ hits = {} THEN None ELSE pos[1]

\* find_prev: the mirror image, giving up at the leftmost word.
FindPrev(from) ==
  LET start == Min({from, N - 1})
      idx[k \in Levels] == IF k = 1 THEN start ELSE idx[k - 1] \div W - 1
      masked[k \in Levels] == {i \in Word(k, idx[k] \div W) : i <= idx[k]}
      hits == {k \in Levels : masked[k] # {} /\ \A j \in 1 .. k : idx[j] >= 0}
      top == Min(hits)
      pos[k \in Levels] == IF k = top THEN Max(masked[k]) ELSE Max(Word(k, pos[k + 1]))
  IN IF hits = {} THEN None ELSE pos[1]

FindFirstIn(lo, hi) ==
  IF lo < hi /\ FindNext(lo) < hi THEN FindNext(lo) ELSE None

FindLastIn(lo, hi) ==
  IF lo < hi /\ FindPrev(hi - 1) >= lo THEN FindPrev(hi - 1) ELSE None

OccupancyNext == \E i \in 0 .. N - 1 : Set(i) \/ Clear(i)

-----------------------------------------------------------------------------
\* A summary bit is set exactly when the word below it has a bit, whatever
\* order slots were set and cleared in (the early breaks of set and clear).
SummariesAgree ==
  \A k \in Levels \ {Depth} : levels[k + 1] = {i \div W : i \in levels[k]}

\* find_first_in and find_last_in return the extreme set slot of any range,
\* or None: what scan_next_bid and scan_next_ask rely on for the best level.
FindFirstIsLeast ==
  \A lo \in 0 .. N, hi \in 0 .. N :
    LET found == {i \in levels[1] : lo <= i /\ i < hi}
    IN FindFirstIn(lo, hi) = IF found = {} THEN None ELSE Min(found)

\* The mirror image, for find_last_in.
FindLastIsGreatest ==
  \A lo \in 0 .. N, hi \in 0 .. N :
    LET found == {i \in levels[1] : lo <= i /\ i < hi}
    IN FindLastIn(lo, hi) = IF found = {} THEN None ELSE Max(found)

\* Both searches are exact after any sets and clears, over summaries that
\* never drift from the slots.
SearchesAreExact == SummariesAgree /\ FindFirstIsLeast /\ FindLastIsGreatest
=============================================================================
