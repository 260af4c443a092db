------------------------------ MODULE WalFiles ------------------------------
(***************************************************************************)
(* The files of one WAL stream and the writer that fills them: buffered    *)
(* append, flush with the repair of an earlier failed flush, rotation of   *)
(* the active file into a named segment, pruning, and reopening after the  *)
(* process was killed.  The process runs a single writer; a rotation is    *)
(* split where other threads can see the directory in between.             *)
(*                                                                         *)
(* A frame in a file is the sequence number of its record, or Torn for     *)
(* the bytes of an incomplete one.  Sizes are counted in records.          *)
(***************************************************************************)
EXTENDS Integers, Sequences, SequencesExt, FiniteSets

CONSTANTS
  MaxFile,      \* max_file_size
  MaxSeq,       \* bound: how many records the stream gets
  MaxFaults,    \* bound: failed calls, kills and broken connections
  NoFile        \* the active file's name does not exist

ASSUME WalAssumption ==
  /\ MaxFile \in Nat \ {0}
  /\ MaxSeq \in Nat
  /\ MaxFaults \in Nat
  /\ NoFile \notin Seq(Nat)

VARIABLES
  segs,         \* the rotated segments, oldest first: [first, last, recs]
  active,       \* the active file's frames, or NoFile
  w,            \* the writer
  faults        \* faults so far

walVars == <<segs, active, w>>

Torn == 0
None == 0

DownWriter ==
  [pc |-> "down", then |-> "idle", next |-> 1, buf |-> <<>>, bufFirst |-> None,
   first |-> None, flushed |-> 0, last |-> 0, size |-> 0, null |-> FALSE,
   base |-> 0]      \* external: how far the owner's snapshot and log reach

WalInit ==
  /\ segs = <<>>
  /\ active = <<>>
  /\ w = [DownWriter EXCEPT !.pc = "idle"]

Fault == faults < MaxFaults /\ faults' = faults + 1

\* The whole records at the front of a file: a reader stops at a torn one.
Whole(frames) == SelectSeq(frames, LAMBDA s : s # Torn)

OnDisk == UNION {ToSet(segs[i].recs) : i \in DOMAIN segs}
            \cup (IF active = NoFile THEN {} ELSE ToSet(Whole(active)))

-----------------------------------------------------------------------------
(* The writer.                                                             *)

\* prepare, then append_framed unless the buffer is beyond its limit.
AppendRecord ==
  /\ w.pc = "idle" /\ w.next <= MaxSeq
  /\ Len(w.buf) <= 2 * MaxFile
  /\ w' = [w EXCEPT !.next = @ + 1, !.last = w.next, !.buf = Append(@, w.next),
                    !.bufFirst = IF @ = None THEN w.next ELSE @]
  /\ UNCHANGED <<segs, active, faults>>

NeedsRotation == w.size > 0 /\ w.size + Len(w.buf) >= MaxFile

\* Mutant of FlushStart: what a failed flush left in the file stays.
FlushStartUncut ==
  /\ w.pc = "idle" /\ w.buf # <<>> /\ ~w.null
  /\ w' = IF NeedsRotation
          THEN [w EXCEPT !.pc = "rename", !.then = "write"]
          ELSE [w EXCEPT !.pc = "write"]
  /\ UNCHANGED <<segs, active, faults>>

\* flush up to the write: what a failed flush left behind is cut off.  Once
\* the handle is /dev/null every flush ends at the sync before the rename.
FlushStart ==
  /\ w.pc = "idle" /\ w.buf # <<>> /\ ~w.null
  /\ active' = SubSeq(active, 1, w.size)
  /\ w' = IF NeedsRotation
          THEN [w EXCEPT !.pc = "rename", !.then = "write"]
          ELSE [w EXCEPT !.pc = "write"]
  /\ UNCHANGED <<segs, faults>>

\* rotate: sync, let go of the file, rename it to the range it holds.
RotateRename ==
  /\ w.pc = "rename"
  /\ segs' = Append(segs, [first |-> IF w.first = None THEN w.flushed ELSE w.first,
                           last |-> w.flushed, recs |-> active])
  /\ active' = NoFile
  /\ w' = [w EXCEPT !.pc = "create"]
  /\ UNCHANGED faults

\* rotate: open a new active file and prune the segments past retention.
RotateCreate ==
  /\ w.pc = "create"
  /\ active' = <<>>
  /\ \E k \in 0 .. Len(segs) : segs' = SubSeq(segs, k + 1, Len(segs))
  /\ w' = [w EXCEPT !.pc = w.then, !.size = 0, !.first = None]
  /\ UNCHANGED faults

\* The rename or the open failed: the writer is left holding /dev/null.
RotateFail ==
  /\ w.pc \in {"rename", "create"} /\ Fault
  /\ w' = [w EXCEPT !.pc = "idle", !.null = TRUE]
  /\ UNCHANGED <<segs, active>>

FlushWrite ==
  /\ w.pc = "write"
  /\ active' = active \o w.buf
  /\ w' = [w EXCEPT !.pc = "sync"]
  /\ UNCHANGED <<segs, faults>>

\* What a write_all that stopped early leaves in the file.
PartialWrites(buf) ==
  {SubSeq(buf, 1, n) \o t : n \in 0 .. Len(buf) - 1, t \in {<<>>, <<Torn>>}}

FlushFail ==
  /\ w.pc \in {"write", "sync"} /\ Fault
  /\ \/ w.pc = "sync" /\ UNCHANGED active
     \/ w.pc = "write" /\ \E part \in PartialWrites(w.buf) : active' = active \o part
  /\ w' = [w EXCEPT !.pc = "idle"]
  /\ UNCHANGED segs

FlushSync ==
  LET size == w.size + Len(w.buf)
  IN /\ w.pc = "sync"
     /\ w' = [w EXCEPT !.pc = IF size >= MaxFile THEN "rename" ELSE "idle",
                       !.then = "idle", !.size = size, !.buf = <<>>,
                       !.first = IF @ = None THEN w.bufFirst ELSE @,
                       !.bufFirst = None, !.flushed = w.last]
     /\ UNCHANGED <<segs, active, faults>>

Highest(seqs) == CHOOSE s \in seqs \cup {0} : \A t \in seqs : t <= s

\* The process is killed; what it had written stays with the kernel.
KillWriter ==
  /\ w.pc # "down" /\ Fault
  /\ \/ UNCHANGED active
     \/ w.pc = "write" /\ \E part \in PartialWrites(w.buf) : active' = active \o part
  /\ UNCHANGED segs
  /\ w' = [DownWriter EXCEPT !.base = Highest(OnDisk' \cup {w.flushed, w.base})]

\* WalWriter::new, then set_next_seq behind what the owner's recovery reached.
OpenWriter ==
  LET whole == IF active = NoFile THEN <<>> ELSE Whole(active)
  IN /\ w.pc = "down"
     /\ active' = whole
     /\ w' = [w EXCEPT
                !.pc = "idle", !.next = w.base + 1, !.last = w.base,
                !.size = Len(whole),
                !.first = IF whole = <<>> THEN None ELSE whole[1],
                !.flushed = IF whole = <<>> THEN 0 ELSE Last(whole)]
     /\ UNCHANGED <<segs, faults>>

WriterStep == FlushStart \/ RotateRename \/ RotateCreate \/ FlushWrite \/ FlushSync
WriterFault == RotateFail \/ FlushFail

-----------------------------------------------------------------------------
(* Readers, on one view of the directory.                                  *)

\* list_wal_files_across: the active file sorts last.
ListFiles ==
  [i \in DOMAIN segs |-> [first |-> segs[i].first, last |-> segs[i].last,
                          isActive |-> FALSE]]
    \o (IF active = NoFile THEN <<>>
        ELSE <<[first |-> 0, last |-> 0, isActive |-> TRUE]>>)

Covers(file, seq) == ~file.isActive /\ file.first <= seq /\ seq <= file.last

\* Mutant of PickStart: the target is expected in the newest file.
PickStartNewest(files, target) == IF target = 0 THEN 1 ELSE Len(files)

\* pick_start_idx: the segment whose name covers the target, else the last
\* file of the list.
PickStart(files, target) ==
  LET hits == {i \in DOMAIN files : Covers(files[i], target)}
  IN IF target = 0 THEN 1
     ELSE IF hits # {} THEN CHOOSE i \in hits : \A j \in hits : i <= j
     ELSE Len(files)

\* oldest_and_highest_seq: names of segments, a scan of the active file.
Oldest ==
  LET scanned == IF active = NoFile THEN <<>> ELSE Whole(active)
  IN IF segs # <<>> THEN segs[1].first
     ELSE IF scanned # <<>> THEN scanned[1]
     ELSE None

\* What opening a name of an earlier listing finds now.
Gone == <<-1>>
OpenFile(file) ==
  LET same == {i \in DOMAIN segs : segs[i].first = file.first /\ segs[i].last = file.last}
  IN IF file.isActive THEN (IF active = NoFile THEN Gone ELSE Whole(active))
     ELSE IF same = {} THEN Gone
     ELSE segs[CHOOSE i \in same : TRUE].recs

\* read_record_at_seq: the file that should hold the record, scanned for it.
ReadRecordAtSeq(seq) ==
  LET files == ListFiles
      named == {i \in DOMAIN files : Covers(files[i], seq)}
      actives == {i \in DOMAIN files : files[i].isActive}
      pick == IF named # {} THEN named ELSE actives
  IN pick # {} /\ Contains(OpenFile(files[CHOOSE i \in pick : TRUE]), seq)

-----------------------------------------------------------------------------

WalTypeOK ==
  /\ \A i \in DOMAIN segs :
       /\ segs[i].first \in 0 .. MaxSeq /\ segs[i].last \in 0 .. MaxSeq
       /\ segs[i].recs \in Seq(1 .. MaxSeq)
  /\ active = NoFile \/ active \in Seq(0 .. MaxSeq)
  /\ w.pc \in {"down", "idle", "rename", "create", "write", "sync"}
  /\ w.buf \in Seq(1 .. MaxSeq)
  /\ faults \in 0 .. MaxFaults
=============================================================================
