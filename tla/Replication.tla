----------------------------- MODULE Replication -----------------------------
(***************************************************************************)
(* WAL replication to the recorder: the producer's writer, the server task *)
(* that reads the same directory for one connection, the consumer with its *)
(* tip file, and the recorder that archives one file per day.  The two     *)
(* processes are killed and restarted, the connection breaks, archive      *)
(* writes fail and the date changes at any point.                          *)
(***************************************************************************)
EXTENDS WalFiles

CONSTANTS
  FlushEvery,   \* records between two flushes of the archive (1000)
  MaxDay        \* bound: how often the date changes

ASSUME RecorderAssumption == FlushEvery \in Nat \ {0} /\ MaxDay \in Nat

VARIABLES
  conn,         \* the server's side of the connection
  passed,       \* history: the records a connection went past without sending
  chan,         \* sent and not yet read: sequence numbers, or CaughtUp
  rec,          \* the recorder's memory, with the consumer's tip
  tipFile,      \* the tip as persisted
  archive,      \* [day -> the frames of its file]
  day,          \* the date
  got,          \* history: the records handed to the recorder
  lost,         \* history: of those, what crashes, failed rotations and a failed
                \* last flush dropped
  failed        \* history: the days in whose file an archive write failed

recVars == <<rec, tipFile, archive, got, lost, failed>>
vars == <<walVars, faults, conn, chan, passed, recVars, day>>

CaughtUp == 0       \* its seq field is 0, so the tip does not move
Days == 0 .. MaxDay

\* want is the record the follower needs next; the code does not keep it.
NoConn == [pc |-> "off", from |-> 0, last |-> 0, target |-> 0, live |-> FALSE,
           files |-> <<>>, idx |-> 0, want |-> 0]
NewRecorder(tip, lastSeq) ==
  [up |-> TRUE, tip |-> tip, buf |-> <<>>, lastSeq |-> lastSeq, date |-> day,
   count |-> 0, caughtUp |-> FALSE]
DownRecorder == [NewRecorder(0, None) EXCEPT !.up = FALSE]

Init ==
  /\ WalInit /\ faults = 0
  /\ conn = NoConn /\ chan = <<>> /\ passed = {}
  /\ day = 0 /\ rec = NewRecorder(0, None) /\ tipFile = 0
  /\ archive = [d \in Days |-> <<>>] /\ got = {} /\ lost = {} /\ failed = {}

-----------------------------------------------------------------------------
(* The server task: handle_client.                                         *)

\* endpoint_can_serve: otherwise NOT_AVAILABLE is sent and nothing follows.
CanServe(from) == Oldest # None /\ from >= Oldest

\* A request for tip + 1 passes the range check.
Accept ==
  LET from == rec.tip + 1
  IN /\ rec.up /\ conn.pc = "off" /\ w.pc # "down"
     /\ CanServe(from)
     /\ conn' = [NoConn EXCEPT !.pc = "list", !.from = from, !.last = from,
                               !.want = from]
     /\ UNCHANGED <<walVars, faults, chan, passed, recVars, day>>

\* open_from_seq lists the directory: for the request, or from behind the
\* last record sent at every tick of the tail.
ListDirectory ==
  LET target == IF conn.live THEN conn.last + 1 ELSE conn.from
      files == ListFiles
  IN /\ conn.pc = "list" /\ files # <<>>
     /\ conn' = [conn EXCEPT !.pc = "read", !.files = files, !.target = target,
                             !.idx = PickStart(files, target)]
     /\ UNCHANGED <<walVars, faults, chan, passed, recVars, day>>

Relist(c) == [c EXCEPT !.pc = "list", !.live = TRUE, !.files = <<>>, !.idx = 0,
                       !.target = 0]

Readable == SelectSeq(OpenFile(conn.files[conn.idx]), LAMBDA s : s >= conn.target)

\* next reads the named file to its end and moves on.  At the end of the last
\* one the server says CAUGHT_UP, the first time, and waits for its tick.
ReadFile(sent) ==
  LET c == IF sent = <<>> THEN conn
           ELSE [conn EXCEPT !.last = Last(sent), !.want = Last(sent) + 1]
      missing == IF sent = <<>> THEN {} ELSE conn.want .. Head(sent) - 1
  IN /\ passed' = passed \cup missing
     /\ IF conn.idx < Len(conn.files)
        THEN /\ conn' = [c EXCEPT !.idx = @ + 1, !.target = 0]
             /\ chan' = chan \o sent
        ELSE /\ conn' = Relist(c)
             /\ chan' = chan \o sent \o (IF conn.live THEN <<>> ELSE <<CaughtUp>>)

\* A listed file is gone: the first pass gives up, the tail tries again.
ReadNothing ==
  /\ conn' = IF conn.live THEN Relist(conn) ELSE [NoConn EXCEPT !.pc = "closing"]
  /\ UNCHANGED <<chan, passed>>

\* The file is opened by its name when its turn comes: the active file may by
\* then be another one than the one listed.
ReadNext ==
  /\ conn.pc = "read"
  /\ IF OpenFile(conn.files[conn.idx]) = Gone THEN ReadNothing ELSE ReadFile(Readable)
  /\ UNCHANGED <<walVars, faults, recVars, day>>

Server == ListDirectory \/ ReadNext

-----------------------------------------------------------------------------
(* The consumer and the recorder.                                          *)

WholePrefix(frames) ==
  LET torn == {i \in DOMAIN frames : frames[i] = Torn}
  IN IF torn = {} THEN frames
     ELSE SubSeq(frames, 1, (CHOOSE i \in torn : \A j \in torn : i <= j) - 1)

\* read_last_seq of the day's file.
LastArchived(d) ==
  LET whole == WholePrefix(archive[d])
  IN IF whole = <<>> THEN None ELSE Last(whole)

Persist(tip) == tipFile' \in {tipFile, tip}

\* write_record on a record that is not a repetition, the date settled.
Buffered(r, seq) ==
  [r EXCEPT !.lastSeq = seq, !.buf = Append(@, seq), !.count = @ + 1]
FlushDue(r) == r.count % FlushEvery = 0
Repeated(r, seq) == r.lastSeq # None /\ seq <= r.lastSeq

\* rotate, when the date has changed: flush into the old day's file.
Rotated(r) == IF r.date = day THEN r ELSE [r EXCEPT !.buf = <<>>, !.date = day]
RotatedArchive(r) ==
  IF r.date = day THEN archive ELSE [archive EXCEPT ![r.date] = @ \o r.buf]

\* handle_stream and write_record: the tip moves first, the record is handed
\* on, and the tip is persisted if 10 ms have passed.
Receive ==
  LET seq == Head(chan)
      r == [Rotated(rec) EXCEPT !.tip = IF @ < seq THEN seq ELSE @]
      files == RotatedArchive(rec)
      b == Buffered(r, seq)
  IN /\ rec.up /\ chan # <<>> /\ seq # CaughtUp
     /\ chan' = Tail(chan)
     /\ \/ /\ Repeated(r, seq)
           /\ rec' = r /\ archive' = files
        \/ /\ ~Repeated(r, seq) /\ ~FlushDue(b)
           /\ rec' = b /\ archive' = files
        \/ /\ ~Repeated(r, seq) /\ FlushDue(b)
           /\ rec' = [b EXCEPT !.buf = <<>>]
           /\ archive' = [files EXCEPT ![b.date] = @ \o b.buf]
     /\ Persist(r.tip)
     /\ got' = got \cup {seq} /\ lost' = lost \ {seq}
     /\ UNCHANGED <<walVars, passed, faults, conn, day, failed>>

ReceiveCaughtUp ==
  /\ rec.up /\ chan # <<>> /\ Head(chan) = CaughtUp
  /\ chan' = Tail(chan)
  /\ rec' = [rec EXCEPT !.caughtUp = TRUE]
  /\ Persist(rec.tip)
  /\ UNCHANGED <<walVars, passed, faults, conn, day, archive, got, lost, failed>>

\* write_record fails: in rotate the record is not even buffered; in flush it
\* stays buffered behind what reached the file.  The error is logged and the
\* tip has moved on.
ReceiveFails ==
  LET seq == Head(chan)
      r == [rec EXCEPT !.tip = IF @ < seq THEN seq ELSE @, !.caughtUp = FALSE]
      b == Buffered(r, seq)
      tries == IF rec.date # day THEN r.buf ELSE b.buf
  IN /\ rec.up /\ chan # <<>> /\ seq # CaughtUp /\ Fault
     /\ chan' = Tail(chan)
     /\ \/ /\ rec.date # day /\ rec.buf # <<>>
           /\ rec' = r
           /\ lost' = IF Repeated(r, seq) THEN lost ELSE lost \cup {seq}
        \/ /\ rec.date = day /\ ~Repeated(r, seq) /\ FlushDue(b)
           /\ rec' = b
           /\ lost' = lost \ {seq}
     /\ \E part \in PartialWrites(tries) : archive' = [archive EXCEPT ![rec.date] = @ \o part]
     /\ Persist(r.tip)
     /\ got' = got \cup {seq} /\ failed' = failed \cup {rec.date}
     /\ UNCHANGED <<walVars, passed, conn, day>>

\* Mutant of StopRecorder: no final flush.
StopRecorderUnflushed ==
  /\ rec.up /\ Fault
  /\ rec' = DownRecorder
  /\ conn' = NoConn /\ chan' = <<>>
  /\ UNCHANGED <<walVars, passed, archive, tipFile, day, got, lost, failed>>

\* SIGTERM: the stream is dropped and the buffer flushed; the tip file stays.
\* A failed flush is logged, and the process ends all the same.
StopRecorder ==
  /\ rec.up /\ Fault
  /\ \/ /\ archive' = [archive EXCEPT ![rec.date] = @ \o rec.buf]
        /\ UNCHANGED <<lost, failed>>
     \/ \E part \in PartialWrites(rec.buf) :
          /\ archive' = [archive EXCEPT ![rec.date] = @ \o part]
          /\ lost' = lost \cup (ToSet(rec.buf) \ ToSet(part))
          /\ failed' = failed \cup {rec.date}
  /\ rec' = DownRecorder
  /\ conn' = NoConn /\ chan' = <<>>
  /\ UNCHANGED <<walVars, passed, tipFile, day, got>>

\* The process dies; inside write_record a part of a flush may have landed.
KillRecorder ==
  LET handing == chan # <<>> /\ Head(chan) # CaughtUp
      next == Buffered(rec, Head(chan))
      pending == IF ~handing THEN <<>>
                 ELSE IF rec.date # day THEN rec.buf
                 ELSE IF ~Repeated(rec, Head(chan)) /\ FlushDue(next) THEN next.buf
                 ELSE <<>>
  IN /\ rec.up /\ Fault
     /\ \E part \in PartialWrites(pending) \cup {<<>>, pending} :
          /\ archive' = [archive EXCEPT ![rec.date] = @ \o part]
          /\ lost' = lost \cup (ToSet(rec.buf) \ ToSet(part))
     /\ rec' = DownRecorder
     /\ conn' = NoConn /\ chan' = <<>>
     /\ UNCHANGED <<walVars, passed, tipFile, day, got, failed>>

\* RecorderState::new and ReplicationConsumer::new.
StartRecorder ==
  /\ ~rec.up
  /\ rec' = NewRecorder(tipFile, LastArchived(day))
  /\ UNCHANGED <<walVars, passed, faults, conn, chan, tipFile, archive, got, lost, failed, day>>

\* Mutant of EndOfStream: the tip is persisted but the loop does not reconnect.
EndOfStreamStays ==
  /\ rec.up /\ conn.pc = "closing" /\ chan = <<>>
  /\ rec' = [rec EXCEPT !.caughtUp = FALSE]
  /\ tipFile' = rec.tip
  /\ UNCHANGED <<walVars, passed, faults, conn, chan, archive, day, got, lost, failed>>

\* The end of the connection as the consumer sees it: at EOF, behind the last
\* record sent, the tip is persisted; on an error it is not.
EndOfStream ==
  /\ rec.up /\ conn.pc = "closing" /\ chan = <<>>
  /\ conn' = NoConn /\ rec' = [rec EXCEPT !.caughtUp = FALSE]
  /\ tipFile' = rec.tip
  /\ UNCHANGED <<walVars, passed, faults, chan, archive, day, got, lost, failed>>

BreakConnection ==
  /\ rec.up /\ conn.pc # "off" /\ Fault
  /\ conn' = NoConn /\ chan' = <<>> /\ rec' = [rec EXCEPT !.caughtUp = FALSE]
  /\ UNCHANGED <<walVars, passed, tipFile, archive, day, got, lost, failed>>

NextDay ==
  /\ day < MaxDay
  /\ day' = day + 1
  /\ UNCHANGED <<walVars, passed, faults, conn, chan, recVars>>

Consumer == Receive \/ ReceiveCaughtUp \/ EndOfStream

-----------------------------------------------------------------------------

Others == UNCHANGED <<conn, chan, passed, recVars, day>>

\* The producer dies and its connections with it.
Kill ==
  /\ KillWriter
  /\ conn' = IF conn.pc = "off" THEN conn ELSE [NoConn EXCEPT !.pc = "closing"]
  /\ UNCHANGED <<chan, passed, recVars, day>>

Next ==
  \/ (AppendRecord \/ WriterStep \/ WriterFault \/ OpenWriter) /\ Others
  \/ Kill
  \/ Accept \/ Server
  \/ Consumer \/ ReceiveFails
  \/ StopRecorder \/ KillRecorder \/ StartRecorder \/ BreakConnection
  \/ NextDay

\* Every loop runs on; operators restart what died.  Faults (a
\* shutdown is counted as one) and appends owe nothing.
Fairness ==
  /\ WF_vars(WriterStep /\ Others)
  /\ WF_vars(OpenWriter /\ Others)
  /\ WF_vars(Accept) /\ WF_vars(Server) /\ WF_vars(Consumer)
  /\ WF_vars(StartRecorder)

Spec == Init /\ [][Next]_vars
FairSpec == Spec /\ Fairness

-----------------------------------------------------------------------------
(* Properties.                                                             *)

\* Files, writer, connection and recorder have their types.
TypeOK ==
  /\ WalTypeOK
  /\ conn.pc \in {"off", "list", "read", "closing"}
  /\ chan \in Seq(0 .. MaxSeq)
  /\ rec.tip \in 0 .. MaxSeq /\ tipFile \in 0 .. MaxSeq
  /\ archive \in [Days -> Seq(0 .. MaxSeq)]

AllFrames == FoldLeft(LAMBDA acc, seg : acc \o seg.recs, <<>>, segs)
               \o (IF active = NoFile THEN <<>> ELSE Whole(active))

\* Whatever rotation, failed flushes and restarts do, a segment's name is the
\* range of the records in it: readers choose files by name alone.
NamesAreExact ==
  \A i \in DOMAIN segs :
    /\ segs[i].recs # <<>>
    /\ segs[i].first = segs[i].recs[1] /\ segs[i].last = Last(segs[i].recs)

\* The files, in order, hold the stream without a hole and without a
\* repetition, although a failed flush is written again; and every record the
\* writer counts as flushed and retention keeps is there.
FlushedExactlyOnce ==
  /\ \A i \in 1 .. Len(AllFrames) - 1 : AllFrames[i + 1] = AllFrames[i] + 1
  /\ \A s \in 1 .. w.flushed : s \in OnDisk \/ s < Oldest \/ Oldest = None

\* A NAK that falls back to the log is answered with any record still on
\* disk, at every point of a rotation.
RetransmitFindsIt == \A s \in OnDisk : ReadRecordAtSeq(s)

\* The files are the stream: named for what they hold, each record once, and
\* each one found.
FilesHoldTheStream == NamesAreExact /\ FlushedExactlyOnce /\ RetransmitFindsIt

\* The server passes over the record a follower needs next only if (1) it said
\* CAUGHT_UP with nothing to send, and so tails from behind the request, (2)
\* the active file was rotated after the directory was listed, or (3) the
\* record's segment was pruned under a request that had been accepted.
PassesOverOnlyIf ==
  [][passed' # passed =>
       \/ conn.live /\ conn.want = conn.from
       \/ conn.files # ListFiles
       \/ conn.want < Oldest]_vars

\* On one connection the records ascend, whatever is rotated, pruned or
\* written meanwhile: nothing is sent twice.
StreamAscends ==
  [][conn.pc = "read" /\ Len(chan') > Len(chan) =>
       \A i \in Len(chan) + 1 .. Len(chan') :
         chan'[i] # CaughtUp =>
           /\ chan'[i] >= conn.want
           /\ i > Len(chan) + 1 => chan'[i] > chan'[i - 1]]_vars

\* What a connection carries is in order, and passes over a record in the
\* three cases only.
StreamIsFaithful == PassesOverOnlyIf /\ StreamAscends

\* What a reader of the day files finds: it stops at the first torn frame.
Archived == UNION {ToSet(WholePrefix(archive[d])) : d \in Days}

\* What was written behind a torn frame: the day's file is opened to append
\* and its torn end is not cut.
Buried == UNION {ToSet(archive[d]) : d \in Days} \ (Archived \cup {Torn})

\* A record the recorder was given and will not ask for again can be read in
\* the archive or is buffered.  The exceptions: a crash, a failed rotation or
\* a failed flush at shutdown took it; it was written behind a frame that one
\* of these tore; or a connection had gone past it before, so that it looked
\* like a repetition.  A shutdown whose flush succeeds takes none.
TipIsCovered ==
  \A s \in got : s <= tipFile =>
    s \in Archived \cup Buried \cup lost \cup passed \/ (rec.up /\ s \in ToSet(rec.buf))

\* What can be read of a day's file ascends: records streamed again after a
\* restart are recognised.  Only a failed write, whose buffer is written again
\* behind what had landed, repeats them.
DayAscends ==
  \A d \in Days \ failed : LET whole == WholePrefix(archive[d])
                           IN \A i \in 1 .. Len(whole) - 1 : whole[i] < whole[i + 1]

\* The archive keeps what the persisted tip says was received, in order.
ArchiveIsFaithful == TipIsCovered /\ DayAscends

\* The archive is the complete log of the stream: what was given to the recorder
\* and not lost with its buffer can be read.
ArchiveIsReadable == Buried = {}

\* No gap: the recorder was given every record up to its tip.
NoGap == \A s \in 1 .. rec.tip : s \in got \/ Oldest > s

\* A follower ends up behind everything on disk, and each of these records was
\* handed to it or passed over in one of the three cases of PassesOverOnlyIf;
\* or it is refused for a pruned record, or waits behind the record it was told
\* it had.
FollowerCatchesUp ==
  <>[](\/ OnDisk \subseteq (got \cup passed) \cap 1 .. rec.tip
       \/ ~CanServe(rec.tip + 1)
       \/ conn.live /\ conn.want = conn.from)
=============================================================================
