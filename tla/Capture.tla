------------------------------ MODULE Capture ------------------------------
(***************************************************************************)
(* The capture of a feed: the terminal's pipe, the adapter that checks     *)
(* every record, the recorder that appends it to the segmented log, the    *)
(* thread that compresses sealed segments, and a tailer in another process *)
(* that reads the log while it grows. The recorder process or the machine  *)
(* may fail between any two writes; a restart recovers the last segment.   *)
(* The execution log uses the same segments without feed and compressor.   *)
(*                                                                         *)
(* Everything two processes can see happen separately is a step of its     *)
(* own: a frame, a boundary slot half written, a slot complete, a file     *)
(* created, its sidecar created, its header written, a sidecar emptied and *)
(* rewritten; and, in the tailer, each frame that its stream takes from    *)
(* the file, before and after the one look at the sidecar.                 *)
(***************************************************************************)
EXTENDS Segments

CONSTANTS Scenarios,       \* which log, whether it is tailed, how often which fault may happen
          SegmentFrames,   \* segment_data_bytes, in frames
          QueueCapacity,   \* of the compression queue
          BufferCapacity,  \* of the tailer
          MaxEvents

FaultKinds == {"crash",    \* the recorder process dies
               "power",    \* the machine fails: what was not flushed may be lost
               "wire",     \* a gap, a repetition, a record of an old session, a lost connection
               "compress", \* a compression fails
               "timed",    \* segments may be rotated because of their age
               "tailer",   \* the tailer process is started again
               "segment"}  \* no fault: a segment is created, as long as there is room

ASSUME CaptureAssumption ==
  /\ Scenarios \subseteq [stream : {"market", "execution"}, tailed : BOOLEAN,
                           faults : [FaultKinds -> Nat]]
  /\ \A n \in {SegmentFrames, QueueCapacity, BufferCapacity, MaxEvents} : n \in Nat \ {0}

VARIABLES stream,   \* which log
          disk,     \* the segments, in index order
          rec,      \* the recorder process
          safe,     \* of the last segment: what was flushed, and the sidecar's contents since
          jobs,     \* the compression queue
          tail,     \* the tailer process
          kept,     \* history: records that no fault so far may have lost
          left      \* how often each of these may still happen

captureVars == <<stream, disk, rec, safe, jobs, tail, kept, left>>

Fault(f) == left[f] > 0 /\ left' = [left EXCEPT ![f] = @ - 1]

\* A session has the number of the first segment it opens; ts counts events since the machine
\* started; last is the source's number of the last record (0: none yet); pending is the
\* record to append; recovering and lost_power are history: the segments a recovery has
\* accepted, whether the power ever failed.
NoRecord == Zeros
Process == [phase |-> "down", session |-> 0, ts |-> 0, last |-> 0, pending |-> NoRecord,
            generation |-> 0, rotated |-> 0, ends |-> FALSE, compression_failed |-> FALSE,
            events |-> 0, recovering |-> {}, lost_power |-> FALSE]

Cursor(segment, frames) == [segment |-> segment, frames |-> frames]

\* The tailer's reader: the frames its stream has taken from the file, the file's size when it
\* was opened, the boundary.
NoReader == [frames |-> <<>>, size |-> 0, boundary |-> 0]

NothingSafe == [header |-> FALSE, frames |-> 0, metas |-> {NoMeta}]

CaptureInit ==
  \E s \in Scenarios :
        /\ stream = s.stream /\ left = s.faults
        /\ disk = <<>> /\ rec = Process /\ safe = NothingSafe /\ jobs = <<>>
        /\ tail = [phase |-> IF s.tailed THEN "next" ELSE "absent", cursor |-> Cursor(1, 0),
                   catalog |-> 0, reader |-> NoReader, buffer |-> <<>>, run |-> <<>>, base |-> 0,
                   corrupt |-> FALSE, torn |-> FALSE, dropped |-> FALSE]
        /\ kept = {}

last == Len(disk)
current == disk[last]
Stopped == [rec EXCEPT !.phase = "down", !.last = 0, !.pending = NoRecord, !.rotated = 0,
                       !.ends = FALSE, !.compression_failed = FALSE]
Go(phase) == rec' = [rec EXCEPT !.phase = phase]
-----------------------------------------------------------------------------
(* Opening the log. *)

\* A start finds the last segment and repairs it before it opens the next. The execution log
\* is always opened at its first segment, which must not exist.
Start ==
  /\ rec.phase = "down"
  /\ stream = "execution" => disk = <<>>
  /\ rec' = [rec EXCEPT !.phase = IF disk = <<>> THEN "create" ELSE "recover", !.session = last + 1]
  /\ UNCHANGED <<stream, disk, safe, jobs, tail, kept, left>>

WalWriter_recover ==
  /\ rec.phase = "recover"
  /\ IF recoverable(current)
     THEN /\ disk' = [disk EXCEPT ![last] = truncate_to_valid(@)]
          /\ rec' = [rec EXCEPT !.phase = "empty_meta", !.recovering = @ \cup {last},
                                !.generation = select_boundary(current.meta).generation]
     ELSE Go("failed") /\ UNCHANGED disk
  /\ UNCHANGED <<stream, safe, jobs, tail, kept, left>>

\* The sidecar is opened with truncation, then written.
EmptyMetadata ==
  /\ rec.phase = "empty_meta"
  /\ disk' = [disk EXCEPT ![last].meta = NoMeta]
  /\ Go("write_meta")
  /\ UNCHANGED <<stream, safe, jobs, tail, kept, left>>

WriteMetadata ==
  /\ rec.phase = "write_meta"
  /\ disk' = [disk EXCEPT ![last] = write_recovered_metadata(@, rec.generation)]
  /\ Go("recompress")
  /\ UNCHANGED <<stream, safe, jobs, tail, kept, left>>

Recompress ==
  /\ rec.phase = "recompress"
  /\ \/ disk' = [disk EXCEPT ![last] = IF @.zst.present THEN @ ELSE compress_closed_segment(@)]
        /\ Go("create") /\ UNCHANGED left
     \/ ~current.zst.present /\ Fault("compress") /\ Go("failed") /\ UNCHANGED disk
  /\ UNCHANGED <<stream, safe, jobs, tail, kept>>

Failed ==  \* RECOVERY_FAIL: the process ends
  /\ rec.phase = "failed"
  /\ Go("down")
  /\ UNCHANGED <<stream, disk, safe, jobs, tail, kept, left>>

\* open_segment: the file, its sidecar, then header and slots, and a flush.
open_segment_File ==
  /\ rec.phase = "create" /\ Fault("segment")
  /\ disk' = Append(disk, NewSegment)
  /\ safe' = NothingSafe
  /\ Go("init")
  /\ UNCHANGED <<stream, jobs, tail, kept>>

open_segment_Header ==
  /\ rec.phase = "init"
  /\ disk' = [disk EXCEPT ![last].header = TRUE]
  /\ Go("slots")
  /\ UNCHANGED <<stream, safe, jobs, tail, kept, left>>

FirstSlots == <<make_slot(1, 0), make_slot(2, 0)>>

\* The sidecar is 64 bytes of one page, and its memory is a file's: at any moment the system
\* may write the page out as it is.
Exposed(metas) == safe' = [safe EXCEPT !.metas = @ \cup metas]

open_segment_Slots ==
  /\ rec.phase = "slots"
  /\ disk' = [disk EXCEPT ![last].meta = FirstSlots]
  /\ Exposed({<<FirstSlots[1], BadSlot>>, FirstSlots})
  /\ Go("flush")
  /\ UNCHANGED <<stream, jobs, tail, kept, left>>

flush == [header |-> current.header, frames |-> Len(current.data), metas |-> {current.meta}]

open_segment_Flush ==
  /\ rec.phase = "flush"
  /\ safe' = flush
  /\ rec' = [rec EXCEPT !.generation = 2,
                        !.phase = CASE rec.pending # NoRecord -> "frame"
                                    [] rec.pending = NoRecord /\ stream = "market" -> "connect"
                                    [] OTHER -> "read"]
  /\ UNCHANGED <<stream, disk, jobs, tail, kept, left>>
-----------------------------------------------------------------------------
(* The feed. *)

\* The terminal must speak the protocol and belong to the expected session, account, server
\* and margin mode.
validate_handshake == {"accept", "refuse"}

Handshake ==
  /\ rec.phase = "connect"
  /\ \E verdict \in validate_handshake :
       /\ IF verdict = "accept" THEN UNCHANGED left ELSE Fault("wire")
       /\ Go(IF verdict = "accept" THEN "read" ELSE "finish")
  /\ UNCHANGED <<stream, disk, safe, jobs, tail, kept>>

Received == [seq : {rec.last, rec.last + 1, rec.last + 2} \ {0}, current_epoch : BOOLEAN]
Regular(w) == w.current_epoch /\ w.seq = rec.last + 1

\* SequenceTracker: the first record synchronises, a gap and a repetition are told apart.
observe(seq) == CASE rec.last = 0          -> "synchronized"
                  [] rec.last # 0 /\ seq = rec.last + 1 -> "in_order"
                  [] rec.last # 0 /\ seq <= rec.last    -> "stale_or_duplicate"
                  [] OTHER                 -> "gap"

\* Mutant: a gap is counted and the record taken.
validate_prefix_GapAccepted(w) ==
  CASE ~w.current_epoch -> "stale_epoch"
    [] w.current_epoch /\ observe(w.seq) = "stale_or_duplicate" -> "stale_sequence"
    [] OTHER -> "accepted"

validate_prefix(w) ==
  CASE ~w.current_epoch -> "stale_epoch"
    [] w.current_epoch /\ observe(w.seq) = "gap" -> "sequence_gap"
    [] w.current_epoch /\ observe(w.seq) = "stale_or_duplicate" -> "stale_sequence"
    [] OTHER -> "accepted"

\* A quote or a heartbeat becomes the next event; the heartbeat of a terminal that lost its
\* connection is recorded and is the last one.
Accept(seq, disconnected) ==
  rec' = [rec EXCEPT !.phase = "drain", !.last = seq, !.ts = @ + 1, !.events = @ + 1,
                     !.ends = disconnected, !.pending = FixedEvent(rec.session, seq, rec.ts + 1)]

Ingest ==
  /\ rec.phase = "read" /\ stream = "market" /\ rec.events < MaxEvents
  /\ \E w \in Received, disconnected \in BOOLEAN :
       /\ IF Regular(w) /\ ~disconnected THEN UNCHANGED left ELSE Fault("wire")
       /\ IF validate_prefix(w) = "accepted" THEN Accept(w.seq, disconnected) ELSE Go("finish")
  /\ UNCHANGED <<stream, disk, safe, jobs, tail, kept>>

\* The pipe ends.
EndOfStream ==
  /\ rec.phase = "read" /\ Go("finish")
  /\ UNCHANGED <<stream, disk, safe, jobs, tail, kept, left>>

\* The execution log appends what it is handed.
ExecutionWalWriter_append ==
  /\ rec.phase = "read" /\ stream = "execution" /\ rec.events < MaxEvents
  /\ Accept(rec.last + 1, FALSE)
  /\ UNCHANGED <<stream, disk, safe, jobs, tail, kept, left>>
-----------------------------------------------------------------------------
(* The recorder. *)

Committed == select_boundary(current.meta).committed

KeepFlushed == kept \cup Range(current.data)

\* Mutant: the job names the segment that is about to be opened.
Sealed_Next == last + 1
Sealed == last

\* rotate: flush, truncate to the boundary, open the next segment.
Rotate ==
  /\ rec.phase = "drain"
  /\ Committed + 1 > SegmentFrames \/ left["timed"] > 0
  /\ disk' = [disk EXCEPT ![last].sealed = TRUE]
  /\ safe' = flush
  /\ kept' = KeepFlushed
  /\ rec' = [rec EXCEPT !.phase = "create", !.rotated = Sealed]
  /\ UNCHANGED <<stream, jobs, tail, left>>

NeedsNoRotation ==
  /\ rec.phase = "drain" /\ Committed + 1 <= SegmentFrames
  /\ Go("frame")
  /\ UNCHANGED <<stream, disk, safe, jobs, tail, kept, left>>

\* append: the frame, then the slot of the next generation. A reader may see both half
\* written, and a process may die there.
HalfAppended ==
  /\ rec.phase = "frame"
  /\ disk' = [disk EXCEPT ![last].data = Append(@, Torn)]
  /\ Go("append")
  /\ UNCHANGED <<stream, safe, jobs, tail, kept, left>>

append ==
  /\ rec.phase = "append"
  /\ disk' = [disk EXCEPT ![last].data[Len(current.data)] = rec.pending]
  /\ Go("tear")
  /\ UNCHANGED <<stream, safe, jobs, tail, kept, left>>

\* Mutant: both boundaries are in the same slot.
PublishSlot_Same == 1

PublishSlot == SlotOf(rec.generation + 1)

Published(slot) == [current.meta EXCEPT ![PublishSlot] = slot]

HalfPublished ==
  /\ rec.phase = "tear"
  /\ disk' = [disk EXCEPT ![last].meta = Published(BadSlot)]
  /\ Exposed({Published(BadSlot)})
  /\ Go("publish")
  /\ UNCHANGED <<stream, jobs, tail, kept, left>>

publish_boundary ==
  /\ rec.phase = "publish"
  /\ LET meta == Published(make_slot(rec.generation + 1, Len(current.data)))
     IN  disk' = [disk EXCEPT ![last].meta = meta] /\ Exposed({meta})
  /\ kept' = kept \cup {rec.pending}
  /\ rec' = [rec EXCEPT !.generation = @ + 1, !.pending = NoRecord, !.phase = "committed"]
  /\ UNCHANGED <<stream, jobs, tail, left>>

QueueFull == Len(jobs) >= QueueCapacity

\* After a rotation the sealed segment goes to the compressor; a full queue ends the capture.
\* The flush interval may have passed.
Commit ==
  /\ rec.phase = "committed"
  /\ LET rotated == stream = "market" /\ rec.rotated # 0
         full    == rotated /\ QueueFull
     IN  /\ jobs' = IF rotated /\ ~full THEN Append(jobs, rec.rotated) ELSE jobs
         /\ \E flushes \in BOOLEAN : safe' = IF flushes /\ ~full THEN flush ELSE safe
         /\ rec' = [rec EXCEPT !.rotated = 0,
                               !.phase = IF full \/ rec.ends \/ rec.compression_failed
                                         THEN "finish" ELSE "read"]
  /\ UNCHANGED <<stream, disk, tail, kept, left>>

Finalize ==
  /\ rec.phase = "finish"
  /\ disk' = [disk EXCEPT ![last].sealed = TRUE]
  /\ safe' = flush
  /\ rec' = IF stream = "market" THEN [rec EXCEPT !.phase = "push", !.rotated = last] ELSE Stopped
  /\ UNCHANGED <<stream, jobs, tail, kept, left>>

\* The last segment waits for room in the queue, unless a compression has failed; then the
\* process waits for the compressor.
PushFinal ==
  /\ rec.phase = "push"
  /\ \/ ~QueueFull /\ jobs' = Append(jobs, rec.rotated)
     \/ QueueFull /\ rec.compression_failed /\ UNCHANGED jobs
  /\ rec' = [rec EXCEPT !.phase = "join", !.rotated = 0]
  /\ UNCHANGED <<stream, disk, safe, tail, kept, left>>

Join ==
  /\ rec.phase = "join" /\ jobs = <<>>
  /\ rec' = Stopped
  /\ UNCHANGED <<stream, disk, safe, jobs, tail, kept, left>>

\* The compressor thread. The recorder ends when it sees that a compression failed.
Compress ==
  /\ jobs # <<>> /\ rec.phase # "down"
  /\ jobs' = Tail(jobs)
  /\ \/ disk' = [disk EXCEPT ![Head(jobs)] = compress_closed_segment(@)] /\ UNCHANGED <<rec, left>>
     \/ Fault("compress") /\ rec' = [rec EXCEPT !.compression_failed = TRUE] /\ UNCHANGED disk
  /\ UNCHANGED <<stream, safe, tail, kept>>
-----------------------------------------------------------------------------
(* Failures. *)

\* The operating system keeps what was written.
ProcessCrash ==
  /\ rec.phase \notin {"down", "failed"} /\ Fault("crash")
  /\ rec' = Stopped /\ jobs' = <<>>
  /\ UNCHANGED <<stream, disk, safe, tail, kept>>

StoppedTailer == [tail EXCEPT !.phase = "stopped", !.catalog = 0, !.reader = NoReader,
                              !.buffer = <<>>, !.run = <<>>, !.base = 0, !.corrupt = FALSE,
                              !.torn = FALSE, !.dropped = FALSE]

\* The outcomes of losing power: each frame that was not flushed is there, zero or torn; the
\* sidecar is as it was at some moment since the flush (a sector is written whole). Both
\* processes end, the local clock starts over, and what is on disk then stays there.
Survivors(data) ==
  {d \in [1 .. Len(data) -> Range(data) \cup {Zeros, Torn}] :
     \A i \in 1 .. Len(data) : IF i <= safe.frames THEN d[i] = data[i] ELSE d[i] \in {data[i], Zeros, Torn}}

\* A compressed copy was never flushed: it is there, it is not, or its name leads to a file
\* whose content is not. What an earlier loss of power has left stays.
CopySurvivors(zst) == IF ~zst.present \/ zst.exposed THEN {zst}
                      ELSE {NoZst, [zst EXCEPT !.exposed = TRUE],
                            [zst EXCEPT !.exposed = TRUE, !.data = <<Torn>>]}

CopiesAfter == {z \in [1 .. last -> UNION {CopySurvivors(disk[i].zst) : i \in 1 .. last}] :
                  \A i \in 1 .. last : z[i] \in CopySurvivors(disk[i].zst)}

PowerLoss ==
  /\ disk # <<>> /\ Fault("power")
  /\ \E data \in Survivors(current.data), header \in BOOLEAN, meta \in safe.metas, zst \in CopiesAfter :
       LET unflushed == [current EXCEPT !.data = data, !.meta = meta,
                                        !.header = @ /\ (header \/ safe.header)]
           raw       == IF current.sealed THEN disk ELSE [disk EXCEPT ![last] = unflushed]
       IN  disk' = [i \in 1 .. last |-> [raw[i] EXCEPT !.zst = zst[i]]]
  /\ kept' = IF current.sealed THEN kept
             ELSE kept \ (Range(current.data) \ Range(SubSeq(current.data, 1, safe.frames)))
  /\ rec' = [Stopped EXCEPT !.ts = 0, !.lost_power = TRUE] /\ jobs' = <<>>
  /\ tail' = IF tail.phase = "absent" THEN tail ELSE StoppedTailer
  /\ safe' = flush'
  /\ UNCHANGED stream
-----------------------------------------------------------------------------
(* The tailer. *)

FramesBefore(c) == Len(Recorded(SubSeq(disk, 1, Smaller(c.segment - 1, Len(disk)))))
                   + IF c.segment <= Len(disk) THEN Smaller(c.frames, Len(Readable(disk[c.segment]))) ELSE 0

\* A start resumes at the cursor that was saved last, which may be any the tailer has passed.
Passed == {Cursor(s, n) : s \in 1 .. tail.cursor.segment - 1, n \in 0 .. SegmentFrames}
          \cup {Cursor(tail.cursor.segment, n) : n \in 0 .. tail.cursor.frames}

open_tailer ==
  /\ tail.phase = "stopped"
  /\ \E saved \in Passed :
       tail' = [tail EXCEPT !.phase = "next", !.cursor = saved, !.base = FramesBefore(saved)]
  /\ UNCHANGED <<stream, disk, rec, safe, jobs, kept, left>>

TailerCrash ==
  /\ tail.phase \notin {"stopped", "absent"} /\ Fault("tailer")
  /\ tail' = StoppedTailer
  /\ UNCHANGED <<stream, disk, rec, safe, jobs, kept>>

Deliver(t) == [t EXCEPT !.phase = "next", !.buffer = Tail(@), !.run = Append(@, Head(t.buffer)),
                        !.catalog = 0, !.reader = NoReader, !.cursor.frames = @ + 1]

NextBuffered ==
  /\ tail.phase = "next" /\ tail.buffer # <<>>
  /\ tail' = Deliver(tail)
  /\ UNCHANGED <<stream, disk, rec, safe, jobs, kept, left>>

rescan ==
  /\ tail.phase = "next" /\ tail.buffer = <<>> /\ ~tail.corrupt /\ disk # <<>>
  /\ tail.cursor.segment <= scan(disk)
  /\ tail' = [tail EXCEPT !.phase = "fill", !.catalog = scan(disk)]
  /\ UNCHANGED <<stream, disk, rec, safe, jobs, kept, left>>

segment == disk[tail.cursor.segment]

\* A file is as long as it was preallocated until it is sealed.
physical_data(seg) == IF seg.sealed THEN Len(seg.data) ELSE SegmentFrames

\* What a read at a position gives now: behind the last frame zeros, behind the end of the
\* file nothing, which to the reader is an incomplete frame.
FrameAt(seg, i) == CASE i <= Len(seg.data)                -> seg.data[i]
                     [] i > Len(seg.data) /\ seg.sealed   -> Torn
                     [] i > Len(seg.data) /\ ~seg.sealed  -> Zeros

WalReader_open ==
  /\ tail.phase = "fill"
  /\ tail' = IF open_ok(segment)
             THEN [tail EXCEPT !.phase = "ahead", !.reader.size = physical_data(segment)]
             ELSE [tail EXCEPT !.phase = "advance"]
  /\ UNCHANGED <<stream, disk, rec, safe, jobs, kept, left>>

\* The segment as the reader knows it, and what it has read of it.
Taken == [segment EXCEPT !.data = tail.reader.frames]
Scanned == ValidPrefix(Taken, tail.reader.boundary)

\* The scan ends at a bad frame, at the boundary or with a full buffer.
ScanEnds == LET r == tail.reader
            IN  \/ Len(Scanned) < Len(r.frames) \/ Len(r.frames) >= r.boundary
                \/ Len(Scanned) >= tail.cursor.frames + BufferCapacity

\* RawFileStream: with the header the stream takes as many frames as its buffer has room for,
\* at least one, before the sidecar is read; the others follow as the scan needs them.
RawFileStream_read ==
  /\ \/ tail.phase = "ahead" /\ Len(tail.reader.frames) < tail.reader.size
     \/ tail.phase = "read" /\ ~ScanEnds
  /\ tail' = [tail EXCEPT !.reader.frames = Append(@, FrameAt(segment, Len(@) + 1))]
  /\ UNCHANGED <<stream, disk, rec, safe, jobs, kept, left>>

\* Something that was taken ahead, and is not zero, is no longer what the file holds.
Overtaken(limit) ==
  \E i \in 1 .. Smaller(Len(tail.reader.frames), limit) :
    tail.reader.frames[i] \notin {Zeros, FrameAt(segment, i)}

\* torn and dropped are history. A frame half written when it was taken is within the boundary
\* that is read now; or the boundary is guessed from the size of a file that a recovery has
\* cut meanwhile, and counts what the recovery has dropped.
WalReader_resolve_boundary ==
  /\ tail.phase = "ahead" /\ (tail.reader.frames # <<>> \/ tail.reader.size = 0)
  /\ LET limit == resolve_boundary(segment, tail.reader.size)
         named == valid_slot(select_boundary(segment.meta))
         cut   == tail.reader.size > physical_data(segment)
     IN  tail' = [tail EXCEPT !.phase = "read", !.reader.boundary = limit,
                              !.torn = @ \/ (named /\ Overtaken(limit)),
                              !.dropped = @ \/ (~named /\ (cut \/ Overtaken(limit)))]
  /\ UNCHANGED <<stream, disk, rec, safe, jobs, kept, left>>

\* The segment is read from its start and what the cursor accounts for is skipped.
Undelivered(read, consumed) ==
  SubSeq(read.records, consumed + 1, Smaller(Len(read.records), consumed + BufferCapacity))
Filled(read) ==
  LET new == Undelivered(read, tail.cursor.frames)
  IN  IF Len(new) < BufferCapacity /\ ~read.clean
      THEN [tail EXCEPT !.phase = "next", !.catalog = 0, !.reader = NoReader, !.corrupt = TRUE]
      ELSE IF new = <<>> THEN [tail EXCEPT !.phase = "advance", !.reader = NoReader]
      ELSE Deliver([tail EXCEPT !.buffer = new])

WalTailer_fill == Filled(next(Taken, tail.reader.boundary))
ExecutionWalTailer_fill == Filled(next_raw(Taken, tail.reader.boundary))

fill_from_current_segment ==
  /\ tail.phase = "read" /\ ScanEnds
  /\ tail' = IF stream = "market" THEN WalTailer_fill ELSE ExecutionWalTailer_fill
  /\ UNCHANGED <<stream, disk, rec, safe, jobs, kept, left>>

\* Mutant: whether a later segment exists is looked up again.
Later_Now == Len(disk)

\* Mutant: the tailer stays in its segment.
Later_Never == 0

\* The catalog is the one that was scanned before the segment was read: a later segment in it
\* proves that the segment was complete then.
Later == tail.catalog

\* Without a later segment the tailer is idle and is polled again.
Advance ==
  /\ tail.phase = "advance"
  /\ tail' = [tail EXCEPT !.phase = "next", !.catalog = 0,
                          !.cursor = IF @.segment < Later THEN Cursor(@.segment + 1, 0) ELSE @]
  /\ UNCHANGED <<stream, disk, rec, safe, jobs, kept, left>>

TailerStep == \/ open_tailer \/ NextBuffered \/ rescan
              \/ WalReader_open \/ RawFileStream_read \/ WalReader_resolve_boundary
              \/ fill_from_current_segment \/ Advance
-----------------------------------------------------------------------------
CaptureNext ==
  \/ Start \/ WalWriter_recover \/ EmptyMetadata \/ WriteMetadata \/ Recompress \/ Failed
  \/ open_segment_File \/ open_segment_Header \/ open_segment_Slots \/ open_segment_Flush
  \/ Handshake \/ Ingest \/ EndOfStream \/ ExecutionWalWriter_append
  \/ Rotate \/ NeedsNoRotation \/ HalfAppended \/ append \/ HalfPublished \/ publish_boundary \/ Commit
  \/ Finalize \/ PushFinal \/ Join \/ Compress
  \/ ProcessCrash \/ PowerLoss
  \/ TailerCrash \/ TailerStep

\* The tailer is polled for ever, and a stopped one is started again.
Fairness == WF_captureVars(TailerStep)

CaptureSpec == CaptureInit /\ [][CaptureNext]_captureVars /\ Fairness
-----------------------------------------------------------------------------
RecorderPhases == {"down", "recover", "empty_meta", "write_meta", "recompress", "failed",
                   "create", "init", "slots", "flush", "connect", "read", "drain", "frame",
                   "append", "tear", "publish", "committed", "finish", "push", "join"}
Recorder == [phase : RecorderPhases, session : Nat, ts : Nat, last : Nat, pending : Frame,
             generation : Nat, rotated : Nat, ends : BOOLEAN, compression_failed : BOOLEAN,
             events : 0 .. MaxEvents, recovering : SUBSET Nat, lost_power : BOOLEAN]
Tailer == [phase : {"next", "fill", "ahead", "read", "advance", "stopped", "absent"},
           cursor : [segment : Nat \ {0}, frames : Nat], catalog : Nat,
           reader : [frames : Seq(Frame), size : Nat, boundary : Nat], buffer : Seq(Frame),
           run : Seq(Frame), base : Nat, corrupt : BOOLEAN, torn : BOOLEAN, dropped : BOOLEAN]

CaptureTypeOK == /\ stream \in {"market", "execution"}
                 /\ disk \in Seq(Segment)
                 /\ rec \in Recorder /\ tail \in Tailer
                 /\ safe \in [header : BOOLEAN, frames : Nat, metas : SUBSET Sidecar]
                 /\ jobs \in Seq(1 .. Len(disk)) /\ Len(jobs) <= QueueCapacity
                 /\ kept \subseteq Frame /\ left \in [FaultKinds -> Nat]

\* What was committed survives the death of the process, and what was flushed survives the
\* loss of power, at every moment: while a slot is half written, between the steps of a
\* rotation, and while a recovery rewrites the sidecar.
KeptReadable == kept \subseteq Range(Recorded(disk))

\* The log has no holes: the records of a session follow one another without gap, repetition
\* or interleaving, across rotations, failures and recoveries.
RecordsContiguous ==
  LET r == Recorded(disk)
  IN  \A i \in 1 .. Len(r) - 1 : \/ r[i + 1].sess > r[i].sess
                                 \/ r[i + 1].sess = r[i].sess /\ r[i + 1].src = r[i].src + 1

\* A compressed copy holds what its segment holds, also after a recovery, and nothing that is
\* still being written is compressed; only a copy that was there when the power failed may be
\* empty.
ZstFaithful == \A i \in 1 .. Len(disk) : LET zst == disk[i].zst IN
                 zst.present => disk[i].sealed /\ (zst.data = disk[i].data \/ zst.exposed)

\* The tailer delivers exactly what the log holds, from where it was started: nothing skipped
\* when a segment is rotated behind its back, nothing twice, nothing uncommitted; whatever the
\* recorder did between the reads of a frame and of the sidecar, unless the sidecar was read
\* while a recovery had it empty and the recovery had cut what the tailer took to be there.
TailerExact == tail.phase # "stopped" /\ ~tail.dropped =>
                 tail.run = SubSeq(Recorded(disk), tail.base + 1, tail.base + Len(tail.run))

\* The tailer reports corruption only after a loss of power, or when the recorder overtook it
\* between the read of a frame and that of the sidecar, in one of two ways: the frame was half
\* written and has been committed since, or a recovery has cut the file and emptied the sidecar.
CorruptOnlyWhenOvertaken == tail.corrupt => rec.lost_power \/ tail.torn \/ tail.dropped

Behind == /\ tail.phase # "absent" /\ ~tail.corrupt
          /\ tail.base + Len(tail.run) < Len(Recorded(disk))

\* Every record in the log is delivered in the end, unless the tailer has reported corruption.
TailerCatchesUp == Behind ~> ~Behind

\* What a stopped capture leaves behind can be replayed: a replay without error gives every
\* record that was kept, and there is no error (least of all an order regression between the
\* sessions) but after a loss of power or behind a segment that was never finished.
ReplayFaithful ==
  rec.phase = "down" => LET r == run(disk) IN
    IF r.ok THEN kept \subseteq Range(r.digest)
    ELSE rec.lost_power \/ \E i \in 1 .. Len(disk) : ~open_ok(disk[i])

\* WAL_FORMAT.md: "Repeating recovery is idempotent." A segment that a recovery has accepted
\* is accepted again.
RecoveryRepeats == rec.phase = "failed" /\ ~recoverable(current) => last \notin rec.recovering

\* wal_tailer.hpp: "an unwritten tail is not truncation", corrupt is for a torn frame. While the
\* machine runs the recorder tears none, so a tailer beside it has no corruption to report.
NeverCorruptWhileRunning == tail.corrupt => rec.lost_power
=============================================================================
