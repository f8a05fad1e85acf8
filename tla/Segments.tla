------------------------------ MODULE Segments ------------------------------
(***************************************************************************)
(* One segment of the write-ahead log on disk, and what recovery and the   *)
(* readers make of it. A segment is a data file with a header, the frames  *)
(* and, until it is sealed, preallocated zeros; a sidecar file with two    *)
(* slots that name the committed boundary; and perhaps a compressed copy.  *)
(* Bytes, lengths and checksums are abstracted: a frame is a record, zeros *)
(* or torn, a slot is valid or not, and boundaries count frames.           *)
(***************************************************************************)
EXTENDS Integers, SequencesExt

\* A record has the session it was received in, its number from the source and a local time.
FixedEvent(sess, src, ts) == [sess |-> sess, src |-> src, ts |-> ts]
Zeros == FixedEvent(0, 0, 0)
Torn == FixedEvent(0, -1, 0)
IsRecord(frame) == frame.src > 0

\* Generation 0 stands for a slot whose checksum is wrong.
BadSlot == [generation |-> 0, committed |-> 0]
make_slot(generation, committed) == [generation |-> generation, committed |-> committed]
valid_slot(slot) == slot.generation > 0

\* No sidecar, an empty one and one with two bad slots are the same to everybody.
NoMeta == <<BadSlot, BadSlot>>

\* exposed is history: the power failed while the copy may not have been written to the disk.
NoZst == [present |-> FALSE, data |-> <<>>, exposed |-> FALSE]

\* As CreateFile and SetEndOfFile leave it: no header, nothing but zeros.
NewSegment == [header |-> FALSE, sealed |-> FALSE, data |-> <<>>, meta |-> NoMeta, zst |-> NoZst]

Frame == [sess : Nat, src : Int, ts : Nat]
Slot == [generation : Nat, committed : Nat]
Sidecar == [1 .. 2 -> Slot]
Segment == [header : BOOLEAN, sealed : BOOLEAN, data : Seq(Frame), meta : Sidecar,
            zst : [present : BOOLEAN, data : Seq(Frame), exposed : BOOLEAN]]

\* The highest valid generation wins.
select_boundary(meta) ==
  LET valid == {i \in {1, 2} : valid_slot(meta[i])}
  IN  IF valid = {} THEN BadSlot
      ELSE meta[CHOOSE i \in valid :
             \A j \in valid : meta[i].generation >= meta[j].generation]

\* Generations alternate between the two slots.
SlotOf(generation) == (generation % 2) + 1

Smaller(m, n) == IF m < n THEN m ELSE n

\* The valid frames up to a boundary: the scan stops at the first bad one.
ValidPrefix(seg, boundary) ==
  LET limit == Smaller(boundary, Len(seg.data))
      bad   == {i \in 1 .. limit : ~IsRecord(seg.data[i])}
  IN  SubSeq(seg.data, 1, IF bad = {} THEN limit ELSE Min(bad) - 1)

\* Mutant: the boundary is ignored.
resolve_boundary_File(seg, size) == size

\* WalReader: the sidecar is advisory, without a valid slot the size of the file counts, as it
\* was when the file was opened.
resolve_boundary(seg, size) ==
  LET slot == select_boundary(seg.meta)
  IN  IF valid_slot(slot) THEN Smaller(slot.committed, size) ELSE size

open_ok(seg) == seg.header

\* What reading from the start up to a boundary gives: the records, and why the reader stopped.
\* The boundary and preallocated zeros are clean stops, a torn frame is not.
next(seg, limit) ==
  LET records == ValidPrefix(seg, limit)
  IN  [records |-> records,
       clean   |-> Len(records) = limit \/ seg.data[Len(records) + 1] = Zeros]

\* WalReader::next_raw accepts any payload, which makes no difference at this level.
next_raw(seg, limit) == next(seg, limit)

\* A reader of a log that nobody writes: everything is read at leisure.
ReadAll(seg) == next(seg, resolve_boundary(seg, Len(seg.data)))

\* What a reader that trusts nothing beyond the boundary can get out of the segment.
Readable(seg) == IF open_ok(seg) THEN ReadAll(seg).records ELSE <<>>

\* WalWriter::recover refuses a segment without a usable sidecar or header.
recoverable(seg) == valid_slot(select_boundary(seg.meta)) /\ seg.header

\* Recovery keeps the valid frames up to the committed boundary.
truncate_to_valid(seg) ==
  [seg EXCEPT !.data = ValidPrefix(seg, select_boundary(seg.meta).committed), !.sealed = TRUE]

write_recovered_metadata(seg, generation) ==
  [seg EXCEPT !.meta = <<make_slot(generation + 1, Len(seg.data)),
                         make_slot(generation + 2, Len(seg.data))>>]

\* The copy is decoded and compared with its source before it is given its name. It is never
\* flushed.
compress_closed_segment(seg) ==
  [seg EXCEPT !.zst = [present |-> TRUE, data |-> seg.data, exposed |-> FALSE]]

\* Catalog: the segments in index order, the raw file before its compressed copy. A reader
\* needs the raw one. The recorder numbers segments without gaps.
scan(segments) == Len(segments)

\* Mutant: the source's numbers are compared first.
event_order_regression_Source(previous, e) == e.src < previous.src

event_order_regression(previous, e) ==
  \/ e.ts < previous.ts
  \/ e.ts = previous.ts /\ e.src < previous.src

\* ReplayAdapter: all segments in order, until one cannot be opened, a frame is corrupt or an
\* event sorts before its predecessor.
poll(acc, seg) ==
  IF acc.error # "none" THEN acc
  ELSE IF ~open_ok(seg) THEN [acc EXCEPT !.error = "segment_open_failed"]
  ELSE LET joined == acc.events \o ReadAll(seg).records
           back   == {i \in 2 .. Len(joined) : event_order_regression(joined[i - 1], joined[i])}
       IN  IF back # {}
           THEN [acc EXCEPT !.events = SubSeq(joined, 1, Min(back) - 1), !.error = "order_regression"]
           ELSE [acc EXCEPT !.events = joined,
                            !.error = IF ReadAll(seg).clean THEN "none" ELSE "corrupt_frame"]

replay(segments) ==
  LET polled[k \in 0 .. Len(segments)] ==
        IF k = 0 THEN [events |-> <<>>, error |-> "none"] ELSE poll(polled[k-1], segments[k])
  IN  polled[Len(segments)]

\* ReplayEngine::run: all state is local, and an error leaves no digest. The digest covers
\* every event in order and what book and features make of it, so it stands for the events.
run(segments) ==
  LET r == replay(segments)
  IN  [ok     |-> r.error = "none",
       error  |-> r.error,
       digest |-> IF r.error = "none" THEN r.events ELSE <<>>]

\* Everything that can be read, in order.
Recorded(segments) == FlattenSeq([i \in 1 .. Len(segments) |-> Readable(segments[i])])
=============================================================================
