---------------------------- MODULE LiveJournal ----------------------------
(***************************************************************************)
(* The live journal of the sharded order book, a crash, and the recovery   *)
(* from what is durable: emit_wal on each shard's worker, one outbox per   *)
(* shard, LiveWalRecorder's writer thread, read_and_order_wal and          *)
(* recover_streaming.                                                      *)
(*                                                                         *)
(* Every operation is one step of the worker of its order's shard, each    *)
(* record it pushes another, and the writer thread pops one record, ends a *)
(* pass or flushes per step. Which reports arrive, in sequence or held for *)
(* a gap, is ReportSequencer's business: a step applies a report and, when *)
(* one is held behind it, the next. Prices are left out: emit_wal and      *)
(* recovery agree on them, an unset price standing for 1 on both sides.    *)
(* So are the capacities of the books, and a flush or a tail of the log    *)
(* that fails: the log is what the last flush left, or any longer prefix.  *)
(***************************************************************************)
EXTENDS ExecReports, Sequences, SequencesExt

CONSTANTS Shards,          \* 1 .. shard_count_, in the order the writer visits them
          ShardOf,         \* the shard each order belongs to
          OutboxCapacity,  \* how many records an outbox ring holds
          MaxRecords,      \* max_journal_records, what a Journal holds
          MaxOps,          \* bound: the numbers of operations the orders may take between them
          MaxLosses        \* bound: appends fail while fewer orders have lost a record

ASSUME JournalAssumption == /\ IsFiniteSet(Refs) /\ Cardinality(Refs) <= Capacity
                            /\ Shards \in Nat \ {0}
                            /\ ShardOf \in [Refs -> 1 .. Shards]
                            /\ OutboxCapacity \in Nat \ {0} /\ MaxRecords \in Nat
                            /\ MaxOps \subseteq [Refs -> Nat]
                            /\ MaxLosses \in Nat

VARIABLES mode,     \* "up"; "down" after the crash; then "recovered" or "failed"
          seq,      \* global_seq_
          emitting, \* the records each worker has yet to push for its last operation
          outbox,   \* outboxes_
          wal,      \* the records appended to the log
          flushed,  \* how many of them have been flushed
          writer,   \* the writer thread: loop it is in, shard it visits, `any` of drain_once
          running,  \* running_, cleared by stop()
          ops,      \* operations applied to each order (a reference is never reused)
          owed,     \* history: records stop() found accepted and unflushed, and not yet flushed since
          dropped,  \* history: orders that lost a record to a full outbox or a failed append
          miscounted, \* history: orders a refused fill changed, which makes no record
          drained,  \* history: orders drain() applied a report to, which makes no record
          resized   \* history: orders replaced in a state other than acknowledged

notes == <<dropped, miscounted, drained, resized>>
journalVars == <<omsVars, mode, seq, ops, emitting, outbox, wal, flushed, writer, running, owed, notes>>

Unlogged == miscounted \cup drained

ShardSet == 1 .. Shards

RecordKinds == {"command", "order_state", "acknowledgement", "rejection", "fill",
                "cancel", "replace"}

\* A journal record; x and y are the volumes it carries. `image` is no part of it: the order
\* as the book has it once the record is written, to compare recovery with.
Record == [kind : RecordKinds, ts : Nat, ref : Refs, from : OrderStates, to : OrderStates,
           x : Nat, y : Nat, image : Order]

Rec(kind, r, from, to, x, y, image) ==
  [kind |-> kind, ts |-> seq, ref |-> r, from |-> from, to |-> to, x |-> x, y |-> y,
   image |-> image]

NoState == "new_order"   \* the state fields of a record that has none

JournalInit == /\ OmsInit
               /\ mode = "up"
               /\ seq = 0
               /\ emitting = [s \in ShardSet |-> <<>>]
               /\ outbox = [s \in ShardSet |-> <<>>]
               /\ wal = <<>>
               /\ flushed = 0
               /\ writer = [pc |-> "drain", at |-> 1, any |-> FALSE]
               /\ running = TRUE
               /\ ops = [r \in Refs |-> 0]
               /\ owed = {}
               /\ dropped = {}
               /\ miscounted = {}
               /\ drained = {}
               /\ resized = {}
-----------------------------------------------------------------------------
(* emit_wal: the records of an operation that changed order `o` of reference r. *)

StateRec(r, o, to, image) ==
  Rec("order_state", r, o.state, to, o.filled_volume, o.requested_volume, image)

Confirm(kind, r, image) == Rec(kind, r, NoState, NoState, 0, 0, image)

Moved(o, to) == [o EXCEPT !.state = to]

TransitionRecords(r, o, to) ==
  CASE o.state = "pending_send" /\ to = "sent" -> <<>>     \* the command record covers it
    [] to = "acknowledged" -> <<StateRec(r, o, to, Moved(o, to)),
                                Confirm("acknowledgement", r, Moved(o, to))>>
    [] OTHER -> <<StateRec(r, o, to, Moved(o, to))>>

FillRecords(r, o, v) ==
  LET b == AddFill(o, v)
  IN <<Rec("fill", r, NoState, NoState, v, 0, b),
       StateRec(r, b, FillTarget(b), Moved(b, FillTarget(b)))>>

\* The confirmation of an end precedes the transition, that of an acknowledgement follows it.
ReportRecords(r, o, rep) ==
  CASE rep.kind = "fill" -> FillRecords(r, o, rep.volume)
    [] rep.kind = "replace_ack" ->
         <<Rec("replace", r, NoState, NoState, o.requested_volume, rep.volume,
               [o EXCEPT !.requested_volume = rep.volume])>>
    [] rep.kind = "cancelled" -> <<Confirm("cancel", r, o)>> \o TransitionRecords(r, o, "cancelled")
    [] rep.kind = "reject" -> <<Confirm("rejection", r, o)>> \o TransitionRecords(r, o, "rejected")
    [] OTHER -> TransitionRecords(r, o, ReportTarget(rep.kind))
-----------------------------------------------------------------------------
(* apply: one operation on the worker of a shard. A refused one that changes nothing is a
   stuttering step. *)

\* The targets submit_transition is called with: the venue connection's cancel, direct or
\* deferred, and what the applications that drive it confirm.
Requested == {"sent", "acknowledged", "cancel_pending"}

Reports == [kind : {"fill", "replace_ack"}, volume : Volumes]
             \cup [kind : Kinds \ {"fill", "replace_ack"}, volume : {0}]

\* The worker of r's shard is between two operations. Two bounds: the operations on all orders
\* stay within a budget of MaxOps, and an order takes none once the journal lacks a change of
\* it or cannot be replayed because of it, for nothing more is claimed then.
Free(r) == /\ mode = "up"
           /\ emitting[ShardOf[r]] = <<>>
           /\ \E max \in MaxOps : ops[r] < max[r] /\ \A q \in Refs : ops[q] <= max[q]
           /\ r \notin dropped \cup Unlogged \cup resized

Emits(r, records) ==
  /\ emitting' = [emitting EXCEPT ![ShardOf[r]] = records]
  /\ seq' = seq + 1
  /\ ops' = [ops EXCEPT ![r] = @ + 1]
  /\ UNCHANGED <<mode, outbox, wal, flushed, writer, running, owed>>

Create(r, v) ==
  /\ Free(r)
  /\ ops[r] = 0
  /\ create(r, v)
  /\ Emits(r, <<Rec("command", r, NoState, NoState, 0, v, NewOrder("pending_send", v, 0))>>)
  /\ UNCHANGED <<dropped, miscounted, drained, resized>>

Transition(r, to) ==
  /\ Free(r)
  /\ transition(r, to)
  /\ Emits(r, TransitionRecords(r, order[r], to))
  /\ UNCHANGED notes

\* fill, replace, or a report in sequence with nothing held behind it. Only a call that
\* succeeds is journaled, so a refused fill that adds its volume is not.
Apply(r, rep) ==
  LET o == order[r]
  IN /\ Free(r)
     /\ r \in live
     /\ Settle(r, Result(o, rep))
     /\ \/ /\ Accepts(o, rep)
           /\ Emits(r, ReportRecords(r, o, rep))
           /\ resized' = IF rep.kind = "replace_ack" /\ o.state # "acknowledged"
                         THEN resized \cup {r} ELSE resized
           /\ UNCHANGED miscounted
        \/ /\ ~Accepts(o, rep)
           /\ Result(o, rep) # o
           /\ Emits(r, <<>>)
           /\ miscounted' = miscounted \cup {r}
           /\ UNCHANGED resized
     /\ UNCHANGED <<dropped, drained>>

\* A report in sequence and one (a bound) that drain() takes from the gap pool behind it:
\* emit_wal is given the first report and the order before it, and never learns of the second.
ApplyAndDrain(r, rep, held) ==
  LET o == Result(order[r], rep)
  IN /\ Free(r)
     /\ r \in live
     /\ Accepts(order[r], rep)
     /\ ~is_terminal(o.state)
     /\ Accepts(o, held) \/ Result(o, held) # o
     /\ Settle(r, Result(o, held))
     /\ Emits(r, ReportRecords(r, order[r], rep))
     /\ drained' = drained \cup {r}
     /\ resized' = IF rep.kind = "replace_ack" /\ order[r].state # "acknowledged"
                   THEN resized \cup {r} ELSE resized
     /\ UNCHANGED <<dropped, miscounted>>
-----------------------------------------------------------------------------
(* The outboxes and the writer thread. *)

HasSpace(s) == Len(outbox[s]) < OutboxCapacity

\* record(): a full outbox drops the record, and the operation stands.
Push(s) ==
  /\ mode = "up"
  /\ emitting[s] # <<>>
  /\ emitting' = [emitting EXCEPT ![s] = Tail(@)]
  /\ \/ /\ HasSpace(s)
        /\ outbox' = [outbox EXCEPT ![s] = Append(@, Head(emitting[s]))]
        /\ UNCHANGED dropped
     \/ /\ ~HasSpace(s)
        /\ dropped' = dropped \cup {Head(emitting[s]).ref}
        /\ UNCHANGED outbox
  /\ UNCHANGED <<omsVars, mode, seq, wal, flushed, writer, running, ops, owed,
                 miscounted, drained, resized>>

\* In a pass of drain_once, over the shards in order.
Draining == mode = "up" /\ writer.pc \in {"drain", "final"}

\* drain_once pops and appends; an append that fails loses the record.
Pop ==
  LET rec == Head(outbox[writer.at])
  IN /\ Draining
     /\ writer.at <= Shards
     /\ outbox[writer.at] # <<>>
     /\ outbox' = [outbox EXCEPT ![writer.at] = Tail(@)]
     /\ writer' = [writer EXCEPT !.any = TRUE]
     /\ \/ wal' = Append(wal, rec) /\ UNCHANGED <<dropped, owed>>
        \/ /\ Cardinality(dropped) < MaxLosses
           /\ dropped' = dropped \cup {rec.ref}
           /\ owed' = owed \ {rec}
           /\ UNCHANGED wal
     /\ UNCHANGED <<omsVars, mode, seq, ops, emitting, flushed, running, miscounted,
                    drained, resized>>

NextShard ==
  /\ Draining
  /\ writer.at <= Shards
  /\ outbox[writer.at] = <<>>
  /\ writer' = [writer EXCEPT !.at = @ + 1]
  /\ UNCHANGED <<omsVars, mode, seq, ops, emitting, outbox, wal, flushed, running, owed, notes>>

\* A bug in run: once stop() is seen the log is flushed, and nothing is drained before.
LoopHead_NoFinalDrain == IF running THEN "drain" ELSE "last"

\* while (running_): the loop condition, read before each pass.
LoopHead == IF running THEN "drain" ELSE "final"

\* A bug in run: a pass that found records is not followed by a flush.
AfterPass_NoFlush == CASE writer.pc = "drain" -> LoopHead
                       [] writer.pc = "final" /\ writer.any -> "final"
                       [] OTHER -> "last"

\* Where a finished pass leads: to a flush when it found records, and after stop() to more
\* passes until one finds none, and then to the last flush.
AfterPass == CASE writer.pc = "drain" /\ writer.any -> "flush"
               [] writer.pc = "drain" /\ ~writer.any -> LoopHead
               [] writer.pc = "final" /\ writer.any -> "final"
               [] OTHER -> "last"

EndPass ==
  /\ Draining
  /\ writer.at > Shards
  /\ writer' = [pc |-> AfterPass, at |-> 1, any |-> FALSE]
  /\ UNCHANGED <<omsVars, mode, seq, ops, emitting, outbox, wal, flushed, running, owed, notes>>

Flush ==
  /\ mode = "up"
  /\ writer.pc \in {"flush", "last"}
  /\ flushed' = Len(wal)
  /\ owed' = owed \ Range(wal)
  /\ writer' = [writer EXCEPT !.pc = IF @ = "flush" THEN LoopHead ELSE "done"]
  /\ UNCHANGED <<omsVars, mode, seq, ops, emitting, outbox, wal, running, notes>>

Accepted == Range(wal) \cup UNION {Range(outbox[s]) : s \in ShardSet}

Stop ==
  /\ mode = "up"
  /\ running
  /\ running' = FALSE
  /\ owed' = Accepted \ Range(SubSeq(wal, 1, flushed))
  /\ UNCHANGED <<omsVars, mode, seq, ops, emitting, outbox, wal, flushed, writer, notes>>
-----------------------------------------------------------------------------
(* Crash and recovery. *)

\* What was flushed survives, and of what was only appended some prefix; memory is lost.
Crash(k) ==
  /\ mode = "up"
  /\ k >= flushed
  /\ mode' = "down"
  /\ wal' = SubSeq(wal, 1, k)
  /\ flushed' = k
  /\ live' = {}
  /\ order' = [r \in Refs |-> NoOrder]
  /\ reserved' = 0
  /\ seq' = 0
  /\ emitting' = [s \in ShardSet |-> <<>>]
  /\ outbox' = [s \in ShardSet |-> <<>>]
  /\ writer' = [pc |-> "drain", at |-> 1, any |-> FALSE]
  /\ running' = FALSE
  /\ ops' = [r \in Refs |-> 0]
  /\ owed' = {}
  /\ UNCHANGED <<dropped, miscounted, drained, resized>>

\* A bug in read_and_order_wal: the records are replayed in the order they were written.
Ordered_AsWritten(log) == log

\* stable_sort by ts: the record at i comes after every earlier one, and after those of the
\* same operation that precede it.
Ordered(log) ==
  LET Before(j, i) == log[j].ts < log[i].ts \/ (log[j].ts = log[i].ts /\ j <= i)
      Rank(i) == Cardinality({j \in DOMAIN log : Before(j, i)})
  IN [n \in DOMAIN log |-> log[CHOOSE i \in DOMAIN log : Rank(i) = n]]

\* What recover_streaming asks of a record; o is the order it names, has whether there is one.
Valid(rec, has, o) ==
  CASE rec.kind = "command"         -> ~has
    [] rec.kind = "order_state"     -> /\ has
                                       /\ o.state = rec.from
                                       /\ o.filled_volume = rec.x
                                       /\ o.requested_volume = rec.y
                                       /\ legal(rec.from, rec.to)
    [] rec.kind = "acknowledgement" -> has /\ o.state = "acknowledged"
    [] rec.kind = "rejection"       -> has /\ o.state = "sent"
    [] rec.kind = "fill"            -> has /\ Fillable(o, rec.x)
    [] rec.kind = "cancel"          -> has /\ o.state = "cancel_pending"
    [] rec.kind = "replace"         -> /\ has
                                       /\ o.state = "acknowledged"
                                       /\ o.filled_volume <= rec.y
                                       /\ o.requested_volume = rec.x

\* A bug in recover_streaming: fill records are checked and counted but add no volume.
Replayed_NoFill(rec, o) ==
  CASE rec.kind = "command"     -> NewOrder("sent", rec.y, 0)
    [] rec.kind = "order_state" -> [o EXCEPT !.state = rec.to]
    [] rec.kind = "replace"     -> [o EXCEPT !.requested_volume = rec.y]
    [] OTHER                    -> o

\* The order a valid record leaves behind; a command restores it as sent.
Replayed(rec, o) ==
  CASE rec.kind = "command"     -> NewOrder("sent", rec.y, 0)
    [] rec.kind = "order_state" -> [o EXCEPT !.state = rec.to]
    [] rec.kind = "fill"        -> AddFill(o, rec.x)
    [] rec.kind = "replace"     -> [o EXCEPT !.requested_volume = rec.y]
    [] OTHER                    -> o

\* An order_state record of pending_send -> sent without an order is skipped.
Skipped(rec, has) == ~has /\ rec.kind = "order_state" /\ rec.from = "pending_send" /\ rec.to = "sent"

\* One turn of recover_streaming's loop; b is `next` with last_ts.
Replay(b, rec) ==
  LET r == rec.ref
      has == r \in b.live
      o == Replayed(rec, b.order[r])
  IN IF ~b.ok \/ Skipped(rec, has) THEN b
     ELSE IF rec.ts < b.ts \/ ~Valid(rec, has, b.order[r]) THEN [b EXCEPT !.ok = FALSE]
     ELSE [ok |-> TRUE, ts |-> rec.ts,
           live |-> IF Reclaims(o.state) THEN b.live \ {r} ELSE b.live \cup {r},
           order |-> [b.order EXCEPT ![r] = IF Reclaims(o.state) THEN NoOrder ELSE o]]

Next0 == [ok |-> TRUE, ts |-> 0, live |-> {}, order |-> [r \in Refs |-> NoOrder]]

\* The loop over the records: one record that does not fit fails all of them.
Replays(log) ==
  LET b[n \in 0 .. Len(log)] == IF n = 0 THEN Next0 ELSE Replay(b[n-1], log[n])
  IN b[Len(log)]

\* What replaying a log gives, once it is in order.
Rebuilt(log) == Replays(Ordered(log))

\* oms::recover, the older way back: the whole log at once, one that fits into a Journal, and
\* each record compared with all before it. (image is history and not part of the payload.)
same_payload(a, b) == [a EXCEPT !.image = NoOrder] = [b EXCEPT !.image = NoOrder]

recover(log) ==
  LET twice == \E i, k \in DOMAIN log : k < i /\ same_payload(log[i], log[k])
  IN  IF Len(log) > MaxRecords \/ twice THEN [Next0 EXCEPT !.ok = FALSE]
      ELSE Replays(log)

\* restart_recover_venue up to the ledger: a failed recovery leaves the venue without orders;
\* otherwise every order the journal left open comes back as unknown, with its volumes, in a
\* fresh book that reserves it.
Recover ==
  LET b == Rebuilt(wal)
      Back == IF b.ok THEN b.live ELSE {}
  IN /\ mode = "down"
     /\ mode' = IF b.ok THEN "recovered" ELSE "failed"
     /\ live' = Back
     /\ order' = [r \in Refs |-> IF r \in Back
                                 THEN NewOrder("unknown", b.order[r].requested_volume,
                                               b.order[r].filled_volume)
                                 ELSE NoOrder]
     /\ reserved' = SumFunctionOnSet([r \in Refs |-> b.order[r].requested_volume], Back)
     /\ UNCHANGED <<seq, ops, emitting, outbox, wal, flushed, writer, running, owed, notes>>
-----------------------------------------------------------------------------
\* A worker takes the next operation when it is between two.
Worker(r) == /\ Free(r)
             /\ \/ \E v \in Volumes : Create(r, v)
                \/ \E to \in Requested : Transition(r, to)
                \/ \E rep \in Reports : Apply(r, rep)
                \/ \E rep, held \in Reports : ApplyAndDrain(r, rep, held)

Writer == Pop \/ NextShard \/ EndPass \/ Flush

JournalNext == \/ \E r \in Refs : Worker(r)
               \/ \E s \in ShardSet : Push(s)
               \/ Writer
               \/ Stop
               \/ \E k \in 0 .. Len(wal) : Crash(k)
               \/ Recover

\* The writer thread keeps running; nothing is assumed of the workers, stop or crashes.
JournalSpec == JournalInit /\ [][JournalNext]_journalVars /\ WF_journalVars(Writer)
-----------------------------------------------------------------------------
JournalTypeOK ==
  /\ OmsTypeOK
  /\ mode \in {"up", "down", "recovered", "failed"}
  /\ seq \in Nat
  /\ ops \in [Refs -> Nat]
  /\ emitting \in [ShardSet -> Seq(Record)]
  /\ outbox \in [ShardSet -> Seq(Record)]
  /\ \A s \in ShardSet : Len(outbox[s]) <= OutboxCapacity
  /\ wal \in Seq(Record)
  /\ flushed \in 0 .. Len(wal)
  /\ writer \in [pc : {"drain", "flush", "final", "last", "done"}, at : 1 .. Shards + 1,
                 any : BOOLEAN]
  /\ running \in BOOLEAN
  /\ owed \subseteq Record
  /\ \A marked \in {dropped, miscounted, drained, resized} : marked \subseteq Refs

\* The image of the last record of r that survives, if there is one.
Mine(r) == {i \in DOMAIN wal : wal[i].ref = r}
LastImage(r) == wal[Max(Mine(r))].image

\* A recovery that succeeds rebuilds, for every order whose changes were all journaled, what
\* the book held once the last surviving record of the order was written, wherever the crash
\* cut the log, between the two records of one operation included: no order that the journal
\* saw end comes back, none that it saw open is missing, and the volumes are those of the book.
RecoveryFaithful ==
  mode = "recovered" =>
    \A r \in Refs \ (dropped \cup Unlogged) :
      LET Open == Mine(r) # {} /\ ~is_terminal(LastImage(r).state)
      IN /\ r \in live <=> Open
         /\ Open => order[r] = [LastImage(r) EXCEPT !.state = "unknown"]

\* Two shards' records interleave in the log in an order neither applied them in, and a crash
\* cuts it anywhere: still recovery accepts it, unless some order changed without a record, a
\* record was lost, or an order was replaced while it was not acknowledged. A log that fits
\* into a Journal gives the same book both ways: no two records of it are alike.
RecoveryAccepts ==
  /\ mode = "failed" => dropped \cup Unlogged \cup resized # {}
  /\ (mode \in {"recovered", "failed"} /\ Len(wal) <= MaxRecords) =>
       LET b == recover(Ordered(wal))
       IN  IF b.ok THEN mode = "recovered" /\ live = b.live ELSE mode = "failed"

\* stop(): when the writer thread has ended, every record that record() had accepted when
\* stop() was called is flushed, unless its append failed; whatever the thread was doing.
StopKeepsAccepted ==
  writer.pc = "done" => owed = {}

Pending == flushed < Len(wal) \/ \E s \in ShardSet : outbox[s] # <<>>

\* Records do not wait in an outbox or in unflushed pages for ever: the writer thread, running
\* or stopping, gets to a point where all of them are flushed, unless the process crashes or
\* the thread had ended before they came.
RecordsBecomeDurable == Pending ~> (~Pending \/ mode # "up" \/ writer.pc = "done")

\* emit_wal's records are those recovery validates "field-for-field": with no record lost and
\* no order changed without one, recovery accepts the journal. It does not: replace is allowed
\* in any live state but unknown, and a replace record is valid only for an acknowledged order.
JournalAlwaysValid == mode = "failed" => dropped \cup Unlogged # {}

\* emit_wal's records "reconstruct this operation on replay": once the recorder has stopped
\* behind everything, with no record lost and no fill refused, an order replay rebuilds has the
\* volume the book has. It need not: a report that drain() applies is never journaled.
CleanRestartExact ==
  (/\ mode = "up"
   /\ writer.pc = "done"
   /\ \A s \in ShardSet : emitting[s] = <<>> /\ outbox[s] = <<>>
   /\ dropped \cup miscounted = {}
   /\ Rebuilt(wal).ok)
  => \A r \in live : Rebuilt(wal).order[r].filled_volume = order[r].filled_volume
=============================================================================
