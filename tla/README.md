# TLA+ models of the market-microstructure engine

This directory holds a verification development for the C++ engine in `src/`:
modules that model its capture, trading and execution code, TLC configurations
that check them on small instances, and proofs that TLAPS checks for every
instance. Definitions keep the names of the code. `PROJECT.json` maps each
definition to the lines it models, and lists components, runs, mutants, findings,
hazards and theorems.

## 1. The system

```
 MT5 terminal --pipe--> adapter -> ring -> recorder -> segments on disk -> compressor
                                                          |
                           tailer / replay adapter <------+
                                  |
                                  v
 order book -> strategies -> risk check -> paper broker          (paper trading, one thread)
                                  \-> command file -> MT5 script -> broker
                                              answers <--/

 strategies -> StrategyScheduler -> RiskGatedRouter -> VenueConnection -> ShardedOms
                                      |                 (rate limiter,     one worker per shard:
                                      v                  sessions,         Oms + ReportSequencer
                                   RiskLedger            recovery)             |  emit_wal
                                (shared atomics)                               v
                                                     venue reports        LiveWalRecorder -> log
                                                                               |  crash
                                                          recover_streaming <- read_and_order_wal
```

### Inventory

| component | state | operations | what makes it correct |
|---|---|---|---|
| order life cycle (`order_state.hpp`, `exec_types.hpp`) | none | `legal`, `is_terminal`, `reserves_exposure` | shared by all |
| `Oms` (`oms.hpp`) | dense order array, open-addressed index with tombstones, `reserved_` | create, restore, transition, fill, recover_fill, mark_unknown_on_restart, resolve_unknown | a map: no order lost or found twice; a live order is never terminal, never overfilled |
| `ReportSequencer` | gap pool, ring of finished orders, `last_applied_seq` per order | process, apply_one, drain | each report applied once, in order; nothing held for ever; late told from orphan |
| `RiskLedger`, `RiskGatedRouter` | atomic counters per dimension, reservation table, halts | reserve, release, reconcile, adjust_replace, undo, halt, rebuild; submit_* | limits hold under any interleaving; failures leave no trace; what is open is covered |
| `ShardedOms`, ring buffer | per shard: inbound rings, book, log; `global_seq_`, halt | submit_*, run, apply, pause, destructor | a call takes effect once and answers its caller; a halt is final; shutdown answers what was published |
| live journal and restart | outboxes, log, writer thread | record, drain_once, run, stop, read_and_order_wal, recover | what recovery rebuilds is what the book had |
| venue connection, rate limiter, scheduler, self-trade tracker | connection and session state, token buckets, deferred queue, per-strategy queues | route_*, drain_pending, begin_recovery, run_reconciliation, next | READY only when both sides agree; no starvation; no leak |
| paper broker, account | orders in slots, tickets or a net position, margin | submit, cancel, replace, on_quote | position and money agree with the fills |
| strategies, paper-trading runtime, MT5 bridge | strategy state, working order, command and answer files | one pass of the loop, script timer, broker | a strategy is always answered; the runtime's view of MT5 is sound |
| write-ahead log, feed, recorder, tailer, replay | segments, sidecar slots, queue of compressions, cursors | append, commit, rotate, recover, compress, poll, next | committed data survive; readers deliver exactly the log |
| market order book | two ladders, crossing tolerance | apply_quote, apply_delta, rebase | sorted, exact window; no halt on a first crossing |
| signal engine, indicators, learner, dashboard, scripts | files, SQLite, floats | batch computation | numeric; not modelled |

The hard behaviours are: reports that arrive late, twice or out of order while a
client cancels or replaces; several threads reserving against one limit with an
optimistic add-then-check; hash tables with deletion; lock-free rings with a
shutdown; a journal whose records come from several workers and are cut by a
crash; files read by one process while another writes, rotates, dies and recovers;
commands over files that are retried after a timeout; and a reconnect during which
the venue goes on. The full list, with lines, is under `hazards` in `PROJECT.json`.

## 2. Modules

| module | models | composes |
|---|---|---|
| `OrderState` | states and transition relation | |
| `Oms` | one shard's book as a map from references to orders (abstract) | `OrderState` |
| `OmsIndex` | the same book as array and hash index; refines `Oms` | `OrderState`, instance of `Oms` |
| `ExecReports` | what one execution report does to an order | `Oms` |
| `ReportSequencer` | gap pool, terminal cache and an unreliable venue | `ExecReports` |
| `RiskLedger` | the ledger, one atomic operation per step, driven as the router drives it | |
| `OmsCalls` | what the sharded book promises its callers (abstract) | `OrderState` |
| `ShardedOms` | rings, workers, pause, halt, destructor; refines `OmsCalls` | instance of `OmsCalls` |
| `LiveJournal` | workers that journal, outboxes, writer thread, stop, crash, replay | `ExecReports` |
| `VenueGates` | scheduler, session, self-trade, token and comparison rules as functions | |
| `Router` | the pipeline of one venue, its faults and its recovery | `ExecReports`, `VenueGates` |
| `Strategy` | the life cycle of the three strategies | |
| `PaperTrade` | the paper-trading runtime, the MT5 script and the broker behind it | `Strategy` |
| `PaperBroker` | the simulated broker and the simulation replay that drives it | |
| `Segments` | a segment on disk, recovery and the readers as functions | |
| `Capture` | feed, recorder, compressor, tailer, crashes | `Segments` |
| `OrderBook` | the market order book of one symbol | |
| `OmsIndexProofs`, `ShardedOmsProofs`, `RiskLedgerProofs`, `PaperTradeProofs`, `RouterProofs` | theorems and proofs about the module of the name | that module |
| `OmsProofs` | theorems and proofs about the abstract book, the sequencer and the journal | `ReportSequencer` (and with it `Oms`), `LiveJournal` |
| `ReplayProofs` | theorems and proofs about what is read from a stream or a log: the market book, the capture | `OrderBook`, `Capture` |
| `DataProofs` | facts the proofs share: remainders and rings, induction over sets and numbers, sums over finite sets, recursive functions on initial segments of the numbers | |
| `MC*` | constants of the runs | |

**Oms / OmsIndex.** `live`, `order`, `reserved` stand for what `find()` and
`reserved_exposure()` show. A call that fails is a stuttering step, with the one
exception the code makes: `fill()` adds the volume before `transition()` is
asked and leaves it added when the transition is refused (`AfterFill`).
`OmsIndex` has `orders_`, `index_`, `count_`, `tombstones_`: probing, insertion
over tombstones, the swap on reclaim and the repointing of the moved order, and
the in-place rehash. The hash function is the constant `Home`, so that collisions
can be chosen. `ImplementsOms` is the refinement.

**ReportSequencer.** `process()` is one step and so is each turn of `drain()`'s
loop; both run on the shard's thread, so nothing else of that thread happens in
between. The venue (external) numbers its reports, and any report it has sent
may be delivered at any time, any number of times: that is delay, reordering,
duplication and, together with fairness, loss with retransmission.
`last_applied_seq` is part of the order. The client may move an order to
`cancel_pending` by itself (`route_cancel`). The history variables `refused` and
`finished` name orders that refused a report and the order in which orders ended.

**RiskLedger.** A call is a frame with a program counter and a list of pending
atomic adds; threads interleave between any two adds and between an add and its
check. `reserve` adds and checks each dimension, then credit, then the table
slot, and unwinds what it did when one fails. `adjust_replace` is followed by
the order book's answer (`ReplaceTaken`, `ReplaceRefused`) as in the router.
`booked` is the volume in the order book; `uncut` names orders whose decrease the
book refused. Calls about one order do not overlap (its shard serialises them);
calls about different orders do. The table is plain memory in the code: the
races of different orders on one slot are not in this model.

**OmsCalls / ShardedOms.** In `OmsCalls` a caller begins a call, the call takes
effect on the book at one instant, and the caller is told whether it succeeded. The
completion is the caller's and may be one that was used before: `submit` resets only
`done` (`sharded_oms.hpp:398`), so `ok` and the order in it stay those of the call
before until the worker writes them. A call that fails, and a fill or report that
finishes its order, leave the old order there (`was` in `Effect`), and that order's
state is what the log records. `given` is history: it tells an answer from what an
earlier call left. `ShardedOms` has the rings with `head`, `tail` and storage, and every
access another thread may observe is a step: storing the request, publishing it,
reading it, moving the tail, looking up the approval, applying, taking the
number, completing. A thread owns a ring per shard (`producer_id`); the first
thread also enqueues without waiting (`try_enqueue_create`), so a ring can be
full. The refinement maps the request in the ring to the open call. Memory is
sequentially consistent; `halted_` is a plain bool in the code.

**LiveJournal.** An operation changes the book in one step and leaves its records
in `emitting`; each `Push` moves one to the bounded outbox or drops it. The writer
pops, goes to the next shard, ends a pass and flushes, in steps of their own;
The targets of transitions (`Requested`) are the ones `multi_venue.hpp` asks for.
`Stop` may come at any time and so may `Crash`, which keeps the flushed records
and any prefix of those appended behind them. `Recover` sorts by operation number
(stable), goes through the records with the validation of `recover_streaming`
(`Replays[k]` is what the first k of them leave), and loads open orders back as
`unknown`; the batch `recover`
does the same with its own duplicate rule, and `RecoveryAccepts` compares them.
Records carry, for comparison only, the `image` of the order in the book once the
record is written. Its specification is `JournalSpec`, so that its proofs can share
a module with the book's. Prices are left out (both sides agree on a placeholder), as are
books at capacity, hash collisions in the duplicate window and a flush that fails.
What a reader makes of a torn tail is `Segments`' business.

**VenueGates / Router.** One thread owns the venue (`driver`), and a create is two
steps because the global halt is looked at on both sides of it. Strategies enqueue
requests; the scheduler picks one; the router reserves, asks session, connection,
self-trade tracker and rate limiter, and the book; a request without a token is
deferred and drained later. The venue (external) moves its own copy of each order
and emits reports; a connection may be lost and an order may never arrive. A
reconciliation is five steps, between which the venue goes on: it fetches reports
(`FetchReports`), applies them one by one (`ReconcileReport`), lists the book's orders
(`SnapshotOrders`), fetches the venue's (`FetchOpenOrders`), compares the two lists and
perhaps sets READY (`CompareOrders`); `retry_after_resolution` enters at the listing.
Its caller's buffers (`Rooms`) may be too small for the reports, either list or the
results, and then hold a part. The router reads the outcome of a report back from the
caller's Completion, which may hold an order of an earlier call (`Handed`, `Seen`):
when the report finishes its order, the image that was there stays, and
`terminal_or_gone` judges by it. `restart_recover_venue` gives back the live orders as `unknown` and
rebuilds the ledger. What the driver has yet to apply (`driver.todo`) is a set of
reports, taken in the order of their numbers. History in `notes`: orders that got
volume past the ledger (`unbacked`: a deferred create, a late replace confirmation,
a refused replacement of an order that is gone, whose undo gives back more than was
added, a Completion that held another order with more fills), orders of whose end the
ledger was not told (`orphaned`), how long a strategy has waited.

**Strategy / PaperTrade.** The runtime is one thread, so a pass of its loop is one
step: a chain of operators on the record `rt`. What the numbers decide is chosen:
which exit is due, whether the signals are warm, which way they point. Three
modes: recorded quotes against the simulated broker, the strategy replay engine,
and the bridge, where the live tick drives the strategy and every order is also
sent to MT5 through `mme_cmd.txt`. The script `mme_exec_bridge.mq5` polls that
file, ignores numbers it has seen, is busy while the broker works, and answers
through `mme_ack.txt`. Each fault (slow or lost answer, refusal, a broker-side
stop, restart of the runtime, kill file, new attachment, frozen broker, stale
feed) may happen a bounded number of times. `blind`, in the bridge's record, is
history: the process could not write its first CLOSE and a command of an earlier
process is still in the file.

**PaperBroker.** Each call is one step on the record `b`: `submit` with its checks
in the code's order (the slot is taken before the last of them), `cancel`,
`replace`, and `on_quote`, which processes the orders in slot order with the
random draws as choices. Tickets in a hedging account, one signed position in a
netting one; margin reserved and released; stop-out in the middle of a round. The
clients are strategies in any order, or the schedule of `SimReplayEngine`. `cash`
and `traded` are history: the money and the volume that changed hands.

**Segments / Capture.** A segment is a data file (header, frames, preallocated
zeros), a sidecar with two boundary slots, perhaps a compressed copy. The recorder's
steps are the ones another process, or a crash, can separate. So are the tailer's: it
opens the file and notes its size (`WalReader_open`); its stream takes the first
frames with the header, as many as its buffer holds (`RawFileStream_read`); then the
sidecar is read, once (`WalReader_resolve_boundary`, `wal_reader.cpp:52`); then frames
are taken as the scan needs them. A frame is what the file holds when it is taken,
half written perhaps. Two things can overtake the tailer between the first frames and
the sidecar, and history variables name them: a frame that was half written has been
completed and published (`torn`), or a recovery has cut the file and has the sidecar
empty, so that the size noted before stands for the boundary (`dropped`).

`ProcessCrash` keeps everything written; `PowerLoss` keeps what was flushed and any
outcome of the rest of the data file. Nothing flushes the compressed copies
(`wal_writer.cpp:339-366`), so each comes out whole, damaged or not at all
(`CopySurvivors`). A damaged copy exists, so no later start makes it anew
(`record_main.cpp:107`). Directory operations, truncation and the
rewritten sidecar are taken to survive. The sidecar, 64 bytes at the start of a file of their own
(`wal_writer.cpp:28-40`), is taken to lie in one sector that is written whole: after a
loss of power it is as it was at some moment since the last flush (`safe.metas`), half
written slots included. The proof needs this. If each slot survived on its own, an old
slot could remain beside a newer torn one, and in a segment of three frames or more
records flushed between them would be cut off.
`Recorded` is what a reader of the whole directory gets. The execution log uses the
same segments without feed and compressor.

**OrderBook.** `Quote` and `Delta` are `apply_quote` and `apply_delta` with the
tolerance for a crossed book; `Lose` is a delta that never arrives. `venue` and
`seen` (external and history) are the true book and the prices whose changes have
all arrived.

## 3. Runs

Each run is within five minutes with two workers. `CHECK_DEADLOCK FALSE` wherever
the system may stop: clients need not send and venues need not answer, and bounded
runs end. That things which must happen do happen is stated as liveness.

| run | shows | bounds |
|---|---|---|
| `report_sequencer` | `ExactlyOnce`, `NoReadyReportStranded`, `LateReportsRecognised`, `ReservedIsLiveVolume`, `OrdersSound`, `CatchesUp` | two orders with three and two reports, volumes 1 and 3, a gap pool of two slots that both orders need, a cache of one order: the pool runs full, the same report is held twice, the cache wraps |
| `oms_index` | `IndexExact`, `ImplementsOms` | capacity 2 and a table of 4, four references in two collision classes, one of which wraps around: live orders and tombstones fill the table, rehash happens |
| `risk_ledger` | `NeverOversubscribed`, `CountersExact` | two threads (symmetric), three orders on two strategies under one global limit of 2, volumes 1 to 3: an order too large, each limit, the budget and the table can refuse |
| `live_journal` | `RecoveryFaithful`, `RecoveryAccepts`, `StopKeepsAccepted`, `RecordsBecomeDurable` | outboxes of one record, so that the second record of an operation may be dropped; either five operations on one order (a whole life) or two and one on two shards (records out of order) |
| `sharded_oms` | `ImplementsCalls`, `LogFaithful`, `HaltFinal`, `PublishedAnswered` | two threads, two shards with books of one order, rings of two; each call with a new completion or the one used before; seven plans: a race over one order's fills, a replace, a restored order filled up in one go or two, a full ring behind a paused worker, both shards with a snapshot, the halt, the destructor |
| `router` | `ExposureCovered`, `NoReservationLeaks`, `WaitBounded`, `ReadyMeansAgreed` | two strategies with quanta 2 and 1, three orders, limit 3, one token of each kind and one deferred request; buffers with room for all, for one of each, for one result; eight scenarios: reused Completions, replaces, halt, session change, lost order or restart with a reconnect, two orders over a reconnect, endless cancels |
| `paper_trade` | `PendingIsOwed`, `PaperAgrees`, `ViewSound`, `OpensOnlyAwaited`, `CommandAnswered`, `OrphanClosed` | every strategy over recorded quotes and the replay engine with three trades and three faults; the bridge with one trade and any two faults |
| `paper_broker` | `FilledExactly`, `PositionConserved`, `MoneyConserved` | two slots and two tickets, three orders (market, limit with expiry, reduce-only), one replace of an order of 2 to 3, before the first fill or between two, or to 1, four quotes at prices so far apart that a stop-out happens; the simulation replay with seven quotes; both account modes |
| `capture` | `KeptReadable`, `RecordsContiguous`, `ZstFaithful`, `TailerExact`, `CorruptOnlyWhenOvertaken`, `ReplayFaithful`, `TailerCatchesUp` | segments of two frames, three events, two or three segments, a queue of one compression; with a tailer, whose stream takes any number of frames ahead of the sidecar, one fault, without one the faults that may meet, or the machine fails twice |
| `order_book` | `LaddersExact`, `NeverHaltsAtOnce` | three prices for a window of two, so that levels are evicted; a tolerance of two updates or one unit of time |
| `refused_fill` | violation, finding 1 | as `report_sequencer` |
| `replace_unreplayable` | violation, finding 2 | as `live_journal` |

Every property of a passing run has a mutant in `PROJECT.json`: a definition with
a plausible bug (kept beside the definition, named after it) under which TLC finds
the property violated. They are no part of the model. Each module also has a
`TypeOK`, which can be added to its configuration; each proof of section 5 contains
one for its module.

**Conditions on the properties.** `ExactlyOnce`, `NoReadyReportStranded` and
`CatchesUp` are about orders that refused no report (finding 1 is what happens to
the others). `NeverOversubscribed` and the open part of `CountersExact` hold while
no decrease was refused. `RecoveryFaithful` is about orders all of whose changes
were journaled and kept, `RecoveryAccepts` excludes orders replaced while not
acknowledged (finding 2). In `LiveJournal` an order that falls under such an
exception takes no further operation: nothing is claimed of it. `ReservedIsLiveVolume` speaks until the venue confirms a replacement, which changes
what an order gives back. `ExposureCovered` and `NoReservationLeaks` name the orders of
which they do not speak: deferred creates and other volume past the ledger, and orders
of whose end the ledger was not told, in a reconciliation or because of a reused
Completion. `ReadyMeansAgreed` takes room for all results, and leaves out orders on
neither list when a list came back full. What `LogFaithful` demands after a fill
allows for the state an earlier call left in the completion (`Says`). `PositionConserved` and
`MoneyConserved` stop at a broker that has halted and at a reduce-only fill larger
than its ticket. `ViewSound` and `OpensOnlyAwaited` hold while nobody drops the
kill file or attaches the script anew, and `ViewSound` for a process that could
write its first CLOSE (section 4, `PaperTradeBlind.cfg`); `PaperAgrees` while the feed has not gone
stale. `ZstFaithful` leaves out copies that were there when the power failed (`exposed`).
`TailerExact` speaks until the tailer was overtaken by a recovery (`dropped`), and
`CorruptOnlyWhenOvertaken` names both races beside the loss of power: the first
happens without any fault (`CaptureHalfRead.cfg`). `ReplayFaithful` allows an error
after a loss of power and behind a segment whose creation was cut.

**Fairness.** `report_sequencer`: weak fairness of `drain` (a loop on a running
thread) and of the delivery of the one report each order waits for (a venue
replays its log after a reconnect). `live_journal`: the writer thread's next step.
`sharded_oms`: each worker thread's next step, and a paused worker is resumed.
`capture`: the tailer is polled. `paper_trade`: the script's timer, the broker's
answer, the end of a backoff, the removal of a kill file; and the runtime's loop
keeps running: if it has something to do for ever, passes with a readable tick and
a writable command file occur (stated with `HasWork` in place of ENABLED). Nothing
is assumed of clients, venues, `stop()`, crashes or faults. No other run uses
fairness.

## 4. Findings

The first two have a run of their own.

1. `Oms::fill` keeps the volume of a fill whose transition it refuses. A partial
   fill that meets a client's cancel is refused, and added again with every
   retransmission (`refused_fill`, `FilledNeverExceedsVenue`).
2. A replace of an order that is not exactly acknowledged is accepted live and
   refused by recovery, with the whole journal (`replace_unreplayable`,
   `JournalAlwaysValid`).

These have a configuration that ends in a counterexample to what a comment or a
document says; run it with the module named.

| configuration | property | what the code does |
|---|---|---|
| `RiskLedgerProbe.cfg` (`MCRiskLedger`) | `ReservationsFindable` | `free_reservation` (`risk_ledger.hpp:440`) leaves no tombstone: with two reservations in a table of eight, releasing one can make the other impossible to find. Line 447: "will only misbehave under very high sustained occupancy". |
| `RiskLedgerRefusedDecrease.cfg` (`MCRiskLedger`) | `RefusedDecreaseSelfCorrects` | A decrease the book refuses is not restored and open exposure ends below zero (`risk_gated_router.hpp:132`), where `risk_ledger.hpp:285` says it "self-corrects on that order's next reconcile()/release()". |
| `LiveJournalDrain.cfg` (`MCLiveJournal`) | `CleanRestartExact` | Reports that `drain()` applies are not journaled, so a clean restart recovers less than the book had; `tests/cpp/phase7_wal_crash_recovery.cpp:224`: "everything enqueued before a clean stop() is fully recovered". |
| `RouterRecovering.cfg` (`MCRouter`) | `NoExposureWhileRecovering` | `drain_pending` (`multi_venue.hpp:213`) sends deferred creates to the book without the gates and without a reservation, also while the venue is disconnected or reconciling; `multi_venue.hpp:125`: "no new exposure during recovery". |
| `RouterOrphan.cfg` (`MCRouter`) | `UndoExact` | An order that ended in a reconciliation keeps its reservation. A later replace of it is added to the ledger (`risk_ledger.hpp:279`), refused by the book, which no longer has it, and undone by the new volume less 0: the counter ends below where it was and no longer covers the other orders; `risk_gated_router.hpp:132-135` promises "never an oversubscription". Found by the proof of `ExposureCovered`. |
| `PaperBrokerReduce.cfg` (`MCPaperBroker`) | `ReduceOnlyNeverOpens` | Two reduce-only orders are each checked against the same position, and the second opens one; `paper_broker.hpp:53`: "reduce/close only, never open". |
| `CaptureRecovery.cfg` (`MCCapture`) | `RecoveryRepeats` | A recovery empties the sidecar before it rewrites it (`wal_writer.cpp:58-65`), and a crash in between leaves a segment that no recovery accepts; `docs/WAL_FORMAT.md:51`: "Repeating recovery is idempotent." |
| `CaptureHalfRead.cfg` (`MCCapture`) | `NeverCorruptWhileRunning` | The reader's stream takes the first frames with the header, before it reads the sidecar (`wal_reader.cpp:46`, `:52`). A frame that is half written at the first read and published before the second is within the boundary and fails its checksum: the tailer ends with `corrupt`, though nothing is wrong with the file; `wal_tailer.hpp:167-168`: "an unwritten tail is not truncation". |
| `PaperTradeRefire.cfg` (`MCPaperTrade`) | `NeverRefired` | The kill file and a new attachment reset `g_last_seq`, and the script acts on the old command again; `mme_exec_bridge.mq5:175`: "already processed; never re-fire". |
| `PaperTradeBlind.cfg` (`MCPaperTrade`) | `KnownFlatStart` | When `mme_cmd.txt` cannot be opened the start goes on (`paper_trade_main.cpp:499-500`) and leaves the command of an earlier process in the file. The new process counts on from the last answer, so its next command can get the number of an old one: it takes that answer for its own while the script goes on with another old command; `:485-488`: "the first command is always a CLOSE", after which "the two sides begin from a known flat state". It takes two restarts, a late answer and three entries, and was found by the proof of `ViewSound`. |
| `OrderBookRebase.cfg` (`MCOrderBook`) | `RebaseMeansDiverged` | Removing a level that the full window had evicted rebases the whole book, though no delta was lost; `order_book.hpp:78-80`: "Removing a level we never had means our view diverged". |

Read from the code while modelling it, without a property:

- *Runtime.* The fast path re-arms the strategy without looking at `--max-rearms`
  (the comment at `paper_trade_main.cpp:1003` calls it bounded); a stale-feed halt
  while an order works leaves a paper position nobody exits; a frozen paper broker
  leaves the order unsettled, so the bridge never reconciles; `--mt5-bridge` with
  another strategy than flip dereferences a null pointer (excluded by
  `PaperAssumption`). Exits of `StrategyReplayEngine` are not reduce-only, so in its
  hedging broker they open opposite tickets.
- *Log.* A recovery that cuts the file and empties the sidecar between a tailer's two
  reads makes the size from before the cut the boundary, and the tailer delivers a
  frame that the recovery has dropped, or ends with `corrupt`. A compressed copy is
  given its name without a flush; if the power fails it may be empty, and no later
  start replaces it, because it exists. A crash inside `open_segment` leaves a last segment that neither recovery
  nor replay accepts, although `replay_adapter.hpp:52` says that a replay that
  begins can finish; queued compressions are not redone after a crash and a full
  queue loses its job; comments say a segment is opened exclusively, the code
  shares it for reading.
- *Router.* `risk_gated_router.hpp:159-167` calls a Completion whose reference is not
  the order's "the reliable 'gone' signal", because an order that is gone "leaves
  `out.order` at its default-constructed value". It leaves it as the caller handed it
  in: with a Completion used again (as in `tests/cpp/phase7_risk_ledger.cpp:246-251`)
  the report that finishes an order shows the image from before, and the reservation
  stays; if the Completion held another order, that one's fills are booked. A
  reconciliation that gets full buffers compares what it got: orders beyond them can
  differ when READY is set. A rejected create leaves the self-trade tracker's net changed; the last
  fill of an order that is gone is read back as 0, so the ledger's position misses
  it; reconciliation applies reports without telling the ledger; a stale replace
  confirmation can raise the book's volume above the reservation;
  `retry_after_resolution` counts matches as differences; comments claim that
  creates look at the journal's pressure, which they do not.
- *Broker.* An order refused as stale or for margin keeps its slot; reserved margin
  is released at another price; a replace checks neither reduce-only nor margin; a
  reduce-only fill of a hedging account larger than its first ticket is cut. The
  broker's own journal is not one `recover()` accepts (`transition` writes the
  remaining volume where the requested one is expected).
- *Oms.* An order gives back what it asks for when it leaves, so after a replacement
  that the venue confirmed `reserved_` is no longer the sum over the live orders.
- *ShardedOms.* With a completion used again, a call that fails, or a fill that
  finishes its order, shows the caller, and records in the log as `result_state`, what
  the call before left there. A request published after the worker's last drain waits for ever.
- *OrderBook.* After a level is taken out of a full window, an evicted level that
  would now belong to it is missing until the venue names it again.
- *Restart.* `global_seq_` starts over at 0 and restored orders are not journaled
  again, so a second restart in the same directory mixes two lives.

## 5. Proofs

Each theorem holds for every value of the constants that satisfies the `ASSUME` of
its module; TLC evaluates those assumptions in the runs. The assumptions are types,
that buffers have a size where the code's do, that "no entry" values are not
entries, and for ledger, router and journal that the orders are finitely many. No proof
assumes a bound on threads, orders, messages or faults: in `Capture` a scenario gives
each kind of fault any number of times, so that processes and machine may fail again
and again, also while a recovery is under way.

| theorem | states | module |
|---|---|---|
| `BookSound` | `OmsTypeOK /\ OrdersSound` | `OmsProofs` |
| `IndexAlwaysExact`, `BookImplemented` | `IndexExact`, `ImplementsOms` | `OmsIndexProofs` |
| `SequencerSafe`, `NothingStranded`, `LateRecognised`, `ReservedExact` | `ExactlyOnce` and others, `NoReadyReportStranded`, `LateReportsRecognised`, `ReservedIsLiveVolume` | `OmsProofs` |
| `LedgerExact`, `LimitsHold` | `CountersExact`, `NeverOversubscribed`, each under `[]ReservationsFindable` | `RiskLedgerProofs` |
| `CallsImplemented`, `HaltAuthoritative`, `LogIsHistory` | `ImplementsCalls`, `HaltFinal`, `LogFaithful` | `ShardedOmsProofs` |
| `WaitingIsOwed`, `StrategyMatchesBroker`, `BridgeViewSound`, `OnlyAwaitedOpens` | `PendingIsOwed`, `PaperAgrees`, `ViewSound`, `OpensOnlyAwaited` | `PaperTradeProofs` |
| `RouterTypes`, `ReadyIsAgreement`, `ReservationsEnd`, `OpenOrdersCovered`, `WaitIsBounded` | `TypeOK /\ OrdersSound`, `ReadyMeansAgreed`, `NoReservationLeaks`, `ExposureCovered`, `WaitBounded` | `RouterProofs` |
| `LaddersAlwaysExact`, `HaltNeedsCrossing` | `LaddersExact`, `NeverHaltsAtOnce` | `ReplayProofs` |
| `JournalTypes`, `StopDrains`, `RecoveryIsFaithful`, `RecoveryIsAccepted` | `JournalTypeOK`, `StopKeepsAccepted`, `RecoveryFaithful`, `RecoveryAccepts` | `OmsProofs` |
| `CaptureTypes`, `CommittedSurvives`, `LogHasNoHoles`, `CopiesAreFaithful` | `CaptureTypeOK`, `KeptReadable`, `RecordsContiguous`, `ZstFaithful` | `ReplayProofs` |
| `TailerFollows`, `CorruptionIsReal`, `ReplayIsFaithful` | `TailerExact`, `CorruptOnlyWhenOvertaken`, `ReplayFaithful` | `ReplayProofs` |

**OmsIndexProofs.** `IndexInv` is `TypeOK` and `Exact`: the array is dense (the
first `count_` slots hold references, each once), every entry of the index points
to one of these slots and no two to the same, every slot has an entry within reach
(`Linked`: no empty entry ends the probe before it), and `tombstones_` counts the
tombstones. `IndexExact` alone says what `find()` returns, not why an insertion or a
removal elsewhere leaves it so; `Linked` is what a tombstone preserves and an
emptied entry would break. That a probe ends is the pigeonhole principle
(`VacantSomewhere`: fewer orders than entries). The rehash inserts the slots one
after the other, so its proof is an induction over the number inserted. The
refinement reads the map off the array (`MapIn`, `LiveIn`), and each way of changing
the array is shown to be the change of the map.

**OmsProofs, book and sequencer.** The book first: `OmsTypeOK /\ OrdersSound` is inductive; a
fill's bound needs the types, and that a live order is never terminal rests on
`Settle`, which takes a terminal order out. The lemmas about `Insert`, `Settle` and
`AfterFill` are reused for the sequencer. `ExactlyOnce` is not inductive. `SeqInv` adds how a
venue's stream is numbered (`VenueNumbers`: each report's totals follow from the one
before it), that nothing is applied or held which was not sent (`OnlySentReports`),
the size of an order before its first report (`FirstReport`), and the forms of the
two pool properties that also hold while `drain()` is under way (`HeldLive`,
`NoneReady`: the order being drained is exempt). `CacheInv` places the k-th finished
order at k-1 modulo the ring's size until a lap later. `ReserveInv` is the sum over
the live orders; it needs `SeqInv`, because an order gives back what it asks for
when it leaves.

**RiskLedgerProofs.** Between two atomic adds no counter is a sum over the table.
`CounterInv` says what each order accounts for at every moment: its reservation,
plus what the call about it has added so far, less what it still has to take back
(`OpenShare`, `CreditShare`, `PositionShare`); the counter is the sum of these over
the orders. `LimitInv` bounds the part that was checked (`OpenKept`: what a refused
call will take back does not count): an add is seen by every later check, so the
sum of what passed stays within the limit. `CallsInv` holds per frame, `OrderInv`
and `AgreeInv` relate an order's reservation, its volume in the book and its call.
Both theorems have the hypothesis `[]ReservationsFindable`: they speak of a ledger as
long as its reservations can be found. The code does not ensure that. Two orders may
have the same home slot (`hash % capacity`), and then the hypothesis can fail
(`RiskLedgerProbe.cfg`) and a reservation that is not found is not released. That it
is not empty is a lemma: without shared homes it always holds (`ApartFindable`).

**ShardedOmsProofs.** `OnceInv` follows a request through the rings: between tail
and head a ring holds requests that wait, each once (`QueueInv`); a slot written and
not published lies beyond the head (`WrittenInv`); what a worker has taken out is in
no ring, and nobody else answers it (`HandInv`). Positions are unbounded and slots
are positions modulo the capacity, so the lemmas about remainders carry the
wrap-around. The refinement of `OmsCalls` is proved action by action; all but the
beginning of a call, the mutation and the return are stuttering steps. `HaltInv`
adds that a create begun under the halt is never approved. `LogInv` adds the numbers
that workers have claimed and not yet logged (`NumberInv`) and what the worker is
about to log (`HistoryInv`): whatever order was in the completion before, the state in
it after a call that succeeded is one from which the state in the book can be told.

**PaperTradeProofs.** `TradeInv` has two halves that do not meet. `StrategyInv`: the
working order is the one the strategy waits for, and the simulated broker holds what
its state says. `LinkInv`: the script answers in order (`ScriptInv`), the file holds
this process's last command or nothing (`ProcessInv`), and while the process believes
MT5 flat, an open position is the outcome of the entry under way, of which the
script will say so (`Entering`). This proof failed at first at a start without a
writable command file, and that is a behaviour of the code: see `PaperTradeBlind.cfg`.

**RouterProofs.** `CoreInv` is the types of all parts with `OrdersSound`. With
`TodoEmitted` (a report still to be applied was emitted) it carries three independent
arguments.

- `NoReservationLeaks`: an order leaves the book in a step that goes on to the
  ledger, where the Completion, new or holding another order, shows it gone; or the
  ledger is not told, and the order is put into `orphaned`.
- `ExposureCovered`: `Cover` says of each order with a reservation that it reserves
  at least what is open (`CoveredAt`), of a create under way that its reservation
  is what it asked for (`CreateReserved`), and of the counter that it is the sum of
  the reservations as long as no order is `unbacked` (`Exact`). Only with the last can
  a step about one order be shown to leave enough for the others. The difficult step
  is a replacement the book refuses: what is undone is what was added, except for a
  decrease or an order no longer in the book (`RouterOrphan.cfg`); such an order counts
  as `unbacked`, like one that grew without a reservation. `UnknownEnds` is the lemma
  that reports take an `unknown` order nowhere but out of the book.
- `WaitBounded`: `Turns` relates how long a strategy has waited to the distance from
  it to the scheduler's cursor: the quanta of the strategies the cursor passed
  (`PassedOnly`) and the spent part of the current visit (`VisitSound`).

`ReadyMeansAgreed` relates three moments. `Lists` says of a reconciliation under way
that the list of the book's orders is what the book still holds (only the driver
changes it, and it is waiting), that an order of which the venue has emitted nothing
since the fetch is at the venue as the fetched list has it, and that an order missing
from a list was absent, unless the list is full. A clean comparison of the two lists is
then agreement for every order the venue has left alone since.

**ReplayProofs, the market book.** `LadderInv` states for one side what an insertion, an eviction
and a removal preserve; `CrossInv` that a book which is not crossed has its
tolerance whole, so that only a crossed book can exhaust it.

**OmsProofs, the journal.** The properties speak of what a recovery finds after a
crash at any point; `JournalInv` says what is true before it.

- `PlaceInv`: the records of a shard are in the order of their numbers (`Pos`: three
  times the operation number and the rank of the kind within the operation) along the
  path from the worker's hand through the outbox to the log, and records with the
  same number are of one order. So a stable sort of any prefix of the log brings the
  records of an order back into the order in which they were written
  (`OrderedSorted`), whatever the shards did to each other.
- `ChainInv`: the first record of an order opens it and each next one fits the
  `image` of the one before, unless the order is one the properties leave out. It is
  about records next to each other, and is what the validation of the replay asks.
- `LatestInv`: the last record of an order shows it as it is in the book.
- `StopInv`: what the writer still owes: after `stop()` was seen there is a full pass
  to come or under way, and what lies in an outbox it has passed came later.
- `RecInv`: what a recovery has rebuilt.

`RebuiltShown` is the induction over the replayed records (`Replays` is a recursive
function, so `InductUpTo` of `DataProofs` applies): after k records the rebuilt book
holds the orders whose last record so far leaves them open, each as that record's
image. For `RecoveryAccepts` no two records are alike (`Pos` and order differ), so the
duplicate rule of the batch `recover` never applies.

**ReplayProofs, the capture.** `CaptureInv` has, beside the types, four main parts.

- `DiskInv`: every segment but the last is `Closed` (whole, and no boundary cuts it),
  and so are the ones that wait for the compressor. What is known of the last depends
  on the recorder's phase (`CurrentInv`); while it is written to, `Named` says which
  slot the next generation leaves alone and that this slot names every committed frame:
  hence a half written slot costs nothing, and neither does a process that dies there.
- `SafeInv`: each sidecar that may be on disk names a boundary between what was flushed
  and what is committed. So a loss of power cuts behind the flushed frames and never
  within them. It is here that the proof needs the sidecar to be one sector. After a loss
  of power the open segment is no longer of that kind (its boundary may name frames that
  are gone), but what is on disk then is all there is: until a recovery has closed the
  segment, another loss takes nothing more (`PowerAgain`).
- `LogInv`: `KeptReadable` and `RecordsContiguous` with what makes them inductive: a
  session's number is larger than that of every record before it (`SessionInv`), the
  record to append follows the last one in the log (`FollowInv`), and local times rise
  until the machine restarts (`TimeInv`).
- `TailInv`: the run ends where the cursor stands (`PositionInv`). The recorder's steps
  either leave every segment's readable records alone or extend those of the last one
  (`Grows`), so a tailer only has to know that the segment it leaves was read to its
  end after a later one had been seen; and while a segment is written, the cursor is
  not ahead of it (`CursorInv`), so that what is added later is not skipped.
  `ReaderInv` is about a read under way. Until the sidecar is read, what the stream
  has taken up to the first frame that is not whole is what the file holds, or a
  recovery has cut it off (`Matches`). Afterwards what the scan accepts is in the log
  and stays there (`InLog`, `Secure`), and within the boundary it meets records and
  zeros only (`Explained`), unless the power failed or `torn` or `dropped` says what
  happened in between. This rests on `NamedInv`: no boundary names more than its
  segment has. For each step of the recorder a lemma says what it leaves alone of a segment
  that is being read.

What a reader of all segments gets is a fold. `FlattenSteps` and `PolledSteps` turn it
into a function on the numbers up to the number of segments, over which `InductUpTo`
applies; `ReplayFacts` is then the induction that a replay without error gives the
whole log, and that rising times and clean segments leave no error.

**DataProofs.** The library's induction theorems take an operator, which the provers
cannot instantiate. Stated about sets (`InductNat`: a set of numbers that contains 0
and the successor of each of its members contains all), induction is within reach; so
are sums over finite sets (`SumAdd`, `SumChange`, `SumRenamed`, ...) and recursive
functions on an initial segment of the numbers (`StepsExist`).

**Only model-checked.**

- Liveness (`CatchesUp`, `PublishedAnswered`, `RecordsBecomeDurable`,
  `CommandAnswered`, `OrphanClosed`, `TailerCatchesUp`): fairness and ENABLED are
  beyond the prover.
- The paper broker (`FilledExactly`, `PositionConserved`, `MoneyConserved`): a round is
  a fold over the slots with a choice in each, its sums are over what the fold has
  changed so far, and the bound on the money is a product of variables.
- What the findings say of `RiskLedger` when reservations cannot be found.

## 6. Plan

What was modelled, in this order: the book and its reports, the ledger, the journal;
then the runtime with its bridge, the broker, the log with feed, tailer and replay,
the venue pipeline, the sharded book, the market book. What was proved: section 5.
Left:

1. Proofs about `PaperBroker`.
2. A second life of the journal in the same directory (the restart of `LiveJournal`
   over the segments of `Capture`), and the broker's own journal.
3. Several venues under one ledger, and the races on its reservation table.

## 7. Not modelled

Floating-point code (indicators, features, learner, price and slippage models),
byte formats and checksums, the SQLite logger, the benchmarks, the agent scripts
and the dashboard: numeric, pure input and output, or drivers of what is modelled.
The position manager, portfolio and three-way reconciler, the limits verifier, the
kill-switch file, the supervisor, the instance lock, the slab pool and the
backpressure counters are used by tests, or by recovery for records that are never
written. Each is listed under `components` with its reason.
