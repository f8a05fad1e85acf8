------------------------------- MODULE Router -------------------------------
(***************************************************************************)
(* Strategies trading on one venue through the whole pipeline: scheduler,  *)
(* risk-gated router, ledger, self-trade prevention, session and           *)
(* connection gates, rate limiter with its queue of deferred requests, and *)
(* the order book; the venue's reports; and what a lost connection, a halt *)
(* or a restart does to all of it until reconciliation reaches READY.      *)
(*                                                                         *)
(* One thread owns the venue. Only the venue itself, the clock and the     *)
(* global halt move while it is inside a call, so a call is as many steps  *)
(* as it has moments at which it looks at one of them: a create looks at   *)
(* the halt before and after its way to the book; a reconciliation fetches *)
(* the reports, applies each, lists the book's orders, fetches the venue's *)
(* and compares. Approval and insertion on the book's worker are one step: *)
(* ShardedOms separates them. The ledger has one limit: RiskLedger has its *)
(* dimensions, credit and concurrency. A gap pool that runs full is        *)
(* ReportSequencer's business.                                             *)
(***************************************************************************)
EXTENDS ExecReports, Sequences, Functions

G == INSTANCE VenueGates

CONSTANTS StrategyCount,   \* registered strategies, 0 .. StrategyCount - 1
          Quantum,         \* their weights
          QueueLength,     \* queue_capacity_per_strategy
          Owner, Sign,     \* strategy of each order; 1 when it buys, -1 when it sells
          OpenLimit,       \* open_order_limit
          Burst,           \* burst_capacity of each bucket
          PendingCapacity, \* pending_queue_capacity; 0 is the policy that never defers
          ReducingAllowed, \* allow_risk_reducing_during_halt
          Rooms,           \* the buffers a caller may give a reconciliation
          Scenarios,       \* what strategies may ask for, session at the start, faults allowed
          MaxReports,      \* bound: reports a venue emits for each order
          MaxTicks         \* bound: how often the buckets are refilled

Strategies == 0 .. (StrategyCount - 1)

\* A cancel names no volume.
Request == [kind : {"order", "replace"}, ref : Refs, volume : Volumes]
           \cup [kind : {"cancel"}, ref : Refs, volume : {0}]

FaultKinds == {"down",     \* the connection is lost
               "lost",     \* an order never reaches the venue
               "halt",     \* the global kill switch is thrown
               "session",  \* the session changes
               "crash",    \* the process restarts
               "reuse",    \* a permission: a Completion is used for more than one call
               "flood"}    \* a permission: requests are repeated without end

\* How many reports, orders of the book, orders of the venue and differences have room.
Room == [reports : Nat, local : Nat, remote : Nat, results : Nat]

ASSUME RouterAssumption ==
  /\ IsFiniteSet(Refs)
  /\ StrategyCount \in Nat \ {0} /\ Quantum \in [Strategies -> Nat \ {0}]
  /\ Owner \in [Refs -> Strategies] /\ Sign \in [Refs -> {1, -1}]
  /\ Burst \in [G!RateLimitKinds -> Nat]
  /\ ReducingAllowed \in BOOLEAN
  /\ \A n \in {QueueLength, OpenLimit, PendingCapacity, MaxReports, MaxTicks} : n \in Nat
  /\ Rooms \subseteq Room
  /\ Scenarios \subseteq [requests : SUBSET Request, session : G!SessionStates,
                           faults : SUBSET FaultKinds]

VARIABLES held,      \* reports held for a gap
          late,      \* TerminalCache: orders that reports finished
          venue,     \* the venue: its view of each order and the reports it emitted
          ledger,    \* RiskLedger
          net,       \* SelfTradeTracker's entry
          gates,     \* connection state, session, global halt
          sched,     \* StrategyScheduler: queues, cursor, visit_deficit_
          limiter,   \* VenueRateLimiter: tokens, deferred requests
          driver,    \* what the owner thread is doing
          budget,    \* requests that may still be made, faults that may still happen, ticks
          notes      \* history, see Notes

vars == <<omsVars, held, late, venue, ledger, net, gates, sched, limiter, driver, budget, notes>>

Idle == [pc |-> "idle"]
NotListed == [state |-> "new_order", requested |-> 0, filled |-> 0, asks |-> <<>>, log |-> <<>>]
NoNet == [owner |-> 0, net |-> 0]
Empty == [res |-> [r \in Refs |-> G!NoRes], open |-> 0, position |-> 0]
EmptyQueues == [queue |-> [s \in Strategies |-> <<>>], cursor |-> 0, visit |-> 0]
FullBuckets == [tokens |-> Burst, pending |-> <<>>]

\* unbacked: orders given volume the ledger was not asked for, or that kept volume it was told is
\* gone, or whose reservation was cut by volume it never had; orphaned: orders whose end the ledger
\* was not told; waited: requests of others served since a strategy that has one was served.
Notes == [unbacked : SUBSET Refs, orphaned : SUBSET Refs, waited : [Strategies -> Nat]]

Init == \E s \in Scenarios :
  /\ OmsInit
  /\ held = {} /\ late = {} /\ ledger = Empty /\ net = NoNet
  /\ venue = [r \in Refs |-> NotListed]
  /\ gates = [conn |-> "connected", session |-> s.session, halted |-> FALSE]
  /\ sched = EmptyQueues /\ limiter = FullBuckets /\ driver = Idle
  /\ budget = [requests |-> s.requests, faults |-> s.faults, ticks |-> 0]
  /\ notes = [unbacked |-> {}, orphaned |-> {}, waited |-> [s1 \in Strategies |-> 0]]

IsIdle == driver = Idle

Fault(f) == f \in budget.faults /\ budget' = [budget EXCEPT !.faults = @ \ {f}]
-----------------------------------------------------------------------------
(* StrategyScheduler *)

enqueue(q) ==
  LET s == Owner[q.ref]
  IN /\ IsIdle
     /\ q \in budget.requests
     /\ Len(sched.queue[s]) < QueueLength
     /\ sched' = [sched EXCEPT !.queue[s] = Append(@, q)]
     /\ budget' = IF "flood" \in budget.faults THEN budget
                  ELSE [budget EXCEPT !.requests = @ \ {q}]
     /\ UNCHANGED <<omsVars, held, late, venue, ledger, net, gates, limiter, driver, notes>>

\* The request that is served next, and what serving it does to the scheduler.
Served == G!Turn(sched.queue, sched.cursor, StrategyCount)

Serve ==
  LET s == Served
      left == G!VisitBudget(s, sched.cursor, sched.visit, Quantum)
      rest == Tail(sched.queue[s])
      over == G!VisitEnds(rest, left)
  IN sched' = [queue  |-> [sched.queue EXCEPT ![s] = rest],
               cursor |-> IF over THEN (s + 1) % StrategyCount ELSE s,
               visit  |-> IF over THEN 0 ELSE left - 1]

Waited(s) == [t \in Strategies |->
                IF t = s \/ sched.queue[t] = <<>> THEN 0 ELSE notes.waited[t] + 1]
-----------------------------------------------------------------------------
(* VenueRateLimiter. A decision is the limiter it leaves and what it says. *)

HasToken(q) == limiter.tokens[q.kind] > 0

Consumed(q) == [limiter EXCEPT !.tokens[q.kind] = @ - 1]

\* Without a token the request waits in the queue, or is rejected when that is full.
Deferred(q) ==
  IF Len(limiter.pending) < PendingCapacity THEN [limiter EXCEPT !.pending = Append(@, q)]
  ELSE limiter

\* admit: only asked when the gates before it let the request through.
admit(q, routed) ==
  limiter' = IF ~routed THEN limiter ELSE IF HasToken(q) THEN Consumed(q) ELSE Deferred(q)

\* The oldest deferred request, once it has a token; the ones behind it wait for it.
try_drain_one(q) ==
  /\ limiter.pending # <<>>
  /\ q = Head(limiter.pending)
  /\ HasToken(q)
  /\ limiter' = [Consumed(q) EXCEPT !.pending = Tail(@)]

refill ==
  /\ budget.ticks < MaxTicks
  /\ limiter' = [limiter EXCEPT !.tokens = [k \in G!RateLimitKinds |-> G!Min({Burst[k], @[k] + 1})]]
  /\ budget' = [budget EXCEPT !.ticks = @ + 1]
  /\ UNCHANGED <<omsVars, held, late, venue, ledger, net, gates, sched, driver, notes>>
-----------------------------------------------------------------------------
(* RiskGatedRouter. Each submit_ serves the scheduler's next request. *)

NewExposureAllowed == /\ G!allows_new_exposure(gates.session)
                      /\ G!connection_allows_new_exposure(gates.conn)

Dispatches(q, kind) ==
  /\ IsIdle
  /\ \E s \in Strategies : sched.queue[s] # <<>>
  /\ q = Head(sched.queue[Served])
  /\ q.kind = kind
  /\ Serve
  /\ UNCHANGED <<held, late, gates, budget>>

Took == [notes EXCEPT !.waited = Waited(Served)]

Reservable(q) == /\ ~gates.halted
                 /\ ~G!Held(ledger, q.ref)
                 /\ G!Fits(ledger, q.volume, OpenLimit)

\* reserve, self-trade check, session, connection and limiter. What is rejected or deferred
\* gives its reservation back; the self-trade tracker keeps what it was told.
submit_create(q) ==
  LET s == Owner[q.ref]
      traded == Reservable(q) /\ G!self_trade_ok(net, s, Sign[q.ref])
      routed == traded /\ NewExposureAllowed
      sent == routed /\ HasToken(q)
  IN /\ Dispatches(q, "order")
     /\ net' = IF traded THEN G!SelfTradeApplied(net, s, Sign[q.ref] * q.volume) ELSE net
     /\ admit(q, routed)
     /\ ledger' = IF sent THEN G!reserve(ledger, q.ref, q.volume) ELSE ledger
     /\ driver' = IF sent THEN [pc |-> "create", request |-> q] ELSE Idle
     /\ notes' = Took
     /\ UNCHANGED <<omsVars, venue>>

\* standing_approval: the kill switch once more, on the shard's worker.
Approved == ~gates.halted

\* ShardedOms::submit_create as its worker applies it, and the router's unwinding.
ApplyCreate ==
  LET q == driver.request
  IN /\ driver.pc = "create"
     /\ \/ Approved /\ create(q.ref, q.volume) /\ UNCHANGED ledger
        \/ /\ ~Approved \/ q.ref \in live \/ ~HasRoom
           /\ ledger' = G!release(ledger, q.ref)
           /\ UNCHANGED omsVars
     /\ driver' = Idle
     /\ UNCHANGED <<held, late, venue, net, gates, sched, limiter, budget, notes>>

CanCancel(r) == r \in live /\ legal(order[r].state, "cancel_pending")

\* A bug in submit_cancel: a cancellation that is on its way counts as one that happened.
CancelSeen_Gone(r) == G!reconcile(ledger, r, order[r].filled_volume, TRUE, Sign[r])

\* What the ledger is told after a cancel: the order is still there.
CancelSeen(r) == G!reconcile(ledger, r, order[r].filled_volume, FALSE, Sign[r])

Cancellable == G!allows_risk_reducing(gates.session, ReducingAllowed)

\* Neither the connection nor the ledger is asked: a cancel reduces risk.
route_cancel(q) ==
  LET sent == Cancellable /\ HasToken(q) /\ CanCancel(q.ref)
  IN /\ admit(q, Cancellable)
     /\ \/ sent /\ transition(q.ref, "cancel_pending") /\ ledger' = CancelSeen(q.ref)
        \/ ~sent /\ UNCHANGED <<omsVars, ledger>>

submit_cancel(q) ==
  /\ Dispatches(q, "cancel")
  /\ \/ ~gates.halted /\ route_cancel(q)
     \/ gates.halted /\ UNCHANGED <<omsVars, ledger, limiter>>
  /\ notes' = Took
  /\ UNCHANGED <<venue, net, driver>>

CanReplace(q) == q.ref \in live /\ Replaceable(order[q.ref], q.volume)

\* The book takes the new volume at once; the venue is told and confirms it later.
Replaces(q) ==
  /\ order' = [order EXCEPT ![q.ref].requested_volume = q.volume]
  /\ venue' = [venue EXCEPT ![q.ref].asks = Append(@, q.volume)]
  /\ UNCHANGED <<live, reserved>>

\* As much of a new order as route_create: session, connection, limiter, book.
Replacing(q) == NewExposureAllowed /\ HasToken(q) /\ CanReplace(q)

route_replace(q) ==
  /\ admit(q, NewExposureAllowed)
  /\ \/ Replacing(q) /\ Replaces(q)
     \/ ~Replacing(q) /\ UNCHANGED <<omsVars, venue>>

\* The ledger first, then the route to the book. A refused increase is undone by its
\* difference to the book's volume, which takes the whole volume off the reservation of an
\* order that left the book, what it filled included; a refused decrease is not undone.
submit_replace(q) ==
  LET r == q.ref
      delta == q.volume - ledger.res[r].requested
      old == order[r].requested_volume      \* 0 when the book does not have the order
      adjusted == ~gates.halted /\ G!Held(ledger, r) /\ (delta > 0 => G!Fits(ledger, delta, OpenLimit))
      refused == adjusted /\ ~Replacing(q)
      l == G!Resized(ledger, r, delta)
  IN /\ Dispatches(q, "replace")
     /\ \/ adjusted /\ route_replace(q)
        \/ ~adjusted /\ UNCHANGED <<omsVars, venue, limiter>>
     /\ ledger' = IF ~adjusted THEN ledger
                  ELSE IF refused /\ q.volume > old THEN G!Resized(l, r, old - q.volume) ELSE l
     /\ notes' = [Took EXCEPT !.unbacked = IF refused /\ (q.volume < old \/ r \notin live)
                                           THEN @ \cup {r} ELSE @]
     /\ UNCHANGED <<net, driver>>

\* drain_pending, one request: straight to the book, past every gate but the standing approval.
drain_pending ==
  LET q == Head(limiter.pending)
      creates == q.kind = "order" /\ Approved /\ q.ref \notin live /\ HasRoom
      cancels == q.kind = "cancel" /\ CanCancel(q.ref)
      replaces == q.kind = "replace" /\ CanReplace(q)
      grows == creates \/ (replaces /\ q.volume > ledger.res[q.ref].requested)
  IN /\ IsIdle
     /\ try_drain_one(q)
     /\ \/ creates /\ create(q.ref, q.volume) /\ UNCHANGED venue
        \/ cancels /\ transition(q.ref, "cancel_pending") /\ UNCHANGED venue
        \/ replaces /\ Replaces(q)
        \/ ~creates /\ ~cancels /\ ~replaces /\ UNCHANGED <<omsVars, venue>>
     /\ notes' = [notes EXCEPT !.unbacked = IF grows THEN @ \cup {q.ref} ELSE @]
     /\ UNCHANGED <<held, late, ledger, net, gates, sched, driver, budget>>
-----------------------------------------------------------------------------
(* Reports: ReportSequencer::process with the whole of drain, as one call sees it. *)

Stamp(o, n) == [o EXCEPT !.last_applied_seq = n]

\* Report k in a cascade that report n of order r began: it is applied when it is at hand and
\* none before it was missing or refused, or finished the order.
Follow(r, n, acc, k) ==
  LET rep == venue[r].log[k]
      next == Result(acc.order, rep)
  IN IF ~acc.go \/ (k # n /\ <<r, k>> \notin held) THEN [acc EXCEPT !.go = FALSE]
     ELSE IF Accepts(acc.order, rep)
     THEN [order |-> Stamp(next, k), go |-> ~is_terminal(next.state), taken |-> acc.taken \cup {<<r, k>>}]
     ELSE [order |-> next, go |-> FALSE, taken |-> acc.taken \cup {<<r, k>>}]

\* Report n of order r and the held ones that follow it.
Cascade(r, n) ==
  LET c[i \in 0 .. Len(venue[r].log) - n + 1] ==
        IF i = 0 THEN [order |-> order[r], go |-> TRUE, taken |-> {}]
        ELSE Follow(r, n, c[i-1], n + i - 1)
  IN c[Len(venue[r].log) - n + 1]

Outcome(r, n) ==
  IF r \notin live THEN IF r \in late THEN "terminal_late" ELSE "unknown_order"
  ELSE IF n <= order[r].last_applied_seq THEN "duplicate"
  ELSE IF n > order[r].last_applied_seq + 1 THEN "held_for_gap"
  ELSE IF Accepts(order[r], venue[r].log[n]) THEN "applied" ELSE "illegal"

OfOrder(r) == {h \in held : h[1] = r}

\* process(r, n) and what it does to the book, the pool and the cache.
process(r, n) ==
  LET c == Cascade(r, n)
  IN \/ /\ Outcome(r, n) = "applied"
        /\ Settle(r, c.order)
        /\ held' = IF is_terminal(c.order.state) THEN held \ OfOrder(r) ELSE held \ c.taken
        /\ late' = IF is_terminal(c.order.state) THEN late \cup {r} ELSE late
     \/ /\ Outcome(r, n) = "illegal"
        /\ Settle(r, Result(order[r], venue[r].log[n]))
        /\ UNCHANGED <<held, late>>
     \/ /\ Outcome(r, n) = "held_for_gap"
        /\ held' = held \cup {<<r, n>>}
        /\ UNCHANGED <<omsVars, late>>
     \/ /\ Outcome(r, n) \in {"terminal_late", "unknown_order", "duplicate"}
        /\ UNCHANGED <<omsVars, held, late>>

\* Completion::order, as far as the router reads it back: the order it names, if any.
Blank == [of |-> {}, state |-> "new_order", filled |-> 0]
Image(r, o) == [of |-> {r}, state |-> o.state, filled |-> o.filled_volume]

\* What a caller hands in: a fresh Completion, or one with an order that an earlier call of its
\* own, a find at the latest, left there.
Handed == {Blank} \cup {c \in {Image(x, order[x]) : x \in live} : "reuse" \in budget.faults}

\* The worker copies the order if the book still has it, and leaves the Completion alone if not.
Seen(r, n, given) == IF is_terminal(Cascade(r, n).order.state) THEN given
                     ELSE Image(r, Cascade(r, n).order)

\* A bug the comment warns of: only the state that was read back is looked at.
terminal_or_gone_StateOnly(r, out) == is_terminal(out.state)

terminal_or_gone(r, out) == is_terminal(out.state) \/ r \notin out.of

\* A confirmed replacement sets the book's volume to what the venue confirms, which need not
\* be what the ledger was told last.
Outgrown(r, n) == /\ Outcome(r, n) = "applied"
                  /\ ~is_terminal(Cascade(r, n).order.state)
                  /\ Cascade(r, n).order.requested_volume > ledger.res[r].requested

\* A Completion that names another order is taken for the end of r, with the other's fills.
Overcut(r, out) == r \notin out.of /\ out.filled > ledger.res[r].requested

\* The ledger is told what the Completion says of an order the report was applied to.
ReportSeen(r, n, out) ==
  /\ ledger' = G!reconcile(ledger, r, out.filled, terminal_or_gone(r, out), Sign[r])
  /\ notes' = [notes EXCEPT !.unbacked = IF Outgrown(r, n) \/ Overcut(r, out) THEN @ \cup {r} ELSE @,
                            !.orphaned = IF r \in out.of THEN @ \cup (live \ live') ELSE @]

submit_report(r, n) ==
  /\ IsIdle
  /\ gates.conn # "disconnected"
  /\ n \in 1 .. Len(venue[r].log)
  /\ process(r, n)
  /\ \/ /\ Outcome(r, n) = "applied"
        /\ \E given \in Handed : ReportSeen(r, n, Seen(r, n, given))
     \/ Outcome(r, n) # "applied" /\ UNCHANGED <<ledger, notes>>
  /\ UNCHANGED <<venue, net, gates, sched, limiter, driver, budget>>
-----------------------------------------------------------------------------
(* The venue, and the gateway that sends it orders. *)

Rest == <<held, late, ledger, net, gates, sched, limiter, driver, notes>>

Send(r) ==
  /\ IsIdle
  /\ gates.conn # "disconnected"
  /\ transition(r, "sent")
  /\ \/ venue' = [venue EXCEPT ![r].state = "sent", ![r].requested = order[r].requested_volume,
                               ![r].asks = <<>>]
        /\ UNCHANGED budget
     \/ Fault("lost") /\ UNCHANGED venue
  /\ UNCHANGED Rest

OpenAtVenue == {r \in Refs : venue[r].state \notin Terminal \cup {"new_order"}}

\* The venue moves an order along and reports it.
VenueDoes(r, kind, v, view) ==
  /\ r \in OpenAtVenue
  /\ Len(venue[r].log) < MaxReports
  /\ venue' = [venue EXCEPT ![r] = [view EXCEPT !.log = Append(@, [kind |-> kind, volume |-> v])]]
  /\ UNCHANGED <<omsVars, budget, Rest>>

VenueMoves(r) ==
  LET o == venue[r]
  IN \/ o.state = "sent" /\ VenueDoes(r, "ack", 0, [o EXCEPT !.state = "acknowledged"])
     \/ \E v \in Volumes :
          LET cum == o.filled + v
          IN /\ o.state # "sent" /\ cum <= o.requested
             /\ VenueDoes(r, "fill", v, [o EXCEPT !.filled = cum,
                  !.state = IF cum = o.requested THEN "filled"
                            ELSE IF @ = "cancel_pending" THEN @ ELSE "partially_filled"])
     \/ /\ o.state \in {"acknowledged", "partially_filled"}
        /\ VenueDoes(r, "cancel_pending", 0, [o EXCEPT !.state = "cancel_pending"])
     \/ /\ o.state = "cancel_pending" \/ (o.state # "sent" /\ order[r].state = "cancel_pending")
        /\ VenueDoes(r, "cancelled", 0, [o EXCEPT !.state = "cancelled"])
     \/ /\ o.state \in {"acknowledged", "partially_filled"} /\ o.asks # <<>> /\ Head(o.asks) > o.filled
        /\ VenueDoes(r, "replace_ack", Head(o.asks),
                     [o EXCEPT !.requested = Head(o.asks), !.asks = Tail(@)])
-----------------------------------------------------------------------------
(* Connection, session, halt, restart, and reconciliation. *)

Others == <<omsVars, held, late, venue, ledger, net, sched, limiter, driver, notes>>

halt_globally == Fault("halt") /\ gates' = [gates EXCEPT !.halted = TRUE] /\ UNCHANGED Others

set_session == /\ IsIdle /\ Fault("session")
               /\ \E s \in G!SessionStates : gates' = [gates EXCEPT !.session = s]
               /\ UNCHANGED Others

disconnect == /\ IsIdle /\ Fault("down")
              /\ gates' = [gates EXCEPT !.conn = "disconnected"]
              /\ UNCHANGED Others

begin_recovery == /\ IsIdle
                  /\ gates.conn = "disconnected"
                  /\ gates' = [gates EXCEPT !.conn = "reconciling"]
                  /\ UNCHANGED <<Others, budget>>

AllReports == {rn \in Refs \X (1 .. MaxReports) : rn[2] <= Len(venue[rn[1]].log)}

\* What a buffer with room for n holds of the set S: all of it, or as much as it has room for.
Copied(S, n) == {T \in SUBSET S : Cardinality(T) <= n /\ (T = S \/ Cardinality(T) = n)}

\* fetch_recent_reports: what the venue has emitted, from the oldest on as far as there is room.
FetchReports ==
  \E room \in Rooms : \E todo \in Copied(AllReports, room.reports) :
    /\ \A rn \in todo : \A k \in 1 .. rn[2] : <<rn[1], k>> \in todo
    /\ driver' = [pc |-> "reports", room |-> room, todo |-> todo, bad |-> FALSE]

\* rebuild_from_snapshot; every order counts as one that buys, as its side is not kept.
Rebuilt ==
  LET open == {r \in live : remaining(order[r]) > 0}
  IN [res |-> [r \in Refs |-> IF r \in open
                              THEN G!Reservation(order[r].requested_volume, order[r].filled_volume)
                              ELSE G!NoRes],
      open |-> SumFunctionOnSet([r \in Refs |-> remaining(order[r])], open),
      position |-> SumFunctionOnSet([r \in Refs |-> order[r].filled_volume], open)]

\* The process dies and restart_recover_venue loads what the journal has, here all of it: every
\* live order comes back as unknown. Everything else is as new, and a reconciliation begins.
restart_recover_venue ==
  /\ Fault("crash")
  /\ order' = [r \in Refs |-> IF r \in live THEN NewOrder("unknown", order[r].requested_volume, order[r].filled_volume)
                              ELSE NoOrder]
  /\ UNCHANGED live
  /\ reserved' = SumFunctionOnSet([r \in Refs |-> order[r].requested_volume], live)
  /\ held' = {} /\ late' = {} /\ ledger' = Rebuilt /\ net' = NoNet
  /\ gates' = [gates EXCEPT !.conn = "reconciling", !.halted = FALSE]
  /\ sched' = EmptyQueues /\ limiter' = FullBuckets /\ FetchReports
  /\ notes' = [notes EXCEPT !.unbacked = {}, !.orphaned = {}, !.waited = [s \in Strategies |-> 0]]
  /\ UNCHANGED venue

run_reconciliation ==
  /\ IsIdle
  /\ gates.conn = "reconciling"
  /\ FetchReports
  /\ UNCHANGED <<omsVars, held, late, venue, ledger, net, gates, sched, limiter, budget, notes>>

\* A fetched report goes to the book directly; the ledger does not hear of it. The adapter
\* hands over each order's reports as they were emitted.
ReconcileReport ==
  /\ driver.pc = "reports"
  /\ \E r \in Refs, n \in 1 .. MaxReports :
       /\ <<r, n>> \in driver.todo
       /\ \A k \in 1 .. n - 1 : <<r, k>> \notin driver.todo
       /\ process(r, n)
       /\ driver' = [driver EXCEPT !.todo = @ \ {<<r, n>>},
                                   !.bad = @ \/ Outcome(r, n) \in {"illegal", "unknown_order"}]
       /\ notes' = [notes EXCEPT !.orphaned = @ \cup (live \ live'),
                                 !.unbacked = IF Outgrown(r, n) THEN @ \cup {r} ELSE @]
  /\ UNCHANGED <<venue, ledger, net, gates, sched, limiter, budget>>

View(state, requested, filled) == [state |-> state, requested |-> requested, filled |-> filled]

LocalOrders == [r \in live |-> View(order[r].state, order[r].requested_volume, order[r].filled_volume)]
VenueOrders == [r \in OpenAtVenue |-> View(venue[r].state, venue[r].requested, venue[r].filled)]

Compares == UNCHANGED <<omsVars, held, late, venue, ledger, net, sched, limiter, budget, notes>>

\* The list of the book's orders is taken; `strict` is how retry_after_resolution compares.
ListLocal(room, bad, strict) ==
  \E S \in Copied(live, room.local) :
    driver' = [pc |-> "fetch", room |-> room, bad |-> bad, strict |-> strict,
               local |-> Restrict(LocalOrders, S)]

SnapshotOrders ==
  /\ driver.pc = "reports"
  /\ driver.todo = {}
  /\ ListLocal(driver.room, driver.bad, FALSE)
  /\ UNCHANGED gates /\ Compares

\* fetch_open_orders. `seen` is history: the reports that were out by then.
FetchOpenOrders ==
  /\ driver.pc = "fetch"
  /\ \E S \in Copied(OpenAtVenue, driver.room.remote) :
       driver' = [pc |-> "compare", room |-> driver.room, bad |-> driver.bad, strict |-> driver.strict,
                  local |-> driver.local, remote |-> Restrict(VenueOrders, S),
                  seen |-> [r \in Refs |-> Len(venue[r].log)]]
  /\ UNCHANGED gates /\ Compares

\* A clean comparison makes the connection ready; a strict one must have nothing to compare.
CompareOrders ==
  LET statuses == G!compare(driver.local, driver.remote)
  IN /\ driver.pc = "compare"
     /\ \E S \in Copied(DOMAIN statuses, driver.room.results) :
          LET clean == /\ G!clean(Restrict(statuses, S), driver.local, driver.bad)
                       /\ driver.strict => S = {}
          IN gates' = [gates EXCEPT !.conn = IF clean THEN "ready" ELSE @]
     /\ driver' = Idle
     /\ Compares

\* An operator who found out how an unknown order ended tells the book.
ResolveUnknown(r) ==
  /\ IsIdle
  /\ gates.conn = "reconciling"
  /\ r \notin OpenAtVenue
  /\ \E t \in Terminal : venue[r].state \in {t, "new_order"} /\ resolve_unknown(r, t)
  /\ notes' = [notes EXCEPT !.orphaned = @ \cup {r}]
  /\ UNCHANGED <<held, late, venue, ledger, net, gates, sched, limiter, driver, budget>>

\* RecoveryWorkflow::retry_after_resolution counts a match as a difference too.
retry_after_resolution ==
  /\ IsIdle
  /\ gates.conn = "reconciling"
  /\ \E room \in Rooms : ListLocal(room, FALSE, TRUE)
  /\ UNCHANGED gates /\ Compares
-----------------------------------------------------------------------------
Next == \/ \E q \in Request : enqueue(q) \/ submit_create(q) \/ submit_cancel(q) \/ submit_replace(q)
        \/ ApplyCreate \/ drain_pending \/ refill
        \/ \E r \in Refs : \/ \E n \in 1 .. MaxReports : submit_report(r, n)
                           \/ Send(r) \/ VenueMoves(r) \/ ResolveUnknown(r)
        \/ halt_globally \/ set_session \/ disconnect \/ begin_recovery \/ restart_recover_venue
        \/ run_reconciliation \/ ReconcileReport \/ retry_after_resolution
        \/ SnapshotOrders \/ FetchOpenOrders \/ CompareOrders

Spec == Init /\ [][Next]_vars
-----------------------------------------------------------------------------
\* The cross-venue exposure report, for this venue: what its live orders may yet execute.
accumulate_venue_exposure == SumFunctionOnSet([r \in Refs |-> remaining(order[r])], live)

VenueView == [state : OrderStates, requested : Nat, filled : Nat, asks : Seq(Nat),
              log : Seq([kind : Kinds, volume : Nat])]
Ledger == [res : [Refs -> [active : BOOLEAN, requested : Int, filled : Int]], open : Int, position : Int]
Gates == [conn : G!ConnectionStates, session : G!SessionStates, halted : BOOLEAN]
Scheduler == [queue : [Strategies -> Seq(Request)], cursor : Strategies, visit : Nat]
Limiter == [tokens : [G!RateLimitKinds -> Nat], pending : Seq(Request)]
OrderLists == UNION {[S -> [state : OrderStates, requested : Nat, filled : Nat]] : S \in SUBSET Refs}
Driver == {Idle} \cup [pc : {"create"}, request : [kind : {"order"}, ref : Refs, volume : Volumes]]
                 \cup [pc : {"reports"}, room : Room, todo : SUBSET (Refs \X (1 .. MaxReports)), bad : BOOLEAN]
                 \cup [pc : {"fetch"}, room : Room, bad : BOOLEAN, strict : BOOLEAN, local : OrderLists]
                 \cup [pc : {"compare"}, room : Room, bad : BOOLEAN, strict : BOOLEAN, local : OrderLists,
                       remote : OrderLists, seen : [Refs -> Nat]]
Budget == [requests : SUBSET Request, faults : SUBSET FaultKinds, ticks : 0 .. MaxTicks]

TypeOK ==
  /\ OmsTypeOK
  /\ held \subseteq Refs \X (1 .. MaxReports) /\ late \subseteq Refs
  /\ venue \in [Refs -> VenueView] /\ \A r \in Refs : Len(venue[r].log) <= MaxReports
  /\ ledger \in Ledger /\ gates \in Gates /\ driver \in Driver /\ budget \in Budget
  /\ sched \in Scheduler /\ \A s \in Strategies : Len(sched.queue[s]) <= QueueLength
  /\ limiter \in Limiter /\ \A k \in G!RateLimitKinds : limiter.tokens[k] <= Burst[k]
  /\ Len(limiter.pending) <= PendingCapacity
  /\ notes \in Notes

\* Every order in the book is covered: whatever was cut, confirmed, filled, reconciled or
\* restarted, the ledger still reserves at least what the order may yet execute - unless the
\* order got its volume past the router, the book kept volume the ledger was told is gone, or an
\* undone replacement took away more than it had added. Without such an order the exposure
\* report never shows more than the ledger's counter, which the limit is checked against.
ExposureCovered ==
  /\ \A r \in live \ notes.unbacked :
       ledger.res[r].requested - ledger.res[r].filled >= remaining(order[r])
  /\ notes.unbacked = {} => accumulate_venue_exposure <= ledger.open

\* No reservation outlives its order, so that limits are not used up by orders that are gone -
\* unless the ledger was not told: the order ended in a reconciliation, or by a report whose
\* caller used a Completion in which an earlier call had left an image of the same order.
NoReservationLeaks ==
  \A r \in Refs : G!Held(ledger, r) =>
    r \in live \cup notes.orphaned \/ (driver.pc = "create" /\ driver.request.ref = r)

\* The documented bound of the scheduler: a strategy with a request waits for at most the sum
\* of the others' quanta.
WaitBounded ==
  \A s \in Strategies : notes.waited[s] <= SumFunctionOnSet(Quantum, Strategies \ {s})

\* Book and venue have the same to say of order r.
Agreed(r) == /\ r \in live <=> r \in OpenAtVenue
             /\ r \in live => LocalOrders[r] = VenueOrders[r]

Listed == DOMAIN driver.local \cup DOMAIN driver.remote
ListFull == \/ Cardinality(DOMAIN driver.local) = driver.room.local
            \/ Cardinality(DOMAIN driver.remote) = driver.room.remote

\* When the connection becomes ready the book is no further from the venue than the reports the
\* venue emitted after its orders were fetched: any other order is the same on both sides, in
\* state, volume and fills, and none that was listed is unknown - if there was room for all
\* results, and but for orders on neither list when one came back full. The venue goes on
\* between the snapshot, the fetch and READY, and book and reports are read at different moments.
ReadyMeansAgreed ==
  [][gates.conn # "ready" /\ gates'.conn = "ready" /\ Cardinality(Listed) <= driver.room.results =>
       /\ \A r \in Refs : \/ Agreed(r)
                          \/ Len(venue[r].log) > driver.seen[r]
                          \/ r \notin Listed /\ ListFull
       /\ \A r \in DOMAIN driver.local : r \in live /\ order[r].state # "unknown"]_vars

\* "unwind exactly what was just reserved": a replacement the book refuses, of a volume no
\* smaller than the reserved one, leaves the ledger's counter where it was.
UndoExact ==
  [][\A q \in Request :
       submit_replace(q) /\ UNCHANGED omsVars /\ q.volume >= ledger.res[q.ref].requested
       => ledger'.open = ledger.open]_vars

\* "no new exposure during recovery/reconciliation" is enforced at a single choke point.
NoExposureWhileRecovering ==
  [][gates.conn \in {"disconnected", "reconciling"} => live' \subseteq live]_vars
=============================================================================
