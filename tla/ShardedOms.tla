----------------------------- MODULE ShardedOms -----------------------------
(***************************************************************************)
(* The sharded order book: producer threads hand requests to the worker of *)
(* a shard through a lock-free ring per (producer, shard) and spin on a    *)
(* completion the worker fills in.  Every shared memory access that        *)
(* another thread may observe is a step of its own.  Reports and the       *)
(* journal hook of apply are ReportSequencer's and LiveJournal's.          *)
(***************************************************************************)
EXTENDS Integers, Sequences, FiniteSets

CONSTANTS Refs, ShardOf, Capacity, Callers, Requests,  \* see OmsCalls
          Producers,      \* max_producers_, numbered from 1
          ThreadOf,       \* the producer thread behind each completion
          Async,          \* the completions used with try_enqueue_create
          Plans,          \* bound: the requests each caller makes in turn, and what may happen once
          QueueCapacity,  \* queue_capacity of the rings
          LogCapacity     \* log_capacity_per_shard

\* OpKind. What a report does is the subject of ReportSequencer.
Kinds == {"create", "restore", "find", "transition", "fill", "replace", "snapshot"}

\* The states of the orders that submit_restore puts back: a recovered book holds no others.
Restorable == {"pending_send", "sent", "acknowledged", "unknown", "partially_filled", "cancel_pending"}

ASSUME ShardedAssumption ==
  /\ Producers \in Nat \ {0} /\ ThreadOf \in [Callers -> 1..Producers]
  /\ QueueCapacity \in Nat \ {0} /\ LogCapacity \in Nat
  /\ Async \subseteq Callers
  /\ \A q \in Requests : q.kind \in Kinds /\ q.ref \in Refs
  /\ \A q \in Requests : q.kind = "restore" => q.target \in Restorable
  /\ Plans \subseteq [script : [Callers -> Seq(Requests)], events : SUBSET {"halt", "pause", "stop"}]
  /\ \A plan \in Plans : \A c \in Async : \A i \in DOMAIN plan.script[c] : plan.script[c][i].kind = "create"

VARIABLES oms,         \* the orders of all shards
          call,        \* the request behind each completion in use
          stage,       \* how far its caller has got
          completion,  \* done, ok, order and a snapshot's orders; given is history: apply was here
          ring,        \* inbound[p] of each shard: slots, head and tail
          worker,      \* each worker's place in run and apply
          global_seq, log, halted, stop, paused,
          plan,        \* what is left of the plan
          late         \* history: was the call begun under a halt?

vars == <<oms, call, stage, completion, ring, worker, global_seq, log, halted, stop, paused, plan, late>>

\* All of a completion but the flag the threads meet at.
Held(x) == [given |-> x.given, ok |-> x.ok, order |-> x.order, orders |-> x.orders]

Calls == INSTANCE OmsCalls
           WITH book <- oms,
                answer <- [c \in Callers |-> Held(completion[c])]

Shards == {ShardOf[r] : r \in Refs}
NoCaller == "nobody"

Completion(done, a) == [done |-> done, given |-> a.given, ok |-> a.ok, order |-> a.order, orders |-> a.orders]

\* at: the ring being looked at; work: did the pass find anything; draining: past the main loop.
Worker(pc, at, work, draining, c, approved, seq) ==
  [pc |-> pc, at |-> at, work |-> work, draining |-> draining, c |-> c, approved |-> approved, seq |-> seq]
\* result_state is the state of whatever order the completion holds.
LogEntry(seq, q, a) == [global_seq |-> seq, kind |-> q.kind, ref |-> q.ref, state |-> a.order.state, ok |-> a.ok]

Init == /\ oms = [r \in Refs |-> Calls!NoOrder]
        /\ call = [c \in Callers |-> Calls!NoCall]
        /\ stage = [c \in Callers |-> "idle"]
        /\ completion = [c \in Callers |-> Completion(FALSE, Calls!Blank)]
        /\ ring = [s \in Shards |-> [p \in 1..Producers |->
                     [slot |-> [i \in 0..QueueCapacity - 1 |-> NoCaller], head |-> 0, tail |-> 0]]]
        /\ worker = [s \in Shards |-> Worker("top", 1, FALSE, FALSE, NoCaller, FALSE, 0)]
        /\ global_seq = 0
        /\ log = [s \in Shards |-> <<>>]
        /\ halted = FALSE
        /\ stop = [s \in Shards |-> FALSE]
        /\ paused = [s \in Shards |-> FALSE]
        /\ plan \in Plans
        /\ late = [c \in Callers |-> FALSE]
-----------------------------------------------------------------------------
\* The producers' side.

\* A thread is inside one call at a time; only try_enqueue_create leaves one behind.
Busy(p) == \E c \in Callers : /\ ThreadOf[c] = p
                              /\ stage[c] \in {"begun", "written"} \/ (stage[c] = "published" /\ c \notin Async)
Free(c) == ~Busy(ThreadOf[c])
Target(c) == ShardOf[call[c].ref]
\* Mutant: the ring takes one request more than it has slots.
Full_Late(q) == q.head - q.tail = QueueCapacity + 1
Full(q) == q.head - q.tail = QueueCapacity

\* submit_create and the rest: the request is filled in, and of a completion that was used
\* before done alone is reset (enqueue), or done and the count (submit_snapshot).
submit(c) == /\ stage[c] = "idle" /\ Free(c) /\ plan.script[c] # <<>>
             /\ call' = [call EXCEPT ![c] = Head(plan.script[c])]
             /\ plan' = [plan EXCEPT !.script[c] = Tail(@)]
             /\ stage' = [stage EXCEPT ![c] = "begun"]
             /\ \E anew \in BOOLEAN :
                  completion' = [completion EXCEPT ![c] = Completion(FALSE, Calls!Handed(Held(@), call'[c], anew))]
             /\ late' = [late EXCEPT ![c] = halted]
             /\ UNCHANGED <<oms, ring, worker, global_seq, log, halted, stop, paused>>

\* try_push, first half: full is false for the caller, otherwise the slot is written.
try_push(c) ==
  LET s == Target(c)  q == ring[s][ThreadOf[c]]
  IN /\ stage[c] = "begun"
     /\ \/ /\ Full(q)
           /\ stage' = [stage EXCEPT ![c] = "idle"]
           /\ call' = [call EXCEPT ![c] = Calls!NoCall]
           /\ UNCHANGED ring
        \/ /\ ~Full(q)
           /\ stage' = [stage EXCEPT ![c] = "written"]
           /\ ring' = [ring EXCEPT ![s][ThreadOf[c]].slot[q.head % QueueCapacity] = c]
           /\ UNCHANGED call
     /\ UNCHANGED <<oms, completion, worker, global_seq, log, halted, stop, paused, plan, late>>

\* try_push, second half: the store to head makes the slot visible.
push_head(c) == /\ stage[c] = "written"
                /\ stage' = [stage EXCEPT ![c] = "published"]
                /\ ring' = [ring EXCEPT ![Target(c)][ThreadOf[c]].head = @ + 1]
                /\ UNCHANGED <<oms, call, completion, worker, global_seq, log, halted, stop, paused, plan, late>>

\* wait sees done, or the owner of an asynchronous completion looks at it later.
wait(c) == /\ stage[c] = "published" /\ completion[c].done
           /\ c \in Async => Free(c)
           /\ stage' = [stage EXCEPT ![c] = "idle"]
           /\ call' = [call EXCEPT ![c] = Calls!NoCall]
           /\ UNCHANGED <<oms, completion, ring, worker, global_seq, log, halted, stop, paused, plan, late>>
-----------------------------------------------------------------------------
\* The worker's side.
Moves(s, w) == worker' = [worker EXCEPT ![s] = w]

\* Mutant: the final drain makes a single pass.
AfterRing_OnePass(w, work) ==
  IF w.at < Producers THEN [w EXCEPT !.pc = "scan", !.at = @ + 1, !.work = work]
  ELSE [w EXCEPT !.pc = IF w.draining THEN "ended" ELSE "top", !.at = 1, !.work = FALSE]

\* After ring p of a pass: the next ring, or the end of the pass.  The main loop goes back to
\* its conditions, the final drain repeats while the pass found work.
AfterRing(w, work) ==
  IF w.at < Producers THEN [w EXCEPT !.pc = "scan", !.at = @ + 1, !.work = work]
  ELSE [w EXCEPT !.pc = IF ~w.draining THEN "top" ELSE IF work THEN "scan" ELSE "ended", !.at = 1, !.work = FALSE]

\* The head of run's loop: stop ends it, paused yields, otherwise a pass begins.
run(s) == /\ worker[s].pc = "top"
          /\ \/ stop[s] /\ Moves(s, [worker[s] EXCEPT !.pc = "scan", !.draining = TRUE])
             \/ ~stop[s] /\ ~paused[s] /\ Moves(s, [worker[s] EXCEPT !.pc = "scan"])
          /\ UNCHANGED <<oms, call, stage, completion, ring, global_seq, log, halted, stop, paused, plan, late>>

\* try_pop, first half: an empty ring is passed over, otherwise the slot is read.
try_pop(s) ==
  LET w == worker[s]  q == ring[s][w.at]
  IN /\ w.pc = "scan"
     /\ \/ q.tail = q.head /\ Moves(s, AfterRing(w, w.work))
        \/ q.tail # q.head /\ Moves(s, [w EXCEPT !.pc = "popped", !.c = q.slot[q.tail % QueueCapacity]])
     /\ UNCHANGED <<oms, call, stage, completion, ring, global_seq, log, halted, stop, paused, plan, late>>

\* try_pop, second half: the store to tail gives the slot back.
pop_tail(s) == /\ worker[s].pc = "popped"
               /\ ring' = [ring EXCEPT ![s][worker[s].at].tail = @ + 1]
               /\ Moves(s, [worker[s] EXCEPT !.pc = "apply"])
               /\ UNCHANGED <<oms, call, stage, completion, global_seq, log, halted, stop, paused, plan, late>>

\* Mutant: the decision is discarded and the token handed out.
Approved_Always == TRUE
\* The standing engine approves its fixed request unless it is halted.
Approved == ~halted

\* standing_approval is asked for before Oms::create is called.
standing_approval(s) == /\ worker[s].pc = "apply" /\ call[worker[s].c].kind = "create"
                        /\ Moves(s, [worker[s] EXCEPT !.pc = "mutate", !.approved = Approved])
                        /\ UNCHANGED <<oms, call, stage, completion, ring, global_seq, log, halted, stop, paused,
                                       plan, late>>

\* The switch of apply: the shard's own book, which nobody else touches, and the completion.
apply(s) ==
  LET w == worker[s]  q == call[w.c]
  IN /\ w.pc = "mutate" \/ (w.pc = "apply" /\ q.kind # "create")
     /\ oms' = Calls!NewBook(oms, q, w.approved, Held(completion[w.c]))
     /\ completion' = [completion EXCEPT ![w.c] = Completion(FALSE, Calls!Reply(oms, q, w.approved, Held(@)))]
     /\ Moves(s, [w EXCEPT !.pc = "claim", !.approved = FALSE])
     /\ UNCHANGED <<call, stage, ring, global_seq, log, halted, stop, paused, plan, late>>

\* Mutant: every shard numbers its own operations.
NextSeq_Shard(s) == Len(log[s])
\* global_seq_.fetch_add
NextSeq(s) == global_seq
claim_seq(s) == /\ worker[s].pc = "claim"
                /\ Moves(s, [worker[s] EXCEPT !.pc = "log", !.seq = NextSeq(s)])
                /\ global_seq' = global_seq + 1
                /\ UNCHANGED <<oms, call, stage, completion, ring, log, halted, stop, paused, plan, late>>

\* The bounded operation log drops what it has no room for; then done releases the caller,
\* so a caller that is back finds its operation in the log.
Logged(l, e) == IF Len(l) < LogCapacity THEN Append(l, e) ELSE l
complete(s) ==
  LET w == worker[s]
  IN /\ w.pc = "log"
     /\ log' = [log EXCEPT ![s] = Logged(@, LogEntry(w.seq, call[w.c], completion[w.c]))]
     /\ completion' = [completion EXCEPT ![w.c].done = TRUE]
     /\ Moves(s, [AfterRing(w, TRUE) EXCEPT !.c = NoCaller, !.seq = 0])
     /\ UNCHANGED <<oms, call, stage, ring, global_seq, halted, stop, paused, plan, late>>
-----------------------------------------------------------------------------
\* Whoever owns the book, and the kill switch every book of the process shares.
May(e) == e \in plan.events
Once(e) == plan' = [plan EXCEPT !.events = @ \ {e}]

halt_globally == /\ May("halt") /\ Once("halt")
                 /\ halted' = TRUE
                 /\ UNCHANGED <<oms, call, stage, completion, ring, worker, global_seq, log, stop, paused, late>>

pause(s) == /\ May("pause") /\ Once("pause")
            /\ paused' = [paused EXCEPT ![s] = TRUE]
            /\ UNCHANGED <<oms, call, stage, completion, ring, worker, global_seq, log, halted, stop, late>>

resume(s) == /\ paused[s]
             /\ paused' = [paused EXCEPT ![s] = FALSE]
             /\ UNCHANGED <<oms, call, stage, completion, ring, worker, global_seq, log, halted, stop, plan, late>>

\* The destructor stores stop in shard after shard, before it joins any worker.
destroy(s) == /\ May("stop") /\ ~stop[s]
              /\ \A t \in Shards : t < s => stop[t]
              /\ stop' = [stop EXCEPT ![s] = TRUE]
              /\ UNCHANGED <<oms, call, stage, completion, ring, worker, global_seq, log, halted, paused, plan, late>>

WorkerStep(s) == \/ run(s) \/ try_pop(s) \/ pop_tail(s) \/ standing_approval(s)
                 \/ apply(s) \/ claim_seq(s) \/ complete(s)

Next == \/ \E c \in Callers : submit(c) \/ try_push(c) \/ push_head(c) \/ wait(c)
        \/ \E s \in Shards : WorkerStep(s) \/ pause(s) \/ resume(s) \/ destroy(s)
        \/ halt_globally

\* The threads of the workers are scheduled; a test that pauses one resumes it.
Spec == Init /\ [][Next]_vars /\ \A s \in Shards : WF_vars(WorkerStep(s)) /\ WF_vars(resume(s))
-----------------------------------------------------------------------------
Stages == {"idle", "begun", "written", "published"}
WorkerPcs == {"top", "scan", "popped", "apply", "mutate", "claim", "log", "ended"}

\* The values the variables take; no ring holds more than its capacity.
TypeOK == /\ stage \in [Callers -> Stages]
          /\ \A c \in Callers : call[c] = Calls!NoCall <=> stage[c] = "idle"
          /\ \A s \in Shards : /\ worker[s].pc \in WorkerPcs
                               /\ worker[s].at \in 1..Producers
                               /\ Len(log[s]) <= LogCapacity
          /\ \A s \in Shards, p \in 1..Producers : ring[s][p].head - ring[s][p].tail \in 0..QueueCapacity
          /\ halted \in BOOLEAN

\* What ShardedOms promises: whatever the interleaving of producers, workers, pauses and
\* shutdown, and whichever completions are used again, each submit_* takes effect once and is
\* told whether its own request succeeded; it is shown its own order, or none of another call
\* than the one that used the completion before.
ImplementsCalls == Calls!AbsSpec

Entries == UNION {{log[s][i] : i \in DOMAIN log[s]} : s \in Shards}
\* Successful entries about r; a find shows the order too.
About(r) == {e \in Entries : e.ref = r /\ e.ok /\ e.kind # "snapshot"}
LastEntry(es) == CHOOSE x \in es : \A y \in es : y.global_seq <= x.global_seq
Settled(s) == worker[s].pc \in {"top", "scan", "popped", "apply", "mutate", "ended"}

\* What a successful entry says of its order. The fill that finishes an order shows the state the
\* completion held before: partially_filled may be that one, every other state can be nothing else.
Says(kind, state) ==
  IF Calls!is_terminal(state) \/ (kind = "fill" /\ state # "partially_filled") THEN {"new_order"}
  ELSE IF kind = "fill" THEN {"partially_filled", "new_order"}
  ELSE {state}
Told(r) == IF About(r) = {} THEN {"new_order"}
           ELSE LET e == LastEntry(About(r)) IN Says(e.kind, e.state)

\* merged_log, sorted by the global sequence, is a history of the run: no two operations of any
\* shards share a number, and the book holds every order in a state that the last entry about it
\* in its shard's complete log says, whichever completions were used again.
LogFaithful ==
  /\ \A s, t \in Shards : \A i \in DOMAIN log[s], j \in DOMAIN log[t] :
       log[s][i].global_seq = log[t][j].global_seq => s = t /\ i = j
  /\ \A r \in Refs : Settled(ShardOf[r]) /\ Len(log[ShardOf[r]]) < LogCapacity =>
       oms[r].state \in Told(r)

\* halt_globally is authoritative: a create that began after it is refused on every shard, also
\* when its request was queued behind others or the worker was paused.
HaltFinal == \A c \in Callers :
  late[c] /\ stage[c] # "idle" /\ call[c].kind = "create" /\ completion[c].given => ~completion[c].ok

\* A request published before the destructor stopped its shard is answered: by the main loop, or
\* by the final drain when the worker was busy, paused or already on its way out.
PublishedAnswered == \A c \in Callers :
  (stage[c] = "published" /\ ~stop[Target(c)]) ~> (stage[c] = "idle" \/ completion[c].done)
=============================================================================
