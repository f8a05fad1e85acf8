-------------------------- MODULE ShardedOmsProofs --------------------------
(***************************************************************************)
(* The sharded order book implements OmsCalls: for every number of         *)
(* producers, shards, requests and slots, each call takes effect once and  *)
(* is answered with its own outcome. A create begun under a halt is        *)
(* refused, and the merged log is a history of the book.                   *)
(***************************************************************************)
EXTENDS ShardedOms, SequenceTheorems, DataProofs

RingT == [slot : [0 .. QueueCapacity - 1 -> Callers \cup {NoCaller}], head : Nat, tail : Nat]
WorkerT == [pc : WorkerPcs, at : 1 .. Producers, work : BOOLEAN, draining : BOOLEAN,
            c : Callers \cup {NoCaller}, approved : BOOLEAN, seq : Nat]
PlanT == [script : [Callers -> Seq(Requests)], events : SUBSET {"halt", "pause", "stop"}]

\* What the caller of c will be told, and what the abstract module calls its answer.
Given(c) == Held(completion[c])

\* Nobody has answered yet; and all an answer consists of.
Pending(x) == ~x.done /\ ~x.given
Entire(a) == a = Calls!Answer(a.given, a.ok, a.order, a.orders)

Types ==
  /\ stage \in [Callers -> Stages]
  /\ call \in [Callers -> Requests \cup {Calls!NoCall}]
  /\ completion = [c \in Callers |-> Completion(completion[c].done, Given(c))]
  /\ \A c \in Callers : completion[c].done \in BOOLEAN
  /\ ring \in [Shards -> [1 .. Producers -> RingT]]
  /\ worker \in [Shards -> WorkerT]
  /\ plan \in PlanT
  /\ global_seq \in Nat
  /\ halted \in BOOLEAN /\ late \in [Callers -> BOOLEAN]

\* A completion in use waits until the request is published, and is done only with an answer.
CallInv == \A c \in Callers :
  /\ stage[c] = "idle" <=> call[c] = Calls!NoCall
  /\ stage[c] \in {"begun", "written"} => Pending(completion[c])
  /\ completion[c].done => completion[c].given

\* A thread is in the middle of at most one call.
BusyInv == \A c, d \in Callers :
  ThreadOf[c] = ThreadOf[d] /\ stage[c] \in {"begun", "written"} /\ stage[d] \in {"begun", "written"} => c = d

\* The requests of thread p whose turn with the worker of shard s has not come.
Waiting(s, p) ==
  {c \in Callers : /\ ThreadOf[c] = p /\ stage[c] = "published" /\ Target(c) = s
                   /\ Pending(completion[c])}

At(q, k) == q.slot[k % QueueCapacity]

\* Between tail and head a ring holds requests that wait, each once.
QueueInv(s, p) == LET q == ring[s][p] IN
  /\ q.tail <= q.head /\ q.head <= q.tail + QueueCapacity
  /\ \A k \in q.tail .. q.head - 1 : At(q, k) \in Waiting(s, p)
  /\ \A k, l \in q.tail .. q.head - 1 : At(q, k) = At(q, l) => k = l

\* A slot that was written and not yet published keeps its request, beyond the queue's end.
WrittenInv == \A c \in Callers : stage[c] = "written" =>
  LET q == ring[Target(c)][ThreadOf[c]]
  IN q.head < q.tail + QueueCapacity /\ At(q, q.head) = c

\* What a worker has taken out is no longer in a ring; nobody else answers it.
HandInv(s) == LET w == worker[s]  q == ring[s][w.at] IN
  /\ w.pc = "popped" => q.tail < q.head /\ w.c = At(q, q.tail)
  /\ w.pc \in {"apply", "mutate", "claim", "log"} =>
       /\ w.c \in Callers /\ stage[w.c] = "published" /\ Target(w.c) = s /\ ~completion[w.c].done
       /\ \A p \in 1 .. Producers : \A k \in ring[s][p].tail .. ring[s][p].head - 1 : At(ring[s][p], k) # w.c
  /\ w.pc \in {"apply", "mutate"} => Pending(completion[w.c])
  /\ w.pc \in {"claim", "log"} => completion[w.c].given

OnceInv == /\ Types /\ CallInv /\ BusyInv /\ WrittenInv
           /\ \A s \in Shards : HandInv(s) /\ \A p \in 1 .. Producers : QueueInv(s, p)
-----------------------------------------------------------------------------
(* Small facts. *)

LEMMA SlotRange ==
  ASSUME NEW k \in Nat
  PROVE  k % QueueCapacity \in 0 .. QueueCapacity - 1
BY ShardedAssumption

LEMMA RequestFacts ==
  ASSUME NEW q \in Requests
  PROVE  q.kind \in Kinds /\ q.ref \in Refs /\ ShardOf[q.ref] \in Shards /\ q # Calls!NoCall
<1>1. q.kind \in Kinds /\ q.ref \in Refs
  BY ShardedAssumption
<1>2. q.kind # "none"
  BY <1>1 DEF Kinds
<1>3. Calls!NoCall.kind = "none"
  BY DEF Calls!NoCall
<1> QED BY <1>1, <1>2, <1>3 DEF Shards

LEMMA AnswerEntire ==
  ASSUME NEW g, NEW ok, NEW o, NEW os
  PROVE  Entire(Calls!Answer(g, ok, o, os)) /\ Calls!Answer(g, ok, o, os).given = g
         /\ Calls!Answer(g, ok, o, os).order = o /\ Calls!Answer(g, ok, o, os).ok = ok
BY DEF Entire, Calls!Answer

LEMMA ReplyGiven ==
  ASSUME NEW b, NEW q, NEW ok, NEW was
  PROVE  Entire(Calls!Reply(b, q, ok, was)) /\ Calls!Reply(b, q, ok, was).given
<1>1. CASE q.kind = "snapshot"
  BY <1>1, AnswerEntire DEF Calls!Reply
<1>2. CASE q.kind # "snapshot"
  <2> DEFINE e == Calls!Effect(b, q, ok, was.order)
  <2>1. Calls!Reply(b, q, ok, was) = Calls!Answer(TRUE, e.ok, e.seen, was.orders)
    BY <1>2 DEF Calls!Reply
  <2>2. PICK x, y, z : x = e.ok /\ y = e.seen /\ z = was.orders
    OBVIOUS
  <2>3. Calls!Reply(b, q, ok, was) = Calls!Answer(TRUE, x, y, z)
    BY <2>1, <2>2
  <2>4. Entire(Calls!Answer(TRUE, x, y, z)) /\ Calls!Answer(TRUE, x, y, z).given
    BY AnswerEntire
  <2> QED BY <2>3, <2>4
<1> QED BY <1>1, <1>2

LEMMA BlankFields ==
  /\ Entire(Calls!Blank) /\ ~Calls!Blank.given /\ Calls!Blank.order = Calls!NoOrder
  /\ Completion(FALSE, Calls!Blank).done = FALSE /\ Completion(FALSE, Calls!Blank).given = FALSE
  /\ Completion(FALSE, Calls!Blank).order = Calls!NoOrder
  /\ Held(Completion(FALSE, Calls!Blank)) = Calls!Blank
BY DEF Entire, Calls!Blank, Calls!Answer, Completion, Held

LEMMA HandedPending ==
  ASSUME NEW a, NEW q, NEW anew
  PROVE  Entire(Calls!Handed(a, q, anew)) /\ ~Calls!Handed(a, q, anew).given
BY AnswerEntire DEF Calls!Handed, Calls!Blank

LEMMA CompletionFields ==
  ASSUME NEW done, NEW a
  PROVE  /\ Completion(done, a).done = done /\ Completion(done, a).given = a.given
         /\ Completion(done, a).ok = a.ok /\ Completion(done, a).order = a.order
         /\ Completion(done, a).orders = a.orders
         /\ Entire(a) => Held(Completion(done, a)) = a
BY DEF Completion, Held, Entire, Calls!Answer

LEMMA CompletionDone ==
  ASSUME NEW done, NEW a
  PROVE  [Completion(done, a) EXCEPT !.done = TRUE] = Completion(TRUE, a)
<1> DEFINE x == Completion(done, a)
           S(d) == [done : {d}, given : {a.given}, ok : {a.ok}, order : {a.order}, orders : {a.orders}]
<1>1. x \in S(done)
  BY DEF Completion
<1>2. Completion(TRUE, a) \in S(TRUE)
  BY DEF Completion
<1> HIDE DEF x
<1>3. [x EXCEPT !.done = TRUE] \in S(TRUE)
  BY <1>1
<1>4. [x EXCEPT !.done = TRUE] = Completion(TRUE, a)
  BY <1>2, <1>3
<1> QED BY <1>4 DEF x

LEMMA NotBusy ==
  ASSUME NEW c \in Callers, Free(c)
  PROVE  \A d \in Callers : ThreadOf[d] = ThreadOf[c] => stage[d] \notin {"begun", "written"}
BY DEF Free, Busy

\* A caller whose turn is over or has not come leaves the others' requests where they are.
Others(c) == \A d \in Callers : d # c => /\ stage'[d] = stage[d] /\ call'[d] = call[d]
                                         /\ completion'[d] = completion[d]

LEMMA WaitingKept ==
  ASSUME NEW c, Others(c), NEW s, NEW p, NEW d \in Waiting(s, p), d # c
  PROVE  d \in Waiting(s, p)'
BY DEF Waiting, Others, Target

LEMMA QueueKept ==
  ASSUME NEW s, NEW p, QueueInv(s, p), ring'[s][p].head = ring[s][p].head,
         ring'[s][p].tail = ring[s][p].tail,
         \A k \in ring[s][p].tail .. ring[s][p].head - 1 :
           At(ring'[s][p], k) = At(ring[s][p], k) /\ At(ring[s][p], k) \in Waiting(s, p)'
  PROVE  QueueInv(s, p)'
<1> DEFINE q == ring[s][p]
           z == ring'[s][p]
<1>1. /\ q.tail <= q.head /\ q.head <= q.tail + QueueCapacity
      /\ \A k, l \in q.tail .. q.head - 1 : At(q, k) = At(q, l) => k = l
  BY DEF QueueInv
<1>2. /\ z.tail <= z.head /\ z.head <= z.tail + QueueCapacity
      /\ \A k \in z.tail .. z.head - 1 : At(z, k) \in Waiting(s, p)'
      /\ \A k, l \in z.tail .. z.head - 1 : At(z, k) = At(z, l) => k = l
  BY <1>1
<1> QED BY <1>2 DEF QueueInv, At

LEMMA TypeFacts ==
  ASSUME Types
  PROVE  /\ \A s \in Shards : worker[s] \in WorkerT
         /\ \A s \in Shards : \A p \in 1 .. Producers :
              /\ ring[s][p] \in RingT /\ ring[s][p].head \in Nat /\ ring[s][p].tail \in Nat
         /\ \A c \in Callers : ThreadOf[c] \in 1 .. Producers
<1>1. \A c \in Callers : ThreadOf[c] \in 1 .. Producers
  BY ShardedAssumption
<1>2. \A s \in Shards : worker[s] \in WorkerT
  BY DEF Types
<1>3. ASSUME NEW s \in Shards, NEW p \in 1 .. Producers
      PROVE  ring[s][p] \in RingT /\ ring[s][p].head \in Nat /\ ring[s][p].tail \in Nat
  <2>1. ring[s][p] \in RingT
    BY DEF Types
  <2> QED BY <2>1 DEF RingT
<1> QED BY <1>1, <1>2, <1>3

LEMMA TargetKnown ==
  ASSUME Types, CallInv, NEW c \in Callers, stage[c] # "idle"
  PROVE  call[c] \in Requests /\ Target(c) \in Shards
<1>1. call[c] \in Requests
  BY DEF Types, CallInv
<1> QED BY <1>1, RequestFacts DEF Target
-----------------------------------------------------------------------------
(* The producers' steps. *)

LEMMA OnceInit ==
  ASSUME Init
  PROVE  OnceInv
<1>1. Types
  <2>1. plan \in PlanT
    BY ShardedAssumption DEF Init, PlanT
  <2>2. 1 \in 1 .. Producers
    BY ShardedAssumption
  <2>3. worker \in [Shards -> WorkerT]
    BY <2>2 DEF Init, Worker, WorkerT, WorkerPcs
  <2>4. ring \in [Shards -> [1 .. Producers -> RingT]]
    BY DEF Init, RingT
  <2>5. completion = [c \in Callers |-> Completion(completion[c].done, Given(c))]
        /\ \A c \in Callers : completion[c].done \in BOOLEAN
    BY BlankFields DEF Init, Given
  <2>6. stage \in [Callers -> Stages] /\ call \in [Callers -> Requests \cup {Calls!NoCall}]
        /\ halted \in BOOLEAN /\ late \in [Callers -> BOOLEAN] /\ global_seq \in Nat
    BY DEF Init, Stages
  <2> QED BY <2>1, <2>3, <2>4, <2>5, <2>6 DEF Types
<1>2. CallInv
  BY BlankFields DEF Init, CallInv
<1>3. BusyInv /\ WrittenInv
  BY DEF Init, BusyInv, WrittenInv
<1>4. ASSUME NEW s \in Shards PROVE HandInv(s)
  BY DEF Init, HandInv, Worker
<1>5. ASSUME NEW s \in Shards, NEW p \in 1 .. Producers PROVE QueueInv(s, p)
  <2>1. ring[s][p].head = 0 /\ ring[s][p].tail = 0
    BY DEF Init
  <2> QED BY <2>1, ShardedAssumption DEF QueueInv
<1> QED BY <1>1, <1>2, <1>3, <1>4, <1>5 DEF OnceInv

\* A caller that is not in a ring or a hand may change without the workers' noticing.
LEMMA HandKept ==
  ASSUME NEW s, HandInv(s), worker'[s] = worker[s], ring'[s] = ring[s],
         NEW c, Others(c), stage[c] # "published" \/ completion[c].done
  PROVE  HandInv(s)'
<1> DEFINE w == worker[s]
<1>1. w.pc \in {"apply", "mutate", "claim", "log"} => w.c # c /\ w.c \in Callers
  BY DEF HandInv
<1>2. w.pc \in {"apply", "mutate", "claim", "log"} =>
        /\ stage'[w.c] = stage[w.c] /\ call'[w.c] = call[w.c] /\ completion'[w.c] = completion[w.c]
  BY <1>1 DEF Others
<1>3. worker'[s] = w
  OBVIOUS
<1> HIDE DEF w
<1> QED BY <1>2, <1>3 DEF HandInv, w, Target, Given, At

LEMMA QueuesKept ==
  ASSUME NEW s, NEW p, QueueInv(s, p), ring'[s][p] = ring[s][p],
         NEW c, Others(c), stage[c] # "published" \/ completion[c].done
  PROVE  QueueInv(s, p)'
<1>1. ASSUME NEW k \in ring[s][p].tail .. ring[s][p].head - 1
      PROVE  At(ring[s][p], k) \in Waiting(s, p)'
  <2>1. At(ring[s][p], k) \in Waiting(s, p)
    BY DEF QueueInv
  <2>2. At(ring[s][p], k) # c
    BY <2>1 DEF Waiting, Pending
  <2> QED BY <2>1, <2>2, WaitingKept
<1> QED BY <1>1, QueueKept

\* One completion is written.
LEMMA CompletionWrite ==
  ASSUME Types, NEW c \in Callers, NEW done \in BOOLEAN, NEW a, Entire(a),
         completion' = [completion EXCEPT ![c] = Completion(done, a)]
  PROVE  /\ completion' = [d \in Callers |-> Completion(completion'[d].done, Given(d)')]
         /\ \A d \in Callers : completion'[d].done \in BOOLEAN
         /\ \A d \in Callers : d # c => completion'[d] = completion[d]
         /\ completion'[c] = Completion(done, a) /\ Given(c)' = a
         /\ completion'[c].done = done /\ completion'[c].given = a.given
<1>1. completion = [d \in Callers |-> Completion(completion[d].done, Given(d))]
  BY DEF Types
<1>2. DOMAIN completion = Callers /\ \A d \in Callers : completion[d] = Completion(completion[d].done, Given(d))
  BY <1>1
<1> DEFINE x == Completion(done, a)
<1>3. x.done = done /\ Held(x) = a /\ x.given = a.given
  BY CompletionFields
<1>4. completion' = [d \in Callers |-> IF d = c THEN x ELSE completion[d]]
  BY <1>2
<1>5. \A d \in Callers : completion'[d] = IF d = c THEN x ELSE completion[d]
  BY <1>4
<1> HIDE DEF x
<1>6. x = Completion(x.done, Held(x))
  BY <1>3 DEF x
<1>7. \A d \in Callers : completion'[d] = Completion(completion'[d].done, Given(d)')
  BY <1>2, <1>5, <1>6 DEF Given
<1>8. \A d \in Callers : completion'[d].done \in BOOLEAN
  BY <1>3, <1>5 DEF Types
<1>10. completion'[c] = x /\ Given(c)' = a
  BY <1>3, <1>5 DEF Given
<1> QED BY <1>3, <1>4, <1>5, <1>7, <1>8, <1>10 DEF x

\* The types after a step of caller c that writes its stage and its call.
LEMMA CallerTypes ==
  ASSUME Types, NEW c \in Callers, NEW st \in Stages, NEW q \in Requests \cup {Calls!NoCall},
         stage' = [stage EXCEPT ![c] = st], call' = [call EXCEPT ![c] = q],
         \A d \in Callers : d # c => completion'[d] = completion[d]
  PROVE  /\ stage' \in [Callers -> Stages]
         /\ call' \in [Callers -> Requests \cup {Calls!NoCall}]
         /\ Others(c) /\ stage'[c] = st /\ call'[c] = q
BY DEF Types, Others

LEMMA CompletionSame ==
  ASSUME Types, completion' = completion
  PROVE  /\ completion' = [d \in Callers |-> Completion(completion'[d].done, Given(d)')]
         /\ \A d \in Callers : completion'[d].done \in BOOLEAN
BY DEF Types, Given

\* A caller begins a call, is turned away or returns.
LEMMA CallerStep ==
  ASSUME OnceInv, NEW c \in Callers, Others(c), Types', ring' = ring, worker' = worker,
         stage[c] # "published" \/ completion[c].done,
         stage'[c] \in {"idle", "begun"}, stage'[c] = "begun" => Free(c),
         stage'[c] = "idle" <=> call'[c] = Calls!NoCall,
         stage'[c] = "begun" => Pending(completion'[c]), completion'[c].done => completion'[c].given
  PROVE  OnceInv'
<1>1. Types /\ CallInv /\ BusyInv /\ WrittenInv
  BY DEF OnceInv
<1>2. CallInv'
  <2> SUFFICES ASSUME NEW d \in Callers
               PROVE  /\ stage'[d] = "idle" <=> call'[d] = Calls!NoCall
                      /\ stage'[d] \in {"begun", "written"} => Pending(completion'[d])
                      /\ completion'[d].done => completion'[d].given
    BY DEF CallInv
  <2>1. CASE d = c
    BY <2>1
  <2>2. CASE d # c
    BY <1>1, <2>2 DEF Others, CallInv
  <2> QED BY <2>1, <2>2
<1>3. BusyInv'
  <2> SUFFICES ASSUME NEW d \in Callers, NEW e \in Callers, ThreadOf[d] = ThreadOf[e],
                      stage'[d] \in {"begun", "written"}, stage'[e] \in {"begun", "written"}, d # e
               PROVE  FALSE
    BY DEF BusyInv
  <2>1. CASE d # c /\ e # c
    BY <1>1, <2>1 DEF Others, BusyInv
  <2>2. CASE d = c
    <3>1. stage[e] \in {"begun", "written"} /\ Free(c)
      BY <2>2 DEF Others
    <3> QED BY <2>2, <3>1, NotBusy
  <2>3. CASE e = c
    <3>1. stage[d] \in {"begun", "written"} /\ Free(c)
      BY <2>3 DEF Others
    <3> QED BY <2>3, <3>1, NotBusy
  <2> QED BY <2>1, <2>2, <2>3
<1>4. WrittenInv'
  <2> SUFFICES ASSUME NEW d \in Callers, stage'[d] = "written"
               PROVE  LET q == ring'[Target(d)'][ThreadOf[d]]
                      IN q.head < q.tail + QueueCapacity /\ At(q, q.head) = d
    BY DEF WrittenInv, At
  <2>1. d # c
    OBVIOUS
  <2>2. stage[d] = "written" /\ Target(d)' = Target(d)
    BY <2>1 DEF Others, Target
  <2> QED BY <1>1, <2>2 DEF WrittenInv
<1>5. ASSUME NEW s \in Shards PROVE HandInv(s)' /\ \A p \in 1 .. Producers : QueueInv(s, p)'
  <2>1. HandInv(s)'
    BY HandKept DEF OnceInv
  <2>2. ASSUME NEW p \in 1 .. Producers PROVE QueueInv(s, p)'
    BY QueuesKept DEF OnceInv
  <2> QED BY <2>1, <2>2
<1> QED BY <1>2, <1>3, <1>4, <1>5 DEF OnceInv

LEMMA SubmitOnce ==
  ASSUME OnceInv, NEW c \in Callers, submit(c)
  PROVE  OnceInv'
<1> DEFINE q == Head(plan.script[c])
<1>1. Types /\ stage[c] = "idle" /\ Free(c) /\ plan.script[c] # <<>>
  BY DEF OnceInv, submit
<1>2. plan.script[c] \in Seq(Requests) /\ plan.script \in [Callers -> Seq(Requests)]
  BY <1>1 DEF Types, PlanT
<1>3. q \in Requests /\ Tail(plan.script[c]) \in Seq(Requests)
  BY <1>1, <1>2
<1>4. plan' = [plan EXCEPT !.script[c] = Tail(plan.script[c])] /\ plan' \in PlanT
  <2>1. plan' = [plan EXCEPT !.script[c] = Tail(plan.script[c])]
    BY DEF submit
  <2>2. [plan.script EXCEPT ![c] = Tail(plan.script[c])] \in [Callers -> Seq(Requests)]
    BY <1>2, <1>3
  <2> QED BY <1>1, <2>1, <2>2 DEF Types, PlanT
<1>5. /\ stage' = [stage EXCEPT ![c] = "begun"] /\ call' = [call EXCEPT ![c] = q]
      /\ late' = [late EXCEPT ![c] = halted]
      /\ ring' = ring /\ worker' = worker /\ global_seq' = global_seq /\ halted' = halted
  BY DEF submit
<1>a. PICK a : /\ Entire(a) /\ ~a.given
               /\ completion' = [completion EXCEPT ![c] = Completion(FALSE, a)]
  BY HandedPending DEF submit
<1> HIDE DEF q
<1>6. "begun" \in Stages /\ q \in Requests \cup {Calls!NoCall}
  BY <1>3 DEF Stages
<1>b. /\ completion' = [d \in Callers |-> Completion(completion'[d].done, Given(d)')]
      /\ \A d \in Callers : completion'[d].done \in BOOLEAN
      /\ \A d \in Callers : d # c => completion'[d] = completion[d]
      /\ completion'[c].done = FALSE /\ completion'[c].given = a.given
  BY <1>1, <1>a, CompletionWrite
<1>7. /\ stage' \in [Callers -> Stages]
      /\ call' \in [Callers -> Requests \cup {Calls!NoCall}]
      /\ Others(c) /\ stage'[c] = "begun" /\ call'[c] = q
  BY <1>1, <1>5, <1>6, <1>b, CallerTypes
<1>8. Types'
  BY <1>1, <1>4, <1>5, <1>7, <1>b DEF Types
<1>9. Pending(completion'[c]) /\ ~completion'[c].done
  BY <1>a, <1>b DEF Pending
<1>10. q # Calls!NoCall
  BY <1>3, RequestFacts
<1> QED BY <1>1, <1>5, <1>7, <1>8, <1>9, <1>10, CallerStep

LEMMA WaitOnce ==
  ASSUME OnceInv, NEW c \in Callers, wait(c)
  PROVE  OnceInv'
<1>1. Types /\ stage[c] = "published" /\ completion[c].done /\ completion[c].given
  BY DEF OnceInv, wait, CallInv
<1>2. /\ stage' = [stage EXCEPT ![c] = "idle"] /\ call' = [call EXCEPT ![c] = Calls!NoCall]
      /\ completion' = completion /\ late' = late /\ plan' = plan
      /\ ring' = ring /\ worker' = worker /\ global_seq' = global_seq /\ halted' = halted
  BY DEF wait
<1>3. "idle" \in Stages /\ Calls!NoCall \in Requests \cup {Calls!NoCall}
  BY DEF Stages
<1>4. /\ stage' \in [Callers -> Stages]
      /\ call' \in [Callers -> Requests \cup {Calls!NoCall}]
      /\ Others(c) /\ stage'[c] = "idle" /\ call'[c] = Calls!NoCall
  BY <1>1, <1>2, <1>3, CallerTypes
<1>5. Types'
  BY <1>1, <1>2, <1>4, CompletionSame DEF Types
<1> QED BY <1>1, <1>2, <1>4, <1>5, CallerStep

\* The slot at head is not one of the queue's.
LEMMA RingWrite ==
  ASSUME Types, NEW s \in Shards, NEW p \in 1 .. Producers, NEW c \in Callers, QueueInv(s, p),
         ~Full(ring[s][p]),
         ring' = [ring EXCEPT ![s][p].slot[ring[s][p].head % QueueCapacity] = c]
  PROVE  /\ ring' \in [Shards -> [1 .. Producers -> RingT]]
         /\ \A t \in Shards : \A m \in 1 .. Producers : <<t, m>> # <<s, p>> => ring'[t][m] = ring[t][m]
         /\ ring'[s][p].head = ring[s][p].head /\ ring'[s][p].tail = ring[s][p].tail
         /\ ring[s][p].head < ring[s][p].tail + QueueCapacity
         /\ At(ring'[s][p], ring[s][p].head) = c
         /\ \A k \in ring[s][p].tail .. ring[s][p].head - 1 : At(ring'[s][p], k) = At(ring[s][p], k)
<1> DEFINE q == ring[s][p]
           h == q.head % QueueCapacity
           z == [q EXCEPT !.slot[h] = c]
<1>1. q \in RingT /\ q.head \in Nat /\ q.tail \in Nat /\ QueueCapacity \in Nat \ {0}
  BY TypeFacts, ShardedAssumption
<1>2. h \in 0 .. QueueCapacity - 1
  BY <1>1, SlotRange
<1>3. q.slot \in [0 .. QueueCapacity - 1 -> Callers \cup {NoCaller}]
  BY <1>1 DEF RingT
<1>4. /\ ring' \in [Shards -> [1 .. Producers -> RingT]] /\ ring'[s][p] = z
      /\ \A t \in Shards : \A m \in 1 .. Producers : <<t, m>> # <<s, p>> => ring'[t][m] = ring[t][m]
  <2>1. ring \in [Shards -> [1 .. Producers -> RingT]]
    BY DEF Types
  <2>2. [q.slot EXCEPT ![h] = c] \in [0 .. QueueCapacity - 1 -> Callers \cup {NoCaller}]
    BY <1>3
  <2>3. z \in RingT
    BY <1>1, <2>2 DEF RingT
  <2>4. ring' = [ring EXCEPT ![s] = [ring[s] EXCEPT ![p] = z]]
    OBVIOUS
  <2> HIDE DEF z, q
  <2>5. [ring[s] EXCEPT ![p] = z] \in [1 .. Producers -> RingT]
    BY <2>1, <2>3
  <2>6. ring' \in [Shards -> [1 .. Producers -> RingT]]
    BY <2>1, <2>4, <2>5
  <2>7. ring'[s] = [ring[s] EXCEPT ![p] = z] /\ \A t \in Shards : t # s => ring'[t] = ring[t]
    BY <2>1, <2>4
  <2>8. ring'[s][p] = z /\ \A m \in 1 .. Producers : m # p => ring'[s][m] = ring[s][m]
    BY <2>1, <2>7
  <2> QED BY <2>6, <2>7, <2>8
<1>5. z.head = q.head /\ z.tail = q.tail /\ z.slot = [q.slot EXCEPT ![h] = c]
  BY <1>1 DEF RingT
<1>6. q.head < q.tail + QueueCapacity
  BY <1>1 DEF QueueInv, Full
<1>7. At(z, q.head) = c
  BY <1>2, <1>3, <1>5 DEF At
<1>8. ASSUME NEW k \in q.tail .. q.head - 1 PROVE At(z, k) = At(q, k)
  <2>1. k \in Nat /\ k < q.head /\ q.head < k + QueueCapacity
    BY <1>1, <1>6
  <2>2. k % QueueCapacity # h
    BY <1>1, <2>1, ModDiffer
  <2>3. k % QueueCapacity \in 0 .. QueueCapacity - 1
    BY <2>1, SlotRange
  <2> HIDE DEF z, q, h
  <2> QED BY <1>3, <1>5, <2>2, <2>3 DEF At
<1> HIDE DEF z, q, h
<1> QED BY <1>4, <1>5, <1>6, <1>7, <1>8 DEF q

LEMMA PushOnce ==
  ASSUME OnceInv, NEW c \in Callers, try_push(c)
  PROVE  OnceInv'
<1> DEFINE s == Target(c)
           p == ThreadOf[c]
           q == ring[s][p]
<1>1. Types /\ CallInv /\ BusyInv /\ WrittenInv /\ stage[c] = "begun" /\ Pending(completion[c])
  BY DEF OnceInv, try_push, CallInv
<1>2. s \in Shards /\ p \in 1 .. Producers /\ call[c] \in Requests /\ QueueInv(s, p)
  BY <1>1, TargetKnown, TypeFacts DEF OnceInv
<1>3. /\ worker' = worker /\ completion' = completion /\ plan' = plan /\ late' = late
      /\ global_seq' = global_seq /\ halted' = halted
  BY DEF try_push
<1>4. CASE Full(q) /\ stage' = [stage EXCEPT ![c] = "idle"] /\ call' = [call EXCEPT ![c] = Calls!NoCall]
           /\ ring' = ring
  <2>1. "idle" \in Stages /\ Calls!NoCall \in Requests \cup {Calls!NoCall}
    BY DEF Stages
  <2>2. /\ stage' \in [Callers -> Stages]
        /\ call' \in [Callers -> Requests \cup {Calls!NoCall}]
        /\ Others(c) /\ stage'[c] = "idle" /\ call'[c] = Calls!NoCall
    BY <1>1, <1>3, <1>4, <2>1, CallerTypes
  <2>3. Types'
    BY <1>1, <1>3, <1>4, <2>2, CompletionSame DEF Types
  <2>4. ~completion'[c].done /\ stage[c] # "published"
    BY <1>1, <1>3 DEF Pending
  <2> QED BY <1>3, <1>4, <2>2, <2>3, <2>4, CallerStep
<1>5. CASE ~Full(q) /\ stage' = [stage EXCEPT ![c] = "written"] /\ call' = call
           /\ ring' = [ring EXCEPT ![s][p].slot[q.head % QueueCapacity] = c]
  <2>1. /\ ring' \in [Shards -> [1 .. Producers -> RingT]]
        /\ \A t \in Shards : \A m \in 1 .. Producers : <<t, m>> # <<s, p>> => ring'[t][m] = ring[t][m]
        /\ ring'[s][p].head = ring[s][p].head /\ ring'[s][p].tail = ring[s][p].tail
        /\ ring[s][p].head < ring[s][p].tail + QueueCapacity
        /\ At(ring'[s][p], ring[s][p].head) = c
        /\ \A k \in ring[s][p].tail .. ring[s][p].head - 1 : At(ring'[s][p], k) = At(ring[s][p], k)
    <3> HIDE DEF s, p
    <3> QED BY <1>1, <1>2, <1>5, RingWrite
  <2>2. Others(c) /\ stage'[c] = "written" /\ stage' \in [Callers -> Stages]
    BY <1>1, <1>3, <1>5 DEF Types, Others, Stages
  <2>3. Types'
    BY <1>1, <1>3, <1>5, <2>1, <2>2 DEF Types, Given
  <2>4. \A d \in Callers : Target(d)' = Target(d)
    BY <1>5 DEF Target
  <2>5. CallInv'
    <3>1. stage'[c] # "idle" /\ call[c] # Calls!NoCall
      BY <1>2, <2>2, RequestFacts
    <3> QED BY <1>1, <1>3, <1>5, <2>2, <3>1 DEF CallInv, Others, Given
  <2>6. BusyInv'
    <3>1. \A d \in Callers : stage'[d] \in {"begun", "written"} => stage[d] \in {"begun", "written"}
      BY <1>1, <2>2 DEF Others
    <3> QED BY <1>1, <3>1 DEF BusyInv
  <2>7. WrittenInv'
    <3> SUFFICES ASSUME NEW d \in Callers, stage'[d] = "written"
                 PROVE  LET z == ring'[Target(d)][ThreadOf[d]]
                        IN z.head < z.tail + QueueCapacity /\ At(z, z.head) = d
      BY <2>4 DEF WrittenInv, At
    <3>1. CASE d = c
      BY <2>1, <3>1
    <3>2. CASE d # c
      <4>1. stage[d] = "written"
        BY <2>2, <3>2 DEF Others
      <4>2. ThreadOf[d] # p
        BY <1>1, <3>2, <4>1 DEF BusyInv
      <4>3. Target(d) \in Shards /\ ThreadOf[d] \in 1 .. Producers
        BY <1>1, <4>1, TargetKnown, TypeFacts
      <4>4. ring'[Target(d)][ThreadOf[d]] = ring[Target(d)][ThreadOf[d]]
        BY <2>1, <4>2, <4>3
      <4> QED BY <1>1, <4>1, <4>4 DEF WrittenInv
    <3> QED BY <3>1, <3>2
  <2>8. ASSUME NEW t \in Shards, NEW m \in 1 .. Producers
        PROVE  /\ ring'[t][m].head = ring[t][m].head /\ ring'[t][m].tail = ring[t][m].tail
               /\ \A k \in ring[t][m].tail .. ring[t][m].head - 1 : At(ring'[t][m], k) = At(ring[t][m], k)
    BY <2>1
  <2>9. ASSUME NEW t \in Shards PROVE HandInv(t)' /\ \A m \in 1 .. Producers : QueueInv(t, m)'
    <3>1. ASSUME NEW m \in 1 .. Producers PROVE QueueInv(t, m)'
      <4>1. QueueInv(t, m)
        BY DEF OnceInv
      <4>2. ASSUME NEW k \in ring[t][m].tail .. ring[t][m].head - 1
            PROVE  At(ring'[t][m], k) = At(ring[t][m], k) /\ At(ring[t][m], k) \in Waiting(t, m)'
        <5>1. At(ring[t][m], k) \in Waiting(t, m)
          BY <4>1 DEF QueueInv
        <5>2. At(ring[t][m], k) # c
          BY <1>1, <5>1 DEF Waiting
        <5> QED BY <2>2, <2>8, <5>1, <5>2, WaitingKept
      <4> QED BY <2>8, <4>1, <4>2, QueueKept
    <3>2. HandInv(t)'
      <4> DEFINE w == worker[t]
      <4>1. HandInv(t) /\ w.at \in 1 .. Producers
        BY <1>1, TypeFacts DEF OnceInv, WorkerT
      <4>2. w.pc \in {"apply", "mutate", "claim", "log"} => w.c # c /\ w.c \in Callers
        BY <1>1, <4>1 DEF HandInv
      <4>3. w.pc = "popped" => ring[t][w.at].tail \in ring[t][w.at].tail .. ring[t][w.at].head - 1
        BY <1>1, <4>1, TypeFacts DEF HandInv
      <4>4. worker'[t] = w
        BY <1>3
      <4>5. w.pc = "popped" => /\ ring'[t][w.at].tail < ring'[t][w.at].head
                               /\ w.c = At(ring'[t][w.at], ring'[t][w.at].tail)
        BY <2>8, <4>1, <4>3 DEF HandInv
      <4>6. w.pc \in {"apply", "mutate", "claim", "log"} =>
              \A m \in 1 .. Producers : \A k \in ring'[t][m].tail .. ring'[t][m].head - 1 :
                At(ring'[t][m], k) # w.c
        BY <2>8, <4>1 DEF HandInv
      <4>7. w.pc \in {"apply", "mutate", "claim", "log"} =>
              stage'[w.c] = stage[w.c]
        BY <2>2, <4>2 DEF Others
      <4> HIDE DEF w
      <4> QED BY <1>3, <1>5, <4>1, <4>4, <4>5, <4>6, <4>7 DEF HandInv, w, Given, At, Target
    <3> QED BY <3>1, <3>2
  <2> QED BY <2>3, <2>5, <2>6, <2>7, <2>9 DEF OnceInv
<1> QED BY <1>4, <1>5 DEF try_push

LEMMA RingAt ==
  ASSUME Types, NEW s \in Shards, NEW p \in 1 .. Producers, NEW z \in RingT,
         ring' = [ring EXCEPT ![s][p] = z]
  PROVE  /\ ring' \in [Shards -> [1 .. Producers -> RingT]]
         /\ ring'[s][p] = z
         /\ \A t \in Shards : \A m \in 1 .. Producers : <<t, m>> # <<s, p>> => ring'[t][m] = ring[t][m]
<1>1. ring \in [Shards -> [1 .. Producers -> RingT]]
  BY DEF Types
<1>2. ring' = [ring EXCEPT ![s] = [ring[s] EXCEPT ![p] = z]]
  OBVIOUS
<1>3. [ring[s] EXCEPT ![p] = z] \in [1 .. Producers -> RingT]
  BY <1>1
<1>4. ring' \in [Shards -> [1 .. Producers -> RingT]]
  BY <1>1, <1>2, <1>3
<1>5. ring'[s] = [ring[s] EXCEPT ![p] = z] /\ \A t \in Shards : t # s => ring'[t] = ring[t]
  BY <1>1, <1>2
<1>6. ring'[s][p] = z /\ \A m \in 1 .. Producers : m # p => ring'[s][m] = ring[s][m]
  BY <1>1, <1>5
<1> QED BY <1>4, <1>5, <1>6

LEMMA HeadOnce ==
  ASSUME OnceInv, NEW c \in Callers, push_head(c)
  PROVE  OnceInv'
<1>1. Types /\ CallInv /\ BusyInv /\ WrittenInv /\ stage[c] = "written" /\ Pending(completion[c])
  BY DEF OnceInv, push_head, CallInv
<1>s. PICK s \in Shards : s = Target(c)
  BY <1>1, TargetKnown
<1> DEFINE p == ThreadOf[c]
           q == ring[s][p]
           z == [q EXCEPT !.head = q.head + 1]
<1>2. s \in Shards /\ p \in 1 .. Producers /\ call[c] \in Requests /\ QueueInv(s, p)
  BY <1>1, <1>s, TargetKnown, TypeFacts DEF OnceInv
<1>3. q \in RingT /\ q.head \in Nat /\ q.tail \in Nat /\ QueueCapacity \in Nat \ {0}
  BY <1>1, <1>2, TypeFacts, ShardedAssumption
<1>4. /\ worker' = worker /\ completion' = completion /\ plan' = plan /\ late' = late /\ call' = call
      /\ global_seq' = global_seq /\ halted' = halted /\ stage' = [stage EXCEPT ![c] = "published"]
      /\ ring' = [ring EXCEPT ![s][p].head = q.head + 1]
  BY <1>s DEF push_head
<1>5. ring' = [ring EXCEPT ![s][p] = z]
  BY <1>4
<1>6. z \in RingT /\ z.head = q.head + 1 /\ z.tail = q.tail /\ z.slot = q.slot
  BY <1>3 DEF RingT
<1>7. \A k : At(z, k) = At(q, k)
  BY <1>6 DEF At
<1>8. q.head < q.tail + QueueCapacity /\ At(q, q.head) = c
  BY <1>1, <1>s DEF WrittenInv
<1> HIDE DEF z, p
<1>9. /\ ring' \in [Shards -> [1 .. Producers -> RingT]]
      /\ ring'[s][p] = z
      /\ \A t \in Shards : \A m \in 1 .. Producers : <<t, m>> # <<s, p>> => ring'[t][m] = ring[t][m]
  <2>1. Types /\ p \in 1 .. Producers /\ z \in RingT
    BY <1>1, <1>2, <1>6
  <2> QED BY <1>5, <2>1, RingAt
<1>10. Others(c) /\ stage'[c] = "published" /\ stage' \in [Callers -> Stages]
  BY <1>1, <1>4 DEF Types, Others, Stages
<1>11. Types'
  BY <1>1, <1>4, <1>9, <1>10 DEF Types, Given
<1>12. CallInv'
  <2>1. stage'[c] # "idle" /\ call[c] # Calls!NoCall /\ ~completion[c].done
    BY <1>1, <1>2, <1>10, RequestFacts DEF Pending
  <2> QED BY <1>1, <1>4, <1>10, <2>1 DEF CallInv, Others, Given
<1>13. BusyInv'
  <2>1. \A d \in Callers : stage'[d] \in {"begun", "written"} => stage[d] \in {"begun", "written"}
    BY <1>1, <1>10 DEF Others
  <2> QED BY <1>1, <2>1 DEF BusyInv
<1>14. WrittenInv'
  <2> SUFFICES ASSUME NEW d \in Callers, stage'[d] = "written"
               PROVE  LET y == ring'[Target(d)][ThreadOf[d]]
                      IN y.head < y.tail + QueueCapacity /\ At(y, y.head) = d
    BY <1>4 DEF WrittenInv, At, Target
  <2>1. d # c
    BY <1>10
  <2>2. stage[d] = "written"
    BY <1>10, <2>1 DEF Others
  <2>3. ThreadOf[d] # p
    BY <1>1, <2>1, <2>2 DEF BusyInv, p
  <2>4. Target(d) \in Shards /\ ThreadOf[d] \in 1 .. Producers
    BY <1>1, <2>2, TargetKnown, TypeFacts
  <2>5. ring'[Target(d)][ThreadOf[d]] = ring[Target(d)][ThreadOf[d]]
    BY <1>9, <2>3, <2>4
  <2> QED BY <1>1, <2>2, <2>5 DEF WrittenInv
<1>15. \A k \in q.tail .. q.head - 1 : At(q, k) \in Waiting(s, p) /\ At(q, k) # c
  BY <1>1, <1>2 DEF QueueInv, Waiting
<1>16. c \in Waiting(s, p)'
  BY <1>1, <1>4, <1>10, <1>s DEF Waiting, Target, p
<1>17. QueueInv(s, p)'
  <2>1. z.tail <= z.head /\ z.head <= z.tail + QueueCapacity
    BY <1>2, <1>3, <1>6, <1>8 DEF QueueInv
  <2>2. ASSUME NEW k \in z.tail .. z.head - 1 PROVE k \in q.tail .. q.head - 1 \/ k = q.head
    BY <1>3, <1>6
  <2>3. ASSUME NEW k \in z.tail .. z.head - 1 PROVE At(z, k) \in Waiting(s, p)'
    <3>1. CASE k = q.head
      BY <1>7, <1>8, <1>16, <3>1
    <3>2. CASE k \in q.tail .. q.head - 1
      BY <1>7, <1>10, <1>15, <3>2, WaitingKept
    <3> QED BY <2>2, <3>1, <3>2
  <2>4. ASSUME NEW k \in z.tail .. z.head - 1, NEW l \in z.tail .. z.head - 1, At(z, k) = At(z, l)
        PROVE  k = l
    <3>1. CASE k = q.head /\ l = q.head
      BY <3>1
    <3>2. CASE k = q.head /\ l \in q.tail .. q.head - 1
      BY <1>7, <1>8, <1>15, <2>4, <3>2
    <3>3. CASE l = q.head /\ k \in q.tail .. q.head - 1
      BY <1>7, <1>8, <1>15, <2>4, <3>3
    <3>4. CASE k \in q.tail .. q.head - 1 /\ l \in q.tail .. q.head - 1
      BY <1>2, <1>7, <2>4, <3>4 DEF QueueInv
    <3> QED BY <2>2, <3>1, <3>2, <3>3, <3>4
  <2> QED BY <1>9, <2>1, <2>3, <2>4 DEF QueueInv, At
<1>18. ASSUME NEW t \in Shards, NEW m \in 1 .. Producers, <<t, m>> # <<s, p>> PROVE QueueInv(t, m)'
  <2>1. QueueInv(t, m) /\ ring'[t][m] = ring[t][m]
    BY <1>9, <1>18 DEF OnceInv
  <2> QED BY <1>1, <1>10, <2>1, QueuesKept
<1>19. ASSUME NEW t \in Shards PROVE HandInv(t)'
  <2> DEFINE w == worker[t]
  <2>1. HandInv(t) /\ w.at \in 1 .. Producers
    BY <1>1, TypeFacts DEF OnceInv, WorkerT
  <2>2. w.pc \in {"apply", "mutate", "claim", "log"} => w.c # c /\ w.c \in Callers
    BY <1>1, <2>1 DEF HandInv
  <2>3. worker'[t] = w
    BY <1>4
  <2>4. ASSUME NEW m \in 1 .. Producers
        PROVE  /\ ring'[t][m].tail = ring[t][m].tail /\ ring'[t][m].head >= ring[t][m].head
               /\ \A k : At(ring'[t][m], k) = At(ring[t][m], k)
               /\ \A k \in ring'[t][m].tail .. ring'[t][m].head - 1 :
                    k \in ring[t][m].tail .. ring[t][m].head - 1 \/ At(ring'[t][m], k) = c
    <3>1. CASE <<t, m>> # <<s, p>>
      <4>1. ring'[t][m] = ring[t][m] /\ ring[t][m].head \in Nat
        BY <1>1, <1>9, <3>1, TypeFacts
      <4> QED BY <4>1
    <3>2. CASE t = s /\ m = p
      <4>1. ring'[t][m] = z /\ ring[t][m] = q
        BY <1>9, <3>2
      <4>2. \A k \in z.tail .. z.head - 1 : k \in q.tail .. q.head - 1 \/ k = q.head
        BY <1>3, <1>6
      <4>3. z.tail = q.tail /\ z.head >= q.head
        BY <1>3, <1>6
      <4> QED BY <1>7, <1>8, <4>1, <4>2, <4>3
    <3> QED BY <3>1, <3>2
  <2>5. w.pc = "popped" => /\ ring'[t][w.at].tail < ring'[t][w.at].head
                           /\ w.c = At(ring'[t][w.at], ring'[t][w.at].tail)
    <3> SUFFICES ASSUME w.pc = "popped"
                 PROVE  /\ ring'[t][w.at].tail < ring'[t][w.at].head
                        /\ w.c = At(ring'[t][w.at], ring'[t][w.at].tail)
      OBVIOUS
    <3>1. ring[t][w.at].tail < ring[t][w.at].head /\ w.c = At(ring[t][w.at], ring[t][w.at].tail)
      BY <2>1 DEF HandInv
    <3>2. ring'[t][w.at].head \in Nat /\ ring[t][w.at].head \in Nat /\ ring[t][w.at].tail \in Nat
      <4>1. ring'[t][w.at] \in RingT
        BY <1>9, <2>1
      <4> QED BY <1>1, <2>1, <4>1, TypeFacts DEF RingT
    <3> QED BY <2>1, <2>4, <3>1, <3>2
  <2>6. w.pc \in {"apply", "mutate", "claim", "log"} =>
          \A m \in 1 .. Producers : \A k \in ring'[t][m].tail .. ring'[t][m].head - 1 :
            At(ring'[t][m], k) # w.c
    BY <2>1, <2>2, <2>4 DEF HandInv
  <2>7. w.pc \in {"apply", "mutate", "claim", "log"} => stage'[w.c] = stage[w.c]
    BY <1>10, <2>2 DEF Others
  <2> HIDE DEF w
  <2> QED BY <1>4, <2>1, <2>3, <2>5, <2>6, <2>7 DEF HandInv, w, Given, At, Target
<1>20. \A t \in Shards : HandInv(t)' /\ \A m \in 1 .. Producers : QueueInv(t, m)'
  BY <1>2, <1>17, <1>18, <1>19
<1> QED BY <1>11, <1>12, <1>13, <1>14, <1>20 DEF OnceInv
-----------------------------------------------------------------------------
(* The workers' steps. *)

LEMMA WorkerAt ==
  ASSUME Types, NEW s \in Shards, NEW w \in WorkerT, Moves(s, w)
  PROVE  /\ worker' \in [Shards -> WorkerT] /\ worker'[s] = w
         /\ \A t \in Shards : t # s => worker'[t] = worker[t]
BY DEF Types, Moves

LEMMA AfterRingTyped ==
  ASSUME NEW w \in WorkerT, NEW work \in BOOLEAN
  PROVE  /\ AfterRing(w, work) \in WorkerT
         /\ AfterRing(w, work).pc \in {"top", "scan", "ended"}
         /\ AfterRing(w, work).c = w.c
<1>1. w.at \in 1 .. Producers /\ Producers \in Nat \ {0} /\ 1 \in 1 .. Producers
  BY ShardedAssumption DEF WorkerT
<1>2. CASE w.at < Producers
  <2>1. w.at + 1 \in 1 .. Producers
    BY <1>1, <1>2
  <2>2. AfterRing(w, work) = [w EXCEPT !.pc = "scan", !.at = w.at + 1, !.work = work]
    BY <1>2 DEF AfterRing
  <2> QED BY <2>1, <2>2 DEF WorkerT, WorkerPcs
<1>3. CASE ~(w.at < Producers)
  <2> DEFINE pc == IF ~w.draining THEN "top" ELSE IF work THEN "scan" ELSE "ended"
  <2>1. AfterRing(w, work) = [w EXCEPT !.pc = pc, !.at = 1, !.work = FALSE]
    BY <1>3 DEF AfterRing
  <2>2. pc \in {"top", "scan", "ended"}
    OBVIOUS
  <2> HIDE DEF pc
  <2> QED BY <1>1, <2>1, <2>2 DEF WorkerT, WorkerPcs
<1> QED BY <1>2, <1>3

\* Steps that touch nothing but the worker itself.
LEMMA WorkerOnly ==
  ASSUME OnceInv, NEW s \in Shards, NEW w \in WorkerT, Moves(s, w), global_seq' \in Nat,
         UNCHANGED <<stage, call, completion, ring, plan, halted, late>>, HandInv(s)'
  PROVE  OnceInv'
<1>1. Types /\ CallInv /\ BusyInv /\ WrittenInv
  BY DEF OnceInv
<1>2. /\ worker' \in [Shards -> WorkerT] /\ worker'[s] = w
      /\ \A t \in Shards : t # s => worker'[t] = worker[t]
  BY <1>1, WorkerAt
<1>3. Types'
  BY <1>1, <1>2 DEF Types, Given
<1>4. CallInv' /\ BusyInv' /\ WrittenInv'
  BY <1>1 DEF CallInv, BusyInv, WrittenInv, Given, Target, At
<1>5. ASSUME NEW t \in Shards, NEW p \in 1 .. Producers PROVE QueueInv(t, p)'
  <2>1. QueueInv(t, p)
    BY DEF OnceInv
  <2> QED BY <2>1 DEF QueueInv, Waiting, Target, At
<1>6. ASSUME NEW t \in Shards, t # s PROVE HandInv(t)'
  <2>1. HandInv(t) /\ worker'[t] = worker[t]
    BY <1>2, <1>6 DEF OnceInv
  <2> QED BY <2>1 DEF HandInv, Target, Given, At
<1> QED BY <1>3, <1>4, <1>5, <1>6 DEF OnceInv

LEMMA RunOnce ==
  ASSUME OnceInv, NEW s \in Shards, run(s)
  PROVE  OnceInv'
<1>1. Types /\ worker[s] \in WorkerT /\ worker[s].pc = "top"
  BY TypeFacts DEF OnceInv, run
<1>2. PICK w \in WorkerT : Moves(s, w) /\ w.pc = "scan"
  <2>1. [worker[s] EXCEPT !.pc = "scan", !.draining = TRUE] \in WorkerT
        /\ [worker[s] EXCEPT !.pc = "scan", !.draining = TRUE].pc = "scan"
    BY <1>1 DEF WorkerT, WorkerPcs
  <2>2. [worker[s] EXCEPT !.pc = "scan"] \in WorkerT /\ [worker[s] EXCEPT !.pc = "scan"].pc = "scan"
    BY <1>1 DEF WorkerT, WorkerPcs
  <2> QED BY <2>1, <2>2 DEF run
<1>3. worker'[s] = w
  BY <1>1, <1>2, WorkerAt
<1>4. HandInv(s)'
  BY <1>2, <1>3 DEF HandInv
<1>5. UNCHANGED <<stage, call, completion, ring, plan, halted, late>> /\ global_seq' \in Nat
  BY <1>1 DEF run, Types
<1> QED BY <1>2, <1>4, <1>5, WorkerOnly

LEMMA PopOnce ==
  ASSUME OnceInv, NEW s \in Shards, try_pop(s)
  PROVE  OnceInv'
<1> DEFINE w == worker[s]
           q == ring[s][w.at]
<1>1. Types /\ w \in WorkerT /\ w.pc = "scan" /\ w.at \in 1 .. Producers /\ w.work \in BOOLEAN
  BY TypeFacts DEF OnceInv, try_pop, WorkerT
<1>2. q.head \in Nat /\ q.tail \in Nat /\ QueueInv(s, w.at)
  BY <1>1, TypeFacts DEF OnceInv
<1>3. UNCHANGED <<stage, call, completion, ring, plan, halted, late>> /\ global_seq' \in Nat
  BY <1>1 DEF try_pop, Types
<1>4. CASE q.tail = q.head /\ Moves(s, AfterRing(w, w.work))
  <2>1. AfterRing(w, w.work) \in WorkerT /\ AfterRing(w, w.work).pc \in {"top", "scan", "ended"}
    BY <1>1, AfterRingTyped
  <2>2. worker'[s] = AfterRing(w, w.work)
    BY <1>1, <1>4, <2>1, WorkerAt
  <2>3. HandInv(s)'
    BY <2>1, <2>2 DEF HandInv
  <2> QED BY <1>3, <1>4, <2>1, <2>3, WorkerOnly
<1>5. CASE q.tail # q.head /\ Moves(s, [w EXCEPT !.pc = "popped", !.c = q.slot[q.tail % QueueCapacity]])
  <2> DEFINE y == [w EXCEPT !.pc = "popped", !.c = At(q, q.tail)]
  <2>1. q.tail < q.head
    <3>1. q.tail <= q.head
      BY <1>2 DEF QueueInv
    <3> QED BY <1>2, <1>5, <3>1
  <2>2. q.tail \in q.tail .. q.head - 1
    BY <1>2, <2>1
  <2>3. At(q, q.tail) \in Callers
    BY <1>2, <2>2 DEF QueueInv, Waiting
  <2>4. y \in WorkerT /\ y.pc = "popped" /\ y.c = At(q, q.tail) /\ y.at = w.at
    BY <1>1, <2>3 DEF WorkerT, WorkerPcs
  <2>5. Moves(s, y)
    BY <1>5 DEF At
  <2> HIDE DEF y
  <2>6. worker'[s] = y
    BY <1>1, <2>4, <2>5, WorkerAt
  <2>7. HandInv(s)'
    BY <1>3, <2>1, <2>4, <2>6 DEF HandInv, At
  <2> QED BY <1>3, <2>4, <2>5, <2>7, WorkerOnly
<1> QED BY <1>4, <1>5 DEF try_pop

LEMMA ApprovalOnce ==
  ASSUME OnceInv, NEW s \in Shards, standing_approval(s)
  PROVE  OnceInv'
<1> DEFINE w == worker[s]
           y == [w EXCEPT !.pc = "mutate", !.approved = Approved]
<1>1. Types /\ w \in WorkerT /\ w.pc = "apply" /\ HandInv(s) /\ Moves(s, y)
  BY TypeFacts DEF OnceInv, standing_approval
<1>2. y \in WorkerT /\ y.pc = "mutate" /\ y.c = w.c
  BY <1>1 DEF WorkerT, WorkerPcs, Approved, Types
<1> HIDE DEF y
<1>3. worker'[s] = y
  BY <1>1, <1>2, WorkerAt
<1>4. UNCHANGED <<stage, call, completion, ring, plan, halted, late>> /\ global_seq' \in Nat
  BY <1>1 DEF standing_approval, Types
<1>5. HandInv(s)'
  BY <1>1, <1>2, <1>3, <1>4 DEF HandInv, Target, At
<1> QED BY <1>1, <1>2, <1>4, <1>5, WorkerOnly

LEMMA ClaimOnce ==
  ASSUME OnceInv, NEW s \in Shards, claim_seq(s)
  PROVE  OnceInv'
<1> DEFINE w == worker[s]
           y == [w EXCEPT !.pc = "log", !.seq = global_seq]
<1>1. Types /\ w \in WorkerT /\ w.pc = "claim" /\ HandInv(s) /\ Moves(s, y) /\ global_seq \in Nat
  BY TypeFacts DEF OnceInv, claim_seq, NextSeq, Types
<1>2. y \in WorkerT /\ y.pc = "log" /\ y.c = w.c
  BY <1>1 DEF WorkerT, WorkerPcs
<1> HIDE DEF y
<1>3. worker'[s] = y
  BY <1>1, <1>2, WorkerAt
<1>4. UNCHANGED <<stage, call, completion, ring, plan, halted, late>> /\ global_seq' \in Nat
  BY <1>1 DEF claim_seq
<1>5. HandInv(s)'
  BY <1>1, <1>2, <1>3, <1>4 DEF HandInv, Target, At, Given
<1> QED BY <1>1, <1>2, <1>4, <1>5, WorkerOnly

\* pause, resume, halt_globally and the destructor.
LEMMA ApartOnce ==
  ASSUME OnceInv, UNCHANGED <<stage, call, completion, ring, worker, global_seq, late>>,
         plan' \in PlanT, halted' \in BOOLEAN
  PROVE  OnceInv'
<1>1. Types' /\ CallInv' /\ BusyInv' /\ WrittenInv'
  BY DEF OnceInv, Types, CallInv, BusyInv, WrittenInv, Given, Target, At
<1>2. ASSUME NEW t \in Shards, NEW p \in 1 .. Producers PROVE QueueInv(t, p)'
  <2>1. QueueInv(t, p)
    BY DEF OnceInv
  <2> QED BY <2>1 DEF QueueInv, Waiting, Target, At
<1>3. ASSUME NEW t \in Shards PROVE HandInv(t)'
  <2>1. HandInv(t)
    BY DEF OnceInv
  <2> QED BY <2>1 DEF HandInv, Target, Given, At
<1> QED BY <1>1, <1>2, <1>3 DEF OnceInv

\* The request in the hand of worker s is in no queue and in no other hand.
LEMMA HandOthers ==
  ASSUME OnceInv, NEW s \in Shards, NEW c, c = worker[s].c,
         worker[s].pc \in {"apply", "mutate", "claim", "log"},
         Others(c), ring' = ring, \A t \in Shards : t # s => worker'[t] = worker[t]
  PROVE  /\ \A t \in Shards : t # s => HandInv(t)'
         /\ \A t \in Shards : \A p \in 1 .. Producers : QueueInv(t, p)'
<1>1. c \in Callers /\ Target(c) = s /\ HandInv(s)
  BY DEF OnceInv, HandInv
<1>2. ASSUME NEW t \in Shards, NEW p \in 1 .. Producers PROVE QueueInv(t, p)'
  <2>1. QueueInv(t, p) /\ ring'[t][p] = ring[t][p]
    BY DEF OnceInv
  <2>2. ASSUME NEW k \in ring[t][p].tail .. ring[t][p].head - 1
        PROVE  At(ring[t][p], k) \in Waiting(t, p)'
    <3>1. At(ring[t][p], k) \in Waiting(t, p)
      BY <2>1 DEF QueueInv
    <3>2. At(ring[t][p], k) # c
      <4>1. CASE t # s
        BY <1>1, <3>1, <4>1 DEF Waiting
      <4>2. CASE t = s
        BY <1>1, <4>2 DEF HandInv
      <4> QED BY <4>1, <4>2
    <3> QED BY <3>1, <3>2, WaitingKept
  <2> QED BY <2>1, <2>2, QueueKept
<1>3. ASSUME NEW t \in Shards, t # s PROVE HandInv(t)'
  <2> DEFINE w == worker[t]
  <2>1. HandInv(t) /\ worker'[t] = w
    BY <1>3 DEF OnceInv
  <2>2. w.pc \in {"apply", "mutate", "claim", "log"} => w.c # c /\ w.c \in Callers
    BY <1>1, <1>3, <2>1 DEF HandInv
  <2>3. w.pc \in {"apply", "mutate", "claim", "log"} =>
          /\ stage'[w.c] = stage[w.c] /\ call'[w.c] = call[w.c] /\ completion'[w.c] = completion[w.c]
    BY <2>2 DEF Others
  <2> HIDE DEF w
  <2> QED BY <2>1, <2>3 DEF HandInv, w, Target, Given, At
<1> QED BY <1>2, <1>3

LEMMA ApplyOnce ==
  ASSUME OnceInv, NEW s \in Shards, apply(s)
  PROVE  OnceInv'
<1> DEFINE w == worker[s]
           y == [w EXCEPT !.pc = "claim", !.approved = FALSE]
           q == call[w.c]
           a == Calls!Reply(oms, q, w.approved, Held(completion[w.c]))
<1>1. Types /\ CallInv /\ BusyInv /\ WrittenInv /\ w \in WorkerT /\ w.pc \in {"apply", "mutate"} /\ HandInv(s)
  BY TypeFacts DEF OnceInv, apply
<1>2. PICK c \in Callers : c = w.c
  BY <1>1 DEF HandInv
<1>3. stage[c] = "published" /\ Target(c) = s /\ Pending(completion[c])
  BY <1>1, <1>2 DEF HandInv
<1>4. y \in WorkerT /\ y.pc = "claim" /\ y.c = c
  BY <1>1, <1>2 DEF WorkerT, WorkerPcs
<1>5. /\ completion' = [completion EXCEPT ![c] = Completion(FALSE, a)] /\ Moves(s, y)
      /\ UNCHANGED <<call, stage, ring, global_seq, halted, plan, late>>
  BY <1>2 DEF apply
<1>6. a.given /\ Entire(a)
  BY ReplyGiven
<1> HIDE DEF y, a
<1>7. /\ worker' \in [Shards -> WorkerT] /\ worker'[s] = y
      /\ \A t \in Shards : t # s => worker'[t] = worker[t]
  BY <1>1, <1>4, <1>5, WorkerAt
<1>8. /\ completion' = [d \in Callers |-> Completion(completion'[d].done, Given(d)')]
      /\ \A d \in Callers : completion'[d].done \in BOOLEAN
      /\ \A d \in Callers : d # c => completion'[d] = completion[d]
      /\ completion'[c].done = FALSE /\ completion'[c].given = a.given
  <2>1. Types /\ Entire(a) /\ completion' = [completion EXCEPT ![c] = Completion(FALSE, a)]
    BY <1>1, <1>5, <1>6
  <2> QED BY <2>1, CompletionWrite
<1>o. Others(c)
  BY <1>5, <1>8 DEF Others
<1>9. Types'
  BY <1>1, <1>5, <1>7, <1>8 DEF Types
<1>10. CallInv'
  <2> SUFFICES ASSUME NEW d \in Callers
               PROVE  /\ stage'[d] = "idle" <=> call'[d] = Calls!NoCall
                      /\ stage'[d] \in {"begun", "written"} => Pending(completion'[d])
                      /\ completion'[d].done => completion'[d].given
    BY DEF CallInv
  <2>1. CASE d = c
    BY <1>1, <1>3, <1>5, <1>8, <2>1 DEF CallInv
  <2>2. CASE d # c
    BY <1>1, <1>o, <2>2 DEF Others, CallInv
  <2> QED BY <2>1, <2>2
<1>11. BusyInv' /\ WrittenInv'
  BY <1>1, <1>5 DEF BusyInv, WrittenInv, Target, At
<1>12. /\ \A t \in Shards : t # s => HandInv(t)'
       /\ \A t \in Shards : \A p \in 1 .. Producers : QueueInv(t, p)'
  BY <1>1, <1>2, <1>5, <1>7, <1>o, HandOthers
<1>13. HandInv(s)'
  <2>1. \A p \in 1 .. Producers : \A k \in ring'[s][p].tail .. ring'[s][p].head - 1 : At(ring'[s][p], k) # c
    BY <1>1, <1>2, <1>5 DEF HandInv
  <2>3. completion'[c].given
    BY <1>6, <1>8
  <2>4. worker'[s].pc = "claim" /\ worker'[s].c = c
    BY <1>4, <1>7
  <2>5. stage'[c] = "published" /\ ShardOf[call'[c].ref] = s /\ ~completion'[c].done
    BY <1>3, <1>5, <1>8 DEF Target
  <2> QED BY <2>1, <2>3, <2>4, <2>5 DEF HandInv, Target, At
<1> QED BY <1>9, <1>10, <1>11, <1>12, <1>13 DEF OnceInv

LEMMA CompleteOnce ==
  ASSUME OnceInv, NEW s \in Shards, complete(s)
  PROVE  OnceInv'
<1> DEFINE w == worker[s]
           y == [AfterRing(w, TRUE) EXCEPT !.c = NoCaller, !.seq = 0]
<1>1. Types /\ CallInv /\ BusyInv /\ WrittenInv /\ w \in WorkerT /\ w.pc = "log" /\ HandInv(s)
  BY TypeFacts DEF OnceInv, complete
<1>2. PICK c \in Callers : c = w.c
  BY <1>1 DEF HandInv
<1>3. stage[c] = "published" /\ Target(c) = s /\ completion[c].given
  BY <1>1, <1>2 DEF HandInv
<1>4. y \in WorkerT /\ y.pc \in {"top", "scan", "ended"}
  <2>1. AfterRing(w, TRUE) \in WorkerT /\ AfterRing(w, TRUE).pc \in {"top", "scan", "ended"}
    BY <1>1, AfterRingTyped
  <2> QED BY <2>1 DEF WorkerT
<1>5. /\ completion' = [completion EXCEPT ![c].done = TRUE] /\ Moves(s, y)
      /\ UNCHANGED <<call, stage, ring, global_seq, halted, plan, late>>
  BY <1>2 DEF complete
<1>6. completion' = [completion EXCEPT ![c] = Completion(TRUE, Given(c))]
  <2>1. completion = [d \in Callers |-> Completion(completion[d].done, Given(d))]
    BY <1>1 DEF Types
  <2>2. completion[c] = Completion(completion[c].done, Given(c))
    BY <2>1
  <2>3. [completion[c] EXCEPT !.done = TRUE] = Completion(TRUE, Given(c))
    BY <2>2, CompletionDone
  <2> QED BY <1>5, <2>3
<1> DEFINE a == Given(c)
<1>7. Entire(a) /\ a.given /\ completion' = [completion EXCEPT ![c] = Completion(TRUE, a)]
  BY <1>3, <1>6 DEF Given, Held, Entire, Calls!Answer
<1> HIDE DEF y, a
<1>8. /\ worker' \in [Shards -> WorkerT] /\ worker'[s] = y
      /\ \A t \in Shards : t # s => worker'[t] = worker[t]
  BY <1>1, <1>4, <1>5, WorkerAt
<1>9. /\ completion' = [d \in Callers |-> Completion(completion'[d].done, Given(d)')]
      /\ \A d \in Callers : completion'[d].done \in BOOLEAN
      /\ \A d \in Callers : d # c => completion'[d] = completion[d]
      /\ completion'[c].given = a.given
  <2>1. Types /\ Entire(a) /\ completion' = [completion EXCEPT ![c] = Completion(TRUE, a)]
    BY <1>1, <1>7
  <2> QED BY <2>1, CompletionWrite
<1>o. Others(c)
  BY <1>5, <1>9 DEF Others
<1>10. Types'
  BY <1>1, <1>5, <1>8, <1>9 DEF Types
<1>11. CallInv'
  <2> SUFFICES ASSUME NEW d \in Callers
               PROVE  /\ stage'[d] = "idle" <=> call'[d] = Calls!NoCall
                      /\ stage'[d] \in {"begun", "written"} => Pending(completion'[d])
                      /\ completion'[d].done => completion'[d].given
    BY DEF CallInv
  <2>1. CASE d = c
    BY <1>1, <1>3, <1>5, <1>7, <1>9, <2>1 DEF CallInv
  <2>2. CASE d # c
    BY <1>1, <1>o, <2>2 DEF Others, CallInv
  <2> QED BY <2>1, <2>2
<1>12. BusyInv' /\ WrittenInv'
  BY <1>1, <1>5 DEF BusyInv, WrittenInv, Target, At
<1>13. /\ \A t \in Shards : t # s => HandInv(t)'
       /\ \A t \in Shards : \A p \in 1 .. Producers : QueueInv(t, p)'
  BY <1>1, <1>2, <1>5, <1>8, <1>o, HandOthers
<1>14. HandInv(s)'
  BY <1>4, <1>8 DEF HandInv
<1> QED BY <1>10, <1>11, <1>12, <1>13, <1>14 DEF OnceInv

LEMMA TailOnce ==
  ASSUME OnceInv, NEW s \in Shards, pop_tail(s)
  PROVE  OnceInv'
<1> DEFINE w == worker[s]
           y == [w EXCEPT !.pc = "apply"]
<1>1. Types /\ CallInv /\ BusyInv /\ WrittenInv /\ w \in WorkerT /\ w.pc = "popped" /\ HandInv(s)
  BY TypeFacts DEF OnceInv, pop_tail
<1>p. PICK p \in 1 .. Producers : p = w.at
  BY <1>1 DEF WorkerT
<1> DEFINE q == ring[s][p]
           z == [q EXCEPT !.tail = q.tail + 1]
<1>2. q \in RingT /\ q.head \in Nat /\ q.tail \in Nat /\ QueueCapacity \in Nat \ {0} /\ QueueInv(s, p)
  BY <1>1, TypeFacts, ShardedAssumption DEF OnceInv
<1>3. q.tail < q.head /\ w.c = At(q, q.tail)
  BY <1>1, <1>p DEF HandInv
<1>4. q.tail \in q.tail .. q.head - 1
  BY <1>2, <1>3
<1>c. PICK c \in Waiting(s, p) : c = w.c
  BY <1>2, <1>3, <1>4 DEF QueueInv
<1>5. c \in Callers /\ ThreadOf[c] = p /\ stage[c] = "published" /\ Target(c) = s /\ Pending(completion[c])
  BY <1>c DEF Waiting
<1>6. /\ ring' = [ring EXCEPT ![s][p] = z] /\ Moves(s, y)
      /\ UNCHANGED <<call, stage, completion, global_seq, halted, plan, late>>
  BY <1>p DEF pop_tail
<1>7. z \in RingT /\ z.head = q.head /\ z.tail = q.tail + 1 /\ z.slot = q.slot
  BY <1>2 DEF RingT
<1>8. \A k : At(z, k) = At(q, k)
  BY <1>7 DEF At
<1>9. y \in WorkerT /\ y.pc = "apply" /\ y.c = c /\ y.at = p
  BY <1>1, <1>c, <1>p DEF WorkerT, WorkerPcs
<1> HIDE DEF z, y
<1>10. /\ ring' \in [Shards -> [1 .. Producers -> RingT]]
       /\ ring'[s][p] = z
       /\ \A t \in Shards : \A m \in 1 .. Producers : <<t, m>> # <<s, p>> => ring'[t][m] = ring[t][m]
  BY <1>1, <1>6, <1>7, RingAt
<1>11. /\ worker' \in [Shards -> WorkerT] /\ worker'[s] = y
       /\ \A t \in Shards : t # s => worker'[t] = worker[t]
  BY <1>1, <1>6, <1>9, WorkerAt
<1>12. Types' /\ CallInv' /\ BusyInv'
  BY <1>1, <1>6, <1>10, <1>11 DEF Types, CallInv, BusyInv, Given
<1>13. \A k \in z.tail .. z.head - 1 : k \in q.tail .. q.head - 1 /\ k # q.tail
  BY <1>2, <1>7
<1>14. \A k \in z.tail .. z.head - 1 : At(z, k) # c
  <2> SUFFICES ASSUME NEW k \in z.tail .. z.head - 1, At(z, k) = c PROVE FALSE
    OBVIOUS
  <2>1. At(q, k) = At(q, q.tail)
    BY <1>3, <1>8, <1>c
  <2> QED BY <1>2, <1>4, <1>13, <2>1 DEF QueueInv
<1>15. Waiting(s, p)' = Waiting(s, p)
  BY <1>6 DEF Waiting, Target
<1>16. QueueInv(s, p)'
  <2>1. z.tail <= z.head /\ z.head <= z.tail + QueueCapacity
    <3>1. q.head <= q.tail + QueueCapacity
      BY <1>2 DEF QueueInv
    <3> QED BY <1>2, <1>3, <1>7, <3>1
  <2>2. \A k \in z.tail .. z.head - 1 : At(z, k) \in Waiting(s, p)'
    BY <1>2, <1>8, <1>13, <1>15 DEF QueueInv
  <2>3. \A k, l \in z.tail .. z.head - 1 : At(z, k) = At(z, l) => k = l
    BY <1>2, <1>8, <1>13 DEF QueueInv
  <2> QED BY <1>10, <2>1, <2>2, <2>3 DEF QueueInv, At
<1>17. ASSUME NEW t \in Shards, NEW m \in 1 .. Producers, <<t, m>> # <<s, p>> PROVE QueueInv(t, m)'
  <2>1. QueueInv(t, m) /\ ring'[t][m] = ring[t][m] /\ Waiting(t, m)' = Waiting(t, m)
    BY <1>6, <1>10, <1>17 DEF OnceInv, Waiting, Target
  <2> QED BY <2>1 DEF QueueInv, At
<1>18. WrittenInv'
  <2> SUFFICES ASSUME NEW d \in Callers, stage[d] = "written"
               PROVE  LET x == ring'[Target(d)][ThreadOf[d]]
                      IN x.head < x.tail + QueueCapacity /\ At(x, x.head) = d
    BY <1>6 DEF WrittenInv, At, Target
  <2>1. Target(d) \in Shards /\ ThreadOf[d] \in 1 .. Producers
    BY <1>1, TargetKnown, TypeFacts
  <2> DEFINE x == ring[Target(d)][ThreadOf[d]]
  <2>2. x.head < x.tail + QueueCapacity /\ At(x, x.head) = d
    BY <1>1 DEF WrittenInv
  <2>3. CASE <<Target(d), ThreadOf[d]>> # <<s, p>>
    BY <1>10, <2>1, <2>2, <2>3
  <2>4. CASE Target(d) = s /\ ThreadOf[d] = p
    <3>1. ring'[Target(d)][ThreadOf[d]] = z /\ x = q
      BY <1>10, <2>4
    <3>2. z.head < z.tail + QueueCapacity /\ At(z, z.head) = d
      BY <1>2, <1>7, <1>8, <2>2, <3>1
    <3> QED BY <3>1, <3>2
  <2> QED BY <2>3, <2>4
<1>19. HandInv(s)'
  <2>1. ASSUME NEW m \in 1 .. Producers, NEW k \in ring'[s][m].tail .. ring'[s][m].head - 1
        PROVE  At(ring'[s][m], k) # c
    <3>1. CASE m = p
      BY <1>10, <1>14, <2>1, <3>1
    <3>2. CASE m # p
      <4>1. ring'[s][m] = ring[s][m] /\ QueueInv(s, m)
        BY <1>10, <3>2 DEF OnceInv
      <4>2. At(ring[s][m], k) \in Waiting(s, m)
        BY <2>1, <4>1 DEF QueueInv
      <4> QED BY <1>5, <3>2, <4>1, <4>2 DEF Waiting
    <3> QED BY <3>1, <3>2
  <2> QED BY <1>5, <1>6, <1>9, <1>11, <2>1 DEF HandInv, Target, At, Pending
<1>20. ASSUME NEW t \in Shards, t # s PROVE HandInv(t)'
  <2>1. HandInv(t) /\ worker'[t] = worker[t] /\ worker[t].at \in 1 .. Producers
    BY <1>1, <1>11, <1>20, TypeFacts DEF OnceInv, WorkerT
  <2>2. \A m \in 1 .. Producers : ring'[t][m] = ring[t][m]
    BY <1>10, <1>20
  <2> QED BY <1>6, <2>1, <2>2 DEF HandInv, Target, Given, At
<1>21. \A t \in Shards : HandInv(t)' /\ \A m \in 1 .. Producers : QueueInv(t, m)'
  BY <1>16, <1>17, <1>19, <1>20
<1> QED BY <1>12, <1>18, <1>21 DEF OnceInv

LEMMA PlanKept ==
  ASSUME Types, NEW e, Once(e)
  PROVE  plan' \in PlanT
BY DEF Types, PlanT, Once

LEMMA OnceStep ==
  ASSUME OnceInv, [Next]_vars
  PROVE  OnceInv'
<1>1. Types /\ plan \in PlanT /\ halted \in BOOLEAN
  BY DEF OnceInv, Types
<1>2. ASSUME NEW c \in Callers, submit(c) \/ try_push(c) \/ push_head(c) \/ wait(c) PROVE OnceInv'
  BY <1>2, SubmitOnce, PushOnce, HeadOnce, WaitOnce
<1>3. ASSUME NEW s \in Shards, WorkerStep(s) PROVE OnceInv'
  BY <1>3, RunOnce, PopOnce, TailOnce, ApprovalOnce, ApplyOnce, ClaimOnce, CompleteOnce DEF WorkerStep
<1>4. ASSUME NEW s \in Shards, pause(s) PROVE OnceInv'
  <2>1. plan' \in PlanT
    BY <1>1, <1>4, PlanKept DEF pause
  <2> QED BY <1>1, <1>4, <2>1, ApartOnce DEF pause
<1>5. ASSUME NEW s \in Shards, resume(s) \/ destroy(s) PROVE OnceInv'
  BY <1>1, <1>5, ApartOnce DEF resume, destroy
<1>6. CASE halt_globally
  <2>1. plan' \in PlanT
    BY <1>1, <1>6, PlanKept DEF halt_globally
  <2> QED BY <1>1, <1>6, <2>1, ApartOnce DEF halt_globally
<1>7. CASE UNCHANGED vars
  BY <1>1, <1>7, ApartOnce DEF vars
<1> QED BY <1>2, <1>3, <1>4, <1>5, <1>6, <1>7 DEF Next

LEMMA OnceAlways == Spec => []OnceInv
<1>1. Init => OnceInv
  BY OnceInit
<1>2. OnceInv /\ [Next]_vars => OnceInv'
  BY OnceStep
<1> QED BY <1>1, <1>2, PTL DEF Spec
-----------------------------------------------------------------------------
(* The refinement. *)

Answers == [c \in Callers |-> Given(c)]

LEMMA AnswersAt ==
  ASSUME NEW c \in Callers, Others(c)
  PROVE  Answers' = [Answers EXCEPT ![c] = Given(c)']
BY DEF Others, Answers, Given

LEMMA AnswersSame ==
  ASSUME NEW c \in Callers, Others(c), Given(c)' = Given(c)
  PROVE  Answers' = Answers
BY DEF Others, Answers, Given

LEMMA Stutters ==
  ASSUME UNCHANGED <<oms, call, completion>>
  PROVE  UNCHANGED <<oms, call, Answers>>
BY DEF Answers, Given

LEMMA AbsStep ==
  ASSUME OnceInv, [Next]_vars
  PROVE  [Calls!AbsNext]_<<oms, call, Answers>>
<1>1. Types /\ CallInv
  BY DEF OnceInv
<1>a. Answers = [c \in Callers |-> Held(completion[c])]
      /\ \A c \in Callers : Answers[c] = Held(completion[c]) /\ Answers[c].given = completion[c].given
  BY DEF Answers, Given, Held
<1>2. ASSUME NEW c \in Callers, submit(c) PROVE \E q \in Requests, anew \in BOOLEAN : Calls!Invoke(c, q, anew)
  <2>1. stage[c] = "idle" /\ call[c] = Calls!NoCall
    BY <1>1, <1>2 DEF submit, CallInv
  <2>2. plan.script[c] \in Seq(Requests) /\ plan.script[c] # <<>>
    BY <1>1, <1>2 DEF Types, PlanT, submit
  <2>3. PICK q \in Requests : q = Head(plan.script[c])
    BY <2>2
  <2>4. /\ oms' = oms /\ call' = [call EXCEPT ![c] = q] /\ stage' = [stage EXCEPT ![c] = "begun"]
        /\ call'[c] = q
    BY <1>1, <1>2, <2>3 DEF submit, Types
  <2>5. PICK anew \in BOOLEAN :
          completion' = [completion EXCEPT ![c] = Completion(FALSE, Calls!Handed(Held(completion[c]), q, anew))]
    BY <1>2, <2>4 DEF submit
  <2> DEFINE a == Calls!Handed(Held(completion[c]), q, anew)
  <2>6. Entire(a) /\ completion' = [completion EXCEPT ![c] = Completion(FALSE, a)]
    BY <2>5, HandedPending
  <2>7. Given(c)' = a /\ \A d \in Callers : d # c => completion'[d] = completion[d]
    <3> HIDE DEF a
    <3> QED BY <1>1, <2>6, CompletionWrite
  <2>8. Others(c)
    BY <1>1, <2>4, <2>7 DEF Others, Types
  <2>9. Answers' = [Answers EXCEPT ![c] = a]
    BY <2>7, <2>8, AnswersAt
  <2>10. Calls!Invoke(c, q, anew)
    BY <1>a, <2>1, <2>4, <2>9 DEF Calls!Invoke, Answers, Given
  <2> QED BY <2>10
<1>3. ASSUME NEW c \in Callers, try_push(c) PROVE Calls!TurnAway(c) \/ UNCHANGED <<oms, call, Answers>>
  <2>1. completion' = completion /\ oms' = oms
    BY <1>3 DEF try_push
  <2>2. stage[c] = "begun" /\ call[c] # Calls!NoCall /\ ~completion[c].given
    BY <1>1, <1>3 DEF try_push, CallInv, Pending
  <2>3. CASE call' = call
    BY <2>1, <2>3, Stutters
  <2>4. CASE call' = [call EXCEPT ![c] = Calls!NoCall]
    <3>1. ~[d \in Callers |-> Held(completion[d])][c].given
      BY <2>2 DEF Held
    <3> QED BY <2>1, <2>2, <2>4, <3>1 DEF Calls!TurnAway
  <2> QED BY <1>3, <2>3, <2>4 DEF try_push
<1>4. ASSUME NEW c \in Callers, push_head(c) PROVE UNCHANGED <<oms, call, Answers>>
  BY <1>4, Stutters DEF push_head
<1>5. ASSUME NEW c \in Callers, wait(c) PROVE Calls!Return(c)
  <2>1. call[c] # Calls!NoCall /\ completion[c].given
    BY <1>1, <1>5 DEF wait, CallInv
  <2>2. completion' = completion /\ call' = [call EXCEPT ![c] = Calls!NoCall] /\ oms' = oms
    BY <1>5 DEF wait
  <2>3. [d \in Callers |-> Held(completion[d])][c].given
    BY <2>1 DEF Held
  <2> QED BY <2>1, <2>2, <2>3 DEF Calls!Return
<1>6. ASSUME NEW s \in Shards, apply(s)
      PROVE  \E c \in Callers : \E approved \in BOOLEAN : Calls!TakeEffect(c, approved)
  <2> DEFINE w == worker[s]
  <2>1. w \in WorkerT /\ w.pc \in {"apply", "mutate"} /\ HandInv(s)
    BY <1>1, <1>6, TypeFacts DEF OnceInv, apply
  <2>2. PICK c \in Callers : c = w.c
    BY <2>1 DEF HandInv
  <2>3. stage[c] = "published" /\ ~completion[c].given /\ call[c] # Calls!NoCall
    BY <1>1, <2>1, <2>2 DEF HandInv, CallInv, Pending
  <2>4. PICK ok \in BOOLEAN : ok = w.approved
    BY <2>1 DEF WorkerT
  <2> DEFINE was == Held(completion[c])
             a == Calls!Reply(oms, call[c], ok, was)
  <2>5. /\ completion' = [completion EXCEPT ![c] = Completion(FALSE, a)] /\ stage' = stage /\ call' = call
        /\ oms' = Calls!NewBook(oms, call[c], ok, was)
    BY <1>6, <2>2, <2>4 DEF apply
  <2>6. Entire(a)
    BY ReplyGiven
  <2> HIDE DEF a
  <2>7. Others(c) /\ Given(c)' = a
    BY <1>1, <2>5, <2>6, CompletionWrite DEF Others
  <2>8. Answers' = [Answers EXCEPT ![c] = a]
    BY <2>7, AnswersAt
  <2>10. Calls!TakeEffect(c, ok)
    BY <1>a, <2>3, <2>5, <2>8 DEF Calls!TakeEffect, Answers, Given, a
  <2> QED BY <2>10
<1>7. ASSUME NEW s \in Shards, complete(s) PROVE UNCHANGED <<oms, call, Answers>>
  <2> DEFINE w == worker[s]
  <2>1. w \in WorkerT /\ w.pc = "log" /\ HandInv(s)
    BY <1>1, <1>7, TypeFacts DEF OnceInv, complete
  <2>2. PICK c \in Callers : c = w.c
    BY <2>1 DEF HandInv
  <2>3. completion' = [completion EXCEPT ![c].done = TRUE] /\ UNCHANGED <<oms, call, stage>>
    BY <1>7, <2>2 DEF complete
  <2>4. completion = [d \in Callers |-> Completion(completion[d].done, Given(d))]
    BY <1>1 DEF Types
  <2>5. [completion[c] EXCEPT !.done = TRUE] = Completion(TRUE, Given(c))
    <3>1. completion[c] = Completion(completion[c].done, Given(c))
      BY <2>4
    <3> QED BY <3>1, CompletionDone
  <2>6. completion'[c] = Completion(TRUE, Given(c)) /\ Others(c)
    BY <2>3, <2>4, <2>5 DEF Others
  <2>7. Given(c)' = Given(c)
    <3>1. Entire(Held(completion[c]))
      BY DEF Held, Entire, Calls!Answer
    <3>2. PICK a : a = Held(completion[c])
      OBVIOUS
    <3>3. Entire(a) /\ completion'[c] = Completion(TRUE, a)
      BY <2>6, <3>1, <3>2 DEF Given
    <3>4. Held(completion'[c]) = a
      BY <3>3, CompletionFields
    <3> QED BY <3>2, <3>4 DEF Given
  <2> QED BY <2>3, <2>6, <2>7, AnswersSame
<1>8. ASSUME NEW s \in Shards,
             run(s) \/ try_pop(s) \/ pop_tail(s) \/ standing_approval(s) \/ claim_seq(s)
               \/ pause(s) \/ resume(s) \/ destroy(s)
      PROVE  UNCHANGED <<oms, call, Answers>>
  BY <1>8, Stutters DEF run, try_pop, pop_tail, standing_approval, claim_seq, pause, resume, destroy
<1>9. CASE halt_globally \/ UNCHANGED vars
  BY <1>9, Stutters DEF halt_globally, vars
<1> QED BY <1>2, <1>3, <1>4, <1>5, <1>6, <1>7, <1>8, <1>9 DEF Next, WorkerStep, Calls!AbsNext

\* ShardedOms implements OmsCalls for every number of producers, shards, callers and slots:
\* whatever the interleaving of the rings' two-step pushes and pops with pauses, the halt and
\* the shutdown, and whichever completions are used again, each submit_* takes effect once and
\* returns the success of its own request; the order it shows is the request's own, or what the
\* completion held before.
THEOREM CallsImplemented == Spec => ImplementsCalls
<1>1. Init => Calls!AbsInit
  BY BlankFields DEF Init, Calls!AbsInit
<1>2. OnceInv /\ [Next]_vars => [Calls!AbsNext]_(Calls!absVars)
  BY AbsStep DEF Calls!absVars, Answers, Given
<1> QED BY <1>1, <1>2, OnceAlways, PTL DEF Spec, ImplementsCalls, Calls!AbsSpec
-----------------------------------------------------------------------------
(* The halt. *)

\* A create begun under a halt is not approved, and so not taken.
HaltInv == \A c \in Callers :
  late[c] /\ stage[c] # "idle" =>
    /\ halted
    /\ call[c].kind = "create" =>
         /\ completion[c].given => ~completion[c].ok
         /\ \A s \in Shards : worker[s].pc = "mutate" /\ worker[s].c = c => ~worker[s].approved

LEMMA CreateRefused ==
  ASSUME NEW b, NEW q, q.kind = "create", NEW was
  PROVE  ~Calls!Reply(b, q, FALSE, was).ok
BY DEF Calls!Reply, Calls!Effect, Calls!Unchanged, Calls!Outcome, Calls!Answer

\* A step that leaves the callers alone and brings no worker to its mutation.
LEMMA HaltKept ==
  ASSUME HaltInv, UNCHANGED <<stage, late, call>>, halted => halted',
         \A c \in Callers : completion'[c].ok = completion[c].ok /\ completion'[c].given = completion[c].given,
         \A s \in Shards : worker'[s] = worker[s] \/ worker'[s].pc # "mutate"
  PROVE  HaltInv'
BY DEF HaltInv

LEMMA MutatesOther ==
  ASSUME OnceInv, NEW c \in Callers, stage[c] # "published" \/ completion[c].done, NEW s \in Shards
  PROVE  ~(worker[s].pc = "mutate" /\ worker[s].c = c)
BY DEF OnceInv, HandInv

LEMMA HaltStep ==
  ASSUME OnceInv, HaltInv, [Next]_vars
  PROVE  HaltInv'
<1>1. Types /\ CallInv
  BY DEF OnceInv
<1>2. ASSUME NEW c \in Callers, submit(c) PROVE HaltInv'
  <2>0. PICK a : /\ Entire(a) /\ ~a.given
                 /\ completion' = [completion EXCEPT ![c] = Completion(FALSE, a)]
    BY <1>2, HandedPending DEF submit
  <2>1. /\ stage[c] = "idle" /\ late' = [late EXCEPT ![c] = halted] /\ halted' = halted /\ worker' = worker
        /\ stage' = [stage EXCEPT ![c] = "begun"] /\ call' = [call EXCEPT ![c] = Head(plan.script[c])]
    BY <1>2 DEF submit
  <2>2. \A d \in Callers : d # c => /\ stage'[d] = stage[d] /\ call'[d] = call[d] /\ late'[d] = late[d]
                                    /\ completion'[d] = completion[d]
    BY <1>1, <2>0, <2>1 DEF Types
  <2>3. late'[c] = halted /\ ~completion'[c].given
    BY <1>1, <2>0, <2>1, CompletionWrite DEF Types
  <2>4. \A s \in Shards : ~(worker[s].pc = "mutate" /\ worker[s].c = c)
    BY <2>1, MutatesOther
  <2> QED BY <2>1, <2>2, <2>3, <2>4 DEF HaltInv
<1>3. ASSUME NEW c \in Callers, try_push(c) \/ push_head(c) \/ wait(c) PROVE HaltInv'
  <2>1. /\ worker' = worker /\ late' = late /\ halted' = halted
        /\ \A d \in Callers : stage'[d] # "idle" => /\ stage[d] # "idle" /\ call'[d] = call[d]
                                                    /\ completion'[d] = completion[d]
    BY <1>1, <1>3 DEF try_push, push_head, wait, Types
  <2> QED BY <2>1 DEF HaltInv
<1>4. ASSUME NEW s \in Shards, run(s) \/ try_pop(s) \/ pop_tail(s) \/ claim_seq(s) PROVE HaltInv'
  <2>1. UNCHANGED <<stage, late, call, completion, halted>>
    BY <1>4 DEF run, try_pop, pop_tail, claim_seq
  <2>2. worker[s] \in WorkerT /\ worker[s].work \in BOOLEAN
    BY <1>1, TypeFacts DEF WorkerT
  <2>3. PICK w : Moves(s, w) /\ w.pc # "mutate"
    <3>1. AfterRing(worker[s], worker[s].work).pc # "mutate"
      BY <2>2, AfterRingTyped
    <3>2. CASE run(s)
      <4>1. [worker[s] EXCEPT !.pc = "scan", !.draining = TRUE].pc = "scan" /\ [worker[s] EXCEPT !.pc = "scan"].pc = "scan"
        BY <2>2 DEF WorkerT
      <4> QED BY <3>2, <4>1 DEF run
    <3>3. CASE try_pop(s)
      <4> DEFINE x == ring[s][worker[s].at].slot[ring[s][worker[s].at].tail % QueueCapacity]
      <4>1. [worker[s] EXCEPT !.pc = "popped", !.c = x].pc = "popped"
        BY <2>2 DEF WorkerT
      <4>2. Moves(s, AfterRing(worker[s], worker[s].work)) \/ Moves(s, [worker[s] EXCEPT !.pc = "popped", !.c = x])
        BY <3>3 DEF try_pop
      <4> HIDE DEF x
      <4> QED BY <3>1, <4>1, <4>2
    <3>4. CASE pop_tail(s)
      <4>1. [worker[s] EXCEPT !.pc = "apply"].pc = "apply"
        BY <2>2 DEF WorkerT
      <4> QED BY <3>4, <4>1 DEF pop_tail
    <3>5. CASE claim_seq(s)
      <4>1. [worker[s] EXCEPT !.pc = "log", !.seq = NextSeq(s)].pc = "log"
        BY <2>2 DEF WorkerT
      <4> QED BY <3>5, <4>1 DEF claim_seq
    <3> QED BY <1>4, <3>2, <3>3, <3>4, <3>5
  <2>4. \A t \in Shards : worker'[t] = worker[t] \/ worker'[t].pc # "mutate"
    BY <1>1, <2>3 DEF Moves, Types
  <2> QED BY <2>1, <2>4, HaltKept
<1>5. ASSUME NEW s \in Shards, standing_approval(s) PROVE HaltInv'
  <2>1. UNCHANGED <<stage, late, call, completion, halted>> /\ worker[s] \in WorkerT
    BY <1>1, <1>5, TypeFacts DEF standing_approval
  <2>2. worker' = [worker EXCEPT ![s] = [worker[s] EXCEPT !.pc = "mutate", !.approved = ~halted]]
    BY <1>5 DEF standing_approval, Moves, Approved
  <2>3. worker'[s].approved = ~halted /\ \A t \in Shards : t # s => worker'[t] = worker[t]
    <3>1. worker'[s] = [worker[s] EXCEPT !.pc = "mutate", !.approved = ~halted]
          /\ \A t \in Shards : t # s => worker'[t] = worker[t]
      BY <1>1, <2>2 DEF Types
    <3> QED BY <2>1, <3>1 DEF WorkerT
  <2> QED BY <2>1, <2>3 DEF HaltInv
<1>6. ASSUME NEW s \in Shards, apply(s) PROVE HaltInv'
  <2> DEFINE w == worker[s]
             was == Held(completion[w.c])
             a == Calls!Reply(oms, call[w.c], w.approved, was)
  <2>1. w \in WorkerT /\ w.pc \in {"apply", "mutate"} /\ HandInv(s)
    BY <1>1, <1>6, TypeFacts DEF OnceInv, apply
  <2>2. PICK c \in Callers : c = w.c
    BY <2>1 DEF HandInv
  <2>3. /\ completion' = [completion EXCEPT ![c] = Completion(FALSE, a)]
        /\ UNCHANGED <<stage, late, call, halted>>
        /\ worker' = [worker EXCEPT ![s] = [w EXCEPT !.pc = "claim", !.approved = FALSE]]
    BY <1>6, <2>2 DEF apply, Moves
  <2>4. \A t \in Shards : worker'[t] = worker[t] \/ worker'[t].pc = "claim"
    <3>1. [w EXCEPT !.pc = "claim", !.approved = FALSE].pc = "claim"
      BY <2>1 DEF WorkerT
    <3> QED BY <1>1, <2>3, <3>1 DEF Types
  <2>5. \A d \in Callers : d # c => completion'[d] = completion[d]
    BY <1>1, <2>3 DEF Types
  <2>6. completion'[c].ok = a.ok
    BY <1>1, <2>3 DEF Types, Completion
  <2>7. ASSUME late[c], stage[c] # "idle", call[c].kind = "create" PROVE ~a.ok
    <3>1. w.pc = "mutate"
      BY <1>6, <2>2, <2>7 DEF apply
    <3>2. ~w.approved /\ w.approved \in BOOLEAN
      BY <2>1, <2>2, <2>7, <3>1 DEF HaltInv, WorkerT
    <3>3. a = Calls!Reply(oms, call[c], FALSE, was)
      BY <2>2, <3>2
    <3> QED BY <2>7, <3>3, CreateRefused
  <2> HIDE DEF a
  <2> QED BY <2>3, <2>4, <2>5, <2>6, <2>7 DEF HaltInv
<1>7. ASSUME NEW s \in Shards, complete(s) PROVE HaltInv'
  <2> DEFINE w == worker[s]
             y == [AfterRing(w, TRUE) EXCEPT !.c = NoCaller, !.seq = 0]
  <2>1. w \in WorkerT /\ w.pc = "log" /\ HandInv(s)
    BY <1>1, <1>7, TypeFacts DEF OnceInv, complete
  <2>2. PICK c \in Callers : c = w.c
    BY <2>1 DEF HandInv
  <2>3. completion' = [completion EXCEPT ![c].done = TRUE] /\ Moves(s, y)
        /\ UNCHANGED <<stage, late, call, halted>>
    BY <1>7, <2>2 DEF complete
  <2>4. y.pc \in {"top", "scan", "ended"}
    <3>1. AfterRing(w, TRUE) \in WorkerT /\ AfterRing(w, TRUE).pc \in {"top", "scan", "ended"}
      BY <2>1, AfterRingTyped
    <3> QED BY <3>1 DEF WorkerT
  <2> HIDE DEF y
  <2>5. \A t \in Shards : worker'[t] = worker[t] \/ worker'[t].pc # "mutate"
    BY <1>1, <2>3, <2>4 DEF Moves, Types
  <2>6. \A d \in Callers : completion'[d].ok = completion[d].ok /\ completion'[d].given = completion[d].given
    <3>1. completion = [d \in Callers |-> Completion(completion[d].done, Given(d))]
      BY <1>1 DEF Types
    <3>2. completion[c] = Completion(completion[c].done, Given(c))
      BY <3>1
    <3>3. [completion[c] EXCEPT !.done = TRUE] = Completion(TRUE, Given(c))
      BY <3>2, CompletionDone
    <3>4. completion'[c] = Completion(TRUE, Given(c)) /\ \A d \in Callers : d # c => completion'[d] = completion[d]
      BY <2>3, <3>1, <3>3
    <3>5. Given(c).ok = completion[c].ok /\ Given(c).given = completion[c].given
      BY DEF Given, Held
    <3>6. completion'[c].ok = Given(c).ok /\ completion'[c].given = Given(c).given
      <4>1. PICK g : g = Given(c)
        OBVIOUS
      <4>2. completion'[c] = Completion(TRUE, g)
        BY <3>4, <4>1
      <4>3. completion'[c].ok = g.ok /\ completion'[c].given = g.given
        BY <4>2 DEF Completion
      <4> QED BY <4>1, <4>3
    <3> QED BY <3>4, <3>5, <3>6
  <2> QED BY <2>3, <2>5, <2>6, HaltKept
<1>8. ASSUME NEW s \in Shards, pause(s) \/ resume(s) \/ destroy(s) PROVE HaltInv'
  BY <1>8, HaltKept DEF pause, resume, destroy
<1>9. CASE halt_globally \/ UNCHANGED vars
  BY <1>9, HaltKept DEF halt_globally, vars
<1> QED BY <1>2, <1>3, <1>4, <1>5, <1>6, <1>7, <1>8, <1>9 DEF Next, WorkerStep

\* For every interleaving: a create that began after halt_globally is refused on every shard,
\* however long it was queued, since the approval is asked for when the worker takes it.
THEOREM HaltAuthoritative == Spec => []HaltFinal
<1>1. Init => HaltInv
  BY DEF Init, HaltInv
<1>2. OnceInv /\ HaltInv /\ [Next]_vars => HaltInv'
  BY HaltStep
<1>3. HaltInv => HaltFinal
  BY DEF HaltInv, HaltFinal
<1> QED BY <1>1, <1>2, <1>3, OnceAlways, PTL DEF Spec
-----------------------------------------------------------------------------
(* The log. *)

Trim(st) == IF Calls!is_terminal(st) THEN "new_order" ELSE st

Whole(o) == o = Calls!Order(o.state, o.requested, o.filled)

\* Finished orders leave the book.
BookInv == /\ DOMAIN oms = Refs /\ oms = [r \in Refs |-> oms[r]]
           /\ \A r \in Refs : Whole(oms[r]) /\ ~Calls!is_terminal(oms[r].state)

\* The orders in the completions are whole, whichever call left them there.
ImageInv == \A c \in Callers : Whole(completion[c].order)

LogTyped == log \in [Shards -> Seq(Entries)]

\* The numbers in the logs and the one a worker has claimed are all different.
NumberInv ==
  /\ \A s, t \in Shards : \A i \in DOMAIN log[s], j \in DOMAIN log[t] :
       log[s][i].global_seq = log[t][j].global_seq => s = t /\ i = j
  /\ \A s \in Shards : \A i \in DOMAIN log[s] :
       log[s][i].global_seq \in Nat /\ log[s][i].global_seq < global_seq
  /\ \A s \in Shards : worker[s].pc = "log" =>
       /\ worker[s].seq < global_seq
       /\ \A t \in Shards : \A i \in DOMAIN log[t] : log[t][i].global_seq # worker[s].seq
       /\ \A i \in DOMAIN log[s] : log[s][i].global_seq < worker[s].seq
       /\ \A t \in Shards : worker[t].pc = "log" /\ worker[t].seq = worker[s].seq => s = t

\* The request in the worker's hand has changed the order and is not in the log yet.
Ahead(s, r) == LET c == worker[s].c IN
  /\ worker[s].pc \in {"claim", "log"}
  /\ call[c].ref = r /\ completion[c].ok /\ call[c].kind # "snapshot"

Coming(s) == Says(call[worker[s].c].kind, completion[worker[s].c].order.state)

\* The book agrees with what the log says of an order, and with what the worker is about to add.
HistoryInv ==
  /\ \A s \in Shards : \A i \in DOMAIN log[s] : log[s][i].ref \in Refs /\ ShardOf[log[s][i].ref] = s
  /\ \A r \in Refs : LET s == ShardOf[r] IN
       Len(log[s]) < LogCapacity =>
         oms[r].state \in IF Ahead(s, r) THEN Coming(s) ELSE Told(r)

LogInv == BookInv /\ ImageInv /\ LogTyped /\ NumberInv /\ HistoryInv

LEMMA OrderFields ==
  ASSUME NEW st, NEW v, NEW f
  PROVE  /\ Calls!Order(st, v, f).state = st /\ Calls!Order(st, v, f).requested = v
         /\ Calls!Order(st, v, f).filled = f /\ Whole(Calls!Order(st, v, f))
BY DEF Whole, Calls!Order

LEMMA OrderRecord ==
  ASSUME NEW o, Whole(o)
  PROVE  o \in [state : {o.state}, requested : {o.requested}, filled : {o.filled}]
BY DEF Whole, Calls!Order

LEMMA WithState ==
  ASSUME NEW o, Whole(o), NEW x, NEW n, n = [o EXCEPT !.state = x]
  PROVE  Whole(n) /\ n.state = x
<1>1. n \in [state : {x}, requested : {o.requested}, filled : {o.filled}]
  BY OrderRecord
<1>2. Calls!Order(x, o.requested, o.filled) \in [state : {x}, requested : {o.requested}, filled : {o.filled}]
  BY DEF Calls!Order
<1>3. n = Calls!Order(x, o.requested, o.filled)
  BY <1>1, <1>2
<1> QED BY <1>3, OrderFields

LEMMA WithRequested ==
  ASSUME NEW o, Whole(o), NEW x, NEW n, n = [o EXCEPT !.requested = x]
  PROVE  Whole(n) /\ n.state = o.state
<1>1. n \in [state : {o.state}, requested : {x}, filled : {o.filled}]
  BY OrderRecord
<1>2. Calls!Order(o.state, x, o.filled) \in [state : {o.state}, requested : {x}, filled : {o.filled}]
  BY DEF Calls!Order
<1>3. n = Calls!Order(o.state, x, o.filled)
  BY <1>1, <1>2
<1> QED BY <1>3, OrderFields

LEMMA WithFilled ==
  ASSUME NEW o, Whole(o), NEW x, NEW n, n = [o EXCEPT !.filled = x]
  PROVE  Whole(n) /\ n.state = o.state
<1>1. n \in [state : {o.state}, requested : {o.requested}, filled : {x}]
  BY OrderRecord
<1>2. Calls!Order(o.state, o.requested, x) \in [state : {o.state}, requested : {o.requested}, filled : {x}]
  BY DEF Calls!Order
<1>3. n = Calls!Order(o.state, o.requested, x)
  BY <1>1, <1>2
<1> QED BY <1>3, OrderFields

LEMMA NoOrderFacts ==
  Calls!NoOrder.state = "new_order" /\ Whole(Calls!NoOrder) /\ ~Calls!is_terminal("new_order")
  /\ ~Calls!is_terminal("pending_send") /\ ~Calls!is_terminal("partially_filled")
  /\ \A st \in Restorable : ~Calls!is_terminal(st)
BY OrderFields DEF Calls!NoOrder, Calls!is_terminal, Calls!Terminal, Restorable

LEMMA KeptFacts ==
  ASSUME NEW o, Whole(o)
  PROVE  /\ Whole(Calls!Kept(o)) /\ ~Calls!is_terminal(Calls!Kept(o).state)
         /\ Calls!Kept(o).state = Trim(o.state)
BY NoOrderFacts DEF Calls!Kept, Trim

\* What the entry of a successful call may say, and be true.
LEMMA SaysTrue ==
  ASSUME NEW k, NEW st
  PROVE  /\ k # "fill" => Trim(st) \in Says(k, st)
         /\ "new_order" \in Says("fill", st) /\ "partially_filled" \in Says("fill", "partially_filled")
BY NoOrderFacts DEF Says, Trim

\* What an outcome may be: the order shown to a successful caller tells the state it is left in.
Telling(k, o, e) ==
  /\ Whole(e.order) /\ ~Calls!is_terminal(e.order.state) /\ Whole(e.seen)
  /\ e.ok => e.order.state \in Says(k, e.seen.state)
  /\ ~e.ok => e.order.state = o.state

LEMMA OutcomeTells ==
  ASSUME NEW k, NEW o, NEW n, Whole(n), ~Calls!is_terminal(n.state), NEW ok, NEW seen, Whole(seen),
         ok => n.state \in Says(k, seen.state), ~ok => n.state = o.state
  PROVE  Telling(k, o, Calls!Outcome(n, ok, seen))
BY DEF Telling, Calls!Outcome

LEMMA TransitionTells ==
  ASSUME NEW o, Whole(o), ~Calls!is_terminal(o.state), NEW to, NEW was, Whole(was)
  PROVE  Telling("transition", o, Calls!Transition(o, to, was))
<1> DEFINE n == [o EXCEPT !.state = to]
           left == [was EXCEPT !.state = to]
           seen == IF Calls!is_terminal(to) THEN left ELSE n
<1>1. Whole(n) /\ n.state = to /\ Whole(left) /\ left.state = to
  <2>1. n = [o EXCEPT !.state = to] /\ left = [was EXCEPT !.state = to]
    OBVIOUS
  <2> HIDE DEF n, left
  <2> QED BY <2>1, WithState
<1>2. Whole(Calls!Kept(n)) /\ ~Calls!is_terminal(Calls!Kept(n).state) /\ Calls!Kept(n).state = Trim(to)
  BY <1>1, KeptFacts
<1>3. seen.state = to /\ Whole(seen)
  BY <1>1
<1>4. Calls!Transition(o, to, was) = IF o = Calls!NoOrder \/ ~Calls!legal(o.state, to) THEN Calls!Unchanged(o, was)
                                     ELSE Calls!Outcome(Calls!Kept(n), TRUE, seen)
  BY DEF Calls!Transition
<1> HIDE DEF n, left, seen
<1>5. Telling("transition", o, Calls!Outcome(Calls!Kept(n), TRUE, seen))
  BY <1>2, <1>3, SaysTrue, OutcomeTells
<1>6. Telling("transition", o, Calls!Unchanged(o, was))
  BY OutcomeTells DEF Calls!Unchanged
<1> QED BY <1>4, <1>5, <1>6

LEMMA FillTells ==
  ASSUME NEW o, Whole(o), ~Calls!is_terminal(o.state), NEW v, NEW was, Whole(was)
  PROVE  Telling("fill", o, Calls!Fill(o, v, was))
<1> DEFINE n == Calls!Filled(o, v)
           to == Calls!FillTarget(n)
           t == [n EXCEPT !.state = to]
           seen == IF Calls!is_terminal(t.state) THEN was ELSE t
<1>1. Whole(n) /\ n.state = o.state
  <2>1. n = [o EXCEPT !.filled = o.filled + v]
    BY DEF Calls!Filled
  <2> HIDE DEF n
  <2> QED BY <2>1, WithFilled
<1>2. Calls!Fill(o, v, was) = IF ~Calls!Fillable(o, v) THEN Calls!Unchanged(o, was)
                              ELSE IF ~Calls!legal(o.state, to) THEN Calls!Unchanged(n, was)
                              ELSE Calls!Outcome(Calls!Kept(t), TRUE, seen)
  BY DEF Calls!Fill
<1>3. to \in {"filled", "partially_filled"}
  BY DEF Calls!FillTarget
<1> HIDE DEF n, to
<1>4. Whole(t) /\ t.state = to
  <2>1. t = [n EXCEPT !.state = to]
    OBVIOUS
  <2> HIDE DEF t
  <2> QED BY <1>1, <2>1, WithState
<1> HIDE DEF t
<1>5. Whole(Calls!Kept(t)) /\ ~Calls!is_terminal(Calls!Kept(t).state) /\ Calls!Kept(t).state = Trim(to)
  BY <1>4, KeptFacts
<1>6. Whole(seen) /\ Trim(to) \in Says("fill", seen.state)
  <2>1. CASE Calls!is_terminal(to)
    BY <1>4, <2>1, SaysTrue DEF Trim
  <2>2. CASE ~Calls!is_terminal(to)
    <3>1. to = "partially_filled"
      BY <1>3, <2>2 DEF Calls!is_terminal, Calls!Terminal
    <3> QED BY <1>4, <2>2, <3>1, SaysTrue DEF Trim
  <2> QED BY <2>1, <2>2
<1> HIDE DEF seen
<1>7. Telling("fill", o, Calls!Outcome(Calls!Kept(t), TRUE, seen))
  BY <1>5, <1>6, OutcomeTells
<1>8. Telling("fill", o, Calls!Unchanged(o, was)) /\ Telling("fill", o, Calls!Unchanged(n, was))
  BY <1>1, OutcomeTells DEF Calls!Unchanged
<1> QED BY <1>2, <1>7, <1>8

LEMMA EffectTells ==
  ASSUME NEW b, NEW q \in Requests, q.kind # "snapshot", NEW approved, NEW o, o = b[q.ref],
         Whole(o), ~Calls!is_terminal(o.state), NEW was, Whole(was)
  PROVE  Telling(q.kind, o, Calls!Effect(b, q, approved, was))
<1>1. Telling(q.kind, o, Calls!Unchanged(o, was))
  BY OutcomeTells DEF Calls!Unchanged
<1>2. ASSUME NEW n, Whole(n), ~Calls!is_terminal(n.state), q.kind # "fill"
      PROVE  Telling(q.kind, o, Calls!Outcome(n, TRUE, n))
  <2>1. n.state \in Says(q.kind, n.state)
    BY <1>2, SaysTrue DEF Trim
  <2> QED BY <1>2, <2>1, OutcomeTells
<1>3. ASSUME NEW n, Whole(n), ~Calls!is_terminal(n.state), q.kind # "fill"
      PROVE  Telling(q.kind, o, Calls!Insert(b, q.ref, n, was))
  BY <1>1, <1>2, <1>3 DEF Calls!Insert
<1>6. ASSUME NEW v, q.kind # "fill" PROVE Telling(q.kind, o, Calls!Replace(o, v, was))
  <2> DEFINE n == [o EXCEPT !.requested = v]
  <2>1. Whole(n) /\ n.state = o.state
    <3>1. n = [o EXCEPT !.requested = v]
      OBVIOUS
    <3> HIDE DEF n
    <3> QED BY <3>1, WithRequested
  <2>2. Calls!Replace(o, v, was) = IF o.state \in {"new_order", "unknown"} \/ v <= o.filled
                                   THEN Calls!Unchanged(o, was) ELSE Calls!Outcome(n, TRUE, n)
    BY DEF Calls!Replace
  <2> HIDE DEF n
  <2>3. Telling(q.kind, o, Calls!Outcome(n, TRUE, n))
    BY <1>2, <1>6, <2>1
  <2> QED BY <1>1, <2>2, <2>3
<1>9. q.kind \in Kinds \ {"snapshot"}
  BY RequestFacts
<1>10. CASE q.kind = "create"
  <2>1. Calls!Effect(b, q, approved, was) =
          IF approved THEN Calls!Insert(b, q.ref, Calls!Order("pending_send", q.volume, 0), was)
          ELSE Calls!Unchanged(o, was)
    BY <1>10 DEF Calls!Effect
  <2>2. PICK n : n = Calls!Order("pending_send", q.volume, 0)
    OBVIOUS
  <2>3. Whole(n) /\ ~Calls!is_terminal(n.state)
    BY <2>2, OrderFields, NoOrderFacts
  <2> QED BY <1>1, <1>3, <1>10, <2>1, <2>2, <2>3
<1>11. CASE q.kind = "restore"
  <2>1. Calls!Effect(b, q, approved, was) = Calls!Restore(b, q, was)
    BY <1>11 DEF Calls!Effect
  <2>2. PICK n : n = Calls!Order(q.target, q.volume, q.filled)
    OBVIOUS
  <2>3. q.target \in Restorable
    BY <1>11, ShardedAssumption
  <2>4. Whole(n) /\ ~Calls!is_terminal(n.state)
    BY <2>2, <2>3, OrderFields, NoOrderFacts
  <2>5. Telling(q.kind, o, Calls!Insert(b, q.ref, n, was))
    BY <1>3, <1>11, <2>4
  <2> QED BY <1>1, <2>1, <2>2, <2>5 DEF Calls!Restore
<1>12. CASE q.kind = "find"
  <2>1. Calls!Effect(b, q, approved, was) =
          Calls!Outcome(o, o # Calls!NoOrder, IF o = Calls!NoOrder THEN was ELSE o)
    BY <1>12 DEF Calls!Effect
  <2>2. o.state \in Says(q.kind, o.state)
    BY <1>12, SaysTrue DEF Trim
  <2>3. CASE o = Calls!NoOrder
    BY <2>1, <2>3, OutcomeTells
  <2>4. CASE o # Calls!NoOrder
    BY <2>1, <2>2, <2>4, OutcomeTells
  <2> QED BY <2>3, <2>4
<1>13. CASE q.kind = "transition"
  <2>1. Calls!Effect(b, q, approved, was) = Calls!Transition(o, q.target, was)
    BY <1>13 DEF Calls!Effect
  <2> QED BY <1>13, <2>1, TransitionTells
<1>14. CASE q.kind = "fill"
  <2>1. Calls!Effect(b, q, approved, was) = Calls!Fill(o, q.volume, was)
    BY <1>14 DEF Calls!Effect
  <2> QED BY <1>14, <2>1, FillTells
<1>15. CASE q.kind = "replace"
  <2>1. Calls!Effect(b, q, approved, was) = Calls!Replace(o, q.volume, was)
    BY <1>15 DEF Calls!Effect
  <2> QED BY <1>6, <1>15, <2>1
<1> QED BY <1>9, <1>10, <1>11, <1>12, <1>13, <1>14, <1>15 DEF Kinds

LEMMA ShardKnown ==
  ASSUME NEW r \in Refs
  PROVE  ShardOf[r] \in Shards
BY DEF Shards

\* The newest entry is the one that counts.
LEMMA NewestCounts ==
  ASSUME NEW es, NEW e, e.global_seq \in Nat,
         \A x \in es : x.global_seq \in Nat /\ x.global_seq < e.global_seq
  PROVE  LastEntry(es \cup {e}) = e
<1> DEFINE all == es \cup {e}
           Newest(x) == x \in all /\ \A y \in all : y.global_seq <= x.global_seq
           x == CHOOSE x \in all : \A y \in all : y.global_seq <= x.global_seq
<1>1. Newest(e)
  OBVIOUS
<1>2. x \in all /\ \A y \in all : y.global_seq <= x.global_seq
  BY <1>1
<1>3. x = e
  <2> HIDE DEF x
  <2> QED BY <1>2
<1> QED BY <1>3 DEF LastEntry

LEMMA ToldKept ==
  ASSUME NEW r, About(r)' = About(r)
  PROVE  Told(r)' = Told(r)
BY DEF Told

LEMMA AboutKept ==
  ASSUME NEW r, Entries' = Entries
  PROVE  About(r)' = About(r)
BY DEF About

LEMMA EntriesKept ==
  ASSUME log' = log
  PROVE  Entries' = Entries
BY DEF Entries

\* What the invariant says of one order.
History(r) == LET s == ShardOf[r] IN
  Len(log[s]) < LogCapacity =>
    oms[r].state \in IF Ahead(s, r) THEN Coming(s) ELSE Told(r)

\* An order whose shard's log, state and request in hand stay as they are.
LEMMA HistoryKept ==
  ASSUME NEW r \in Refs, NEW s, s = ShardOf[r], History(r),
         Len(log'[s]) < LogCapacity => Len(log[s]) < LogCapacity /\ About(r)' = About(r),
         oms'[r].state = oms[r].state, Ahead(s, r)' <=> Ahead(s, r),
         Ahead(s, r) => Coming(s)' = Coming(s)
  PROVE  History(r)'
<1>1. Len(log'[s]) < LogCapacity => Told(r)' = Told(r)
  BY ToldKept
<1>2. Len(log'[s]) < LogCapacity => oms'[r].state \in IF Ahead(s, r) THEN Coming(s)' ELSE Told(r)'
  BY <1>1 DEF History
<1> QED BY <1>2 DEF History

LEMMA BookKept ==
  ASSUME BookInv, oms' = oms
  PROVE  BookInv'
BY DEF BookInv

\* A step that writes one completion, if any, with a whole order.
LEMMA ImageKept ==
  ASSUME ImageInv, NEW c, \A d \in Callers : d # c => completion'[d].order = completion[d].order,
         c \in Callers => Whole(completion'[c].order)
  PROVE  ImageInv'
BY DEF ImageInv

LEMMA LogTypedKept ==
  ASSUME LogTyped, log' = log
  PROVE  LogTyped'
BY EntriesKept DEF LogTyped

\* Steps that leave the books, the logs and the requests past their mutation alone.
Past(s) == worker[s].pc \in {"claim", "log"}
LEMMA QuietStep ==
  ASSUME LogInv, ImageInv', UNCHANGED <<oms, log, global_seq>>,
         \A s \in Shards : /\ Past(s)' => Past(s)
                           /\ Past(s) => /\ worker'[s] = worker[s] /\ call'[worker[s].c] = call[worker[s].c]
                                         /\ completion'[worker[s].c] = completion[worker[s].c]
  PROVE  LogInv'
<1>1. BookInv /\ LogTyped /\ NumberInv /\ HistoryInv
  BY DEF LogInv
<1>2. BookInv' /\ LogTyped'
  BY <1>1, BookKept, LogTypedKept
<1>3. NumberInv'
  <2>1. \A s \in Shards : worker'[s].pc = "log" => worker'[s] = worker[s]
    BY DEF Past
  <2> QED BY <1>1, <2>1 DEF NumberInv
<1>4. ASSUME NEW r \in Refs PROVE History(r)'
  <2>1. PICK s \in Shards : s = ShardOf[r]
    BY ShardKnown
  <2>2. /\ Ahead(s, r)' <=> Ahead(s, r)
        /\ Ahead(s, r) => Coming(s)' = Coming(s)
    <3>1. CASE Past(s)
      <4>1. /\ worker'[s] = worker[s] /\ call'[worker[s].c] = call[worker[s].c]
            /\ completion'[worker[s].c] = completion[worker[s].c]
        BY <3>1
      <4> QED BY <4>1 DEF Ahead, Coming
    <3>2. CASE ~Past(s)
      BY <3>2 DEF Ahead, Past
    <3> QED BY <3>1, <3>2
  <2>3. History(r)
    BY <1>1 DEF HistoryInv, History
  <2>4. About(r)' = About(r)
    BY AboutKept, EntriesKept
  <2>5. oms'[r].state = oms[r].state /\ (Len(log'[s]) < LogCapacity => Len(log[s]) < LogCapacity)
    OBVIOUS
  <2> QED BY <2>1, <2>2, <2>3, <2>4, <2>5, HistoryKept
<1>5. HistoryInv'
  BY <1>1, <1>4 DEF HistoryInv, History
<1> QED BY <1>2, <1>3, <1>5 DEF LogInv

\* Two workers never hold the same request.
LEMMA HandsDiffer ==
  ASSUME OnceInv, NEW s \in Shards, NEW t \in Shards, s # t,
         worker[s].pc \in {"apply", "mutate", "claim", "log"}, Past(t)
  PROVE  worker[t].c \in Callers /\ worker[t].c # worker[s].c
BY DEF OnceInv, HandInv, Past

LEMMA ClaimLog ==
  ASSUME OnceInv, LogInv, NEW s \in Shards, claim_seq(s)
  PROVE  LogInv'
<1>1. BookInv /\ LogTyped /\ NumberInv /\ HistoryInv /\ Types /\ worker[s] \in WorkerT /\ worker[s].pc = "claim"
  BY TypeFacts DEF LogInv, OnceInv, claim_seq
<1> DEFINE y == [worker[s] EXCEPT !.pc = "log", !.seq = global_seq]
<1>2. UNCHANGED <<oms, call, completion, log>> /\ global_seq' = global_seq + 1 /\ Moves(s, y)
  BY DEF claim_seq, NextSeq
<1>3. y \in WorkerT /\ y.pc = "log" /\ y.seq = global_seq /\ y.c = worker[s].c /\ global_seq \in Nat
  BY <1>1 DEF WorkerT, WorkerPcs, Types
<1> HIDE DEF y
<1>4. worker'[s] = y /\ \A t \in Shards : t # s => worker'[t] = worker[t]
  BY <1>1, <1>2, <1>3, WorkerAt
<1>5. BookInv' /\ LogTyped' /\ ImageInv'
  BY <1>1, <1>2, BookKept, LogTypedKept DEF LogInv, ImageInv
<1>6. NumberInv'
  <2>1. \A t \in Shards : worker[t].seq \in Nat
    BY <1>1, TypeFacts DEF WorkerT
  <2>2. \A t \in Shards : \A i \in DOMAIN log[t] :
          /\ log[t][i].global_seq \in Nat /\ log[t][i].global_seq < global_seq
          /\ log[t][i].global_seq < global_seq + 1 /\ log[t][i].global_seq # global_seq
    BY <1>1, <1>3 DEF NumberInv
  <2>3. \A t \in Shards : worker[t].pc = "log" =>
          worker[t].seq < global_seq /\ worker[t].seq < global_seq + 1 /\ worker[t].seq # global_seq
    BY <1>1, <1>3, <2>1 DEF NumberInv
  <2>4. ASSUME NEW t \in Shards, worker'[t].pc = "log"
        PROVE  /\ worker'[t].seq < global_seq + 1
               /\ \A u \in Shards : \A i \in DOMAIN log[u] : log[u][i].global_seq # worker'[t].seq
               /\ \A i \in DOMAIN log[t] : log[t][i].global_seq < worker'[t].seq
               /\ \A u \in Shards : worker'[u].pc = "log" /\ worker'[u].seq = worker'[t].seq => t = u
    <3>1. CASE t = s
      <4>1. worker'[t].seq = global_seq /\ global_seq < global_seq + 1
        BY <1>3, <1>4, <3>1
      <4>2. \A u \in Shards : worker'[u].pc = "log" /\ worker'[u].seq = global_seq => t = u
        BY <1>4, <2>3, <3>1
      <4> QED BY <2>2, <4>1, <4>2
    <3>2. CASE t # s
      <4>1. worker'[t] = worker[t] /\ worker[t].pc = "log"
        BY <1>4, <2>4, <3>2
      <4>2. \A u \in Shards : worker'[u].pc = "log" /\ worker'[u].seq = worker[t].seq => t = u
        BY <1>1, <1>3, <1>4, <2>3, <4>1 DEF NumberInv
      <4> QED BY <1>1, <2>3, <4>1, <4>2 DEF NumberInv
    <3> QED BY <3>1, <3>2
  <2>5. \A t, u \in Shards : \A i \in DOMAIN log[t], j \in DOMAIN log[u] :
          log[t][i].global_seq = log[u][j].global_seq => t = u /\ i = j
    BY <1>1 DEF NumberInv
  <2> QED BY <1>2, <2>2, <2>4, <2>5 DEF NumberInv
<1>7. ASSUME NEW r \in Refs PROVE History(r)'
  <2>1. PICK t \in Shards : t = ShardOf[r]
    BY ShardKnown
  <2>2. worker'[t].c = worker[t].c /\ (worker'[t].pc \in {"claim", "log"} <=> worker[t].pc \in {"claim", "log"})
    BY <1>1, <1>3, <1>4
  <2>3. /\ Ahead(t, r)' <=> Ahead(t, r)
        /\ Coming(t)' = Coming(t)
    BY <1>2, <2>2 DEF Ahead, Coming
  <2>4. History(r) /\ About(r)' = About(r)
    BY <1>1, <1>2, AboutKept, EntriesKept DEF HistoryInv, History
  <2>5. oms'[r].state = oms[r].state /\ (Len(log'[t]) < LogCapacity => Len(log[t]) < LogCapacity)
    BY <1>2
  <2> QED BY <2>1, <2>3, <2>4, <2>5, HistoryKept
<1>8. HistoryInv'
  BY <1>1, <1>2, <1>7 DEF HistoryInv, History
<1> QED BY <1>5, <1>6, <1>8 DEF LogInv

LEMMA ApplyLog ==
  ASSUME OnceInv, LogInv, NEW s \in Shards, apply(s)
  PROVE  LogInv'
<1> DEFINE w == worker[s]
           y == [w EXCEPT !.pc = "claim", !.approved = FALSE]
<1>1. Types /\ CallInv /\ w \in WorkerT /\ w.pc \in {"apply", "mutate"} /\ HandInv(s)
      /\ BookInv /\ ImageInv /\ LogTyped /\ NumberInv /\ HistoryInv
  BY TypeFacts DEF LogInv, OnceInv, apply
<1>2. PICK c \in Callers : c = w.c
  BY <1>1 DEF HandInv
<1>3. PICK q \in Requests : q = call[c]
  <2>1. stage[c] # "idle"
    BY <1>1, <1>2 DEF HandInv
  <2> QED BY <1>1, <2>1, TargetKnown
<1>4. ShardOf[q.ref] = s /\ q.ref \in Refs
  BY <1>1, <1>2, <1>3, RequestFacts DEF HandInv, Target
<1>5. PICK ap : ap = w.approved
  OBVIOUS
<1> DEFINE was == Held(completion[c])
           a == Calls!Reply(oms, q, ap, was)
           ef == Calls!Effect(oms, q, ap, was.order)
<1>6. y \in WorkerT /\ y.pc = "claim" /\ y.c = c
  BY <1>1, <1>2 DEF WorkerT, WorkerPcs
<1>7. /\ oms' = Calls!NewBook(oms, q, ap, was)
      /\ completion' = [completion EXCEPT ![c] = Completion(FALSE, a)] /\ Moves(s, y)
      /\ UNCHANGED <<call, stage, global_seq, log>>
  BY <1>2, <1>3, <1>5 DEF apply
<1>8. Entire(a) /\ was.order = completion[c].order /\ Whole(was.order)
  BY <1>1, ReplyGiven DEF Held, ImageInv
<1>9. \/ q.kind = "snapshot" /\ oms' = oms /\ a.order = was.order
      \/ /\ q.kind # "snapshot" /\ Telling(q.kind, oms[q.ref], ef) /\ a.ok = ef.ok /\ a.order = ef.seen
         /\ oms' = [oms EXCEPT ![q.ref] = ef.order]
  <2>1. CASE q.kind = "snapshot"
    BY <1>7, <2>1 DEF Calls!NewBook, Calls!Reply, Calls!Answer
  <2>2. CASE q.kind # "snapshot"
    <3>1. Whole(oms[q.ref]) /\ ~Calls!is_terminal(oms[q.ref].state)
      BY <1>1, <1>4 DEF BookInv
    <3>2. Telling(q.kind, oms[q.ref], ef)
      BY <1>8, <2>2, <3>1, EffectTells
    <3>3. a.ok = ef.ok /\ a.order = ef.seen /\ oms' = [oms EXCEPT ![q.ref] = ef.order]
      BY <1>7, <2>2 DEF Calls!Reply, Calls!Answer, Calls!NewBook
    <3> QED BY <2>2, <3>2, <3>3
  <2> QED BY <2>1, <2>2
<1> HIDE DEF a, y, ef, was
<1>10. worker'[s] = y /\ \A t \in Shards : t # s => worker'[t] = worker[t]
  BY <1>1, <1>6, <1>7, WorkerAt
<1>11. completion'[c] = Completion(FALSE, a) /\ Others(c)
  BY <1>1, <1>7, <1>8, CompletionWrite DEF Others
<1>i. ImageInv'
  <2>1. Whole(completion'[c].order)
    BY <1>8, <1>9, <1>11 DEF Telling, Completion
  <2> QED BY <1>1, <1>11, <2>1, ImageKept DEF Others
<1>12. BookInv'
  <2>1. CASE oms' = oms
    BY <1>1, <2>1, BookKept
  <2>2. CASE Telling(q.kind, oms[q.ref], ef) /\ oms' = [oms EXCEPT ![q.ref] = ef.order]
    <3>1. Whole(ef.order) /\ ~Calls!is_terminal(ef.order.state)
      BY <2>2 DEF Telling
    <3>2. DOMAIN oms = Refs
      BY <1>1 DEF BookInv
    <3>3. /\ DOMAIN oms' = Refs /\ oms' = [r \in Refs |-> oms'[r]]
          /\ \A r \in Refs : oms'[r] = IF r = q.ref THEN ef.order ELSE oms[r]
      BY <2>2, <3>2, <1>4
    <3> QED BY <1>1, <3>1, <3>3 DEF BookInv
  <2> QED BY <1>9, <2>1, <2>2
<1>13. LogTyped'
  BY <1>1, <1>7, LogTypedKept
<1>14. NumberInv'
  <2>1. \A t \in Shards : worker'[t].pc = "log" => worker'[t] = worker[t]
    BY <1>6, <1>10
  <2> QED BY <1>1, <1>7, <2>1 DEF NumberInv
<1>15. ASSUME NEW r \in Refs PROVE History(r)'
  <2>1. History(r) /\ About(r)' = About(r)
    BY <1>1, <1>7, AboutKept, EntriesKept DEF HistoryInv, History
  <2>2. CASE ShardOf[r] # s
    <3>1. PICK t \in Shards : t = ShardOf[r]
      BY ShardKnown
    <3>2. t # s /\ worker'[t] = worker[t]
      BY <1>10, <2>2, <3>1
    <3>3. oms'[r].state = oms[r].state
      <4>1. r # q.ref
        BY <1>4, <2>2
      <4>2. oms'[r] = oms[r]
        BY <1>1, <1>9, <4>1 DEF BookInv
      <4> QED BY <4>2
    <3>4. Past(t) => /\ call'[worker[t].c] = call[worker[t].c]
                     /\ completion'[worker[t].c] = completion[worker[t].c]
      <4>1. Past(t) => worker[t].c \in Callers /\ worker[t].c # worker[s].c
        BY <1>1, <3>2, HandsDiffer
      <4> QED BY <1>2, <1>11, <4>1 DEF Others
    <3>5. /\ Ahead(t, r)' <=> Ahead(t, r)
          /\ Ahead(t, r) => Coming(t)' = Coming(t)
      <4>1. CASE Past(t)
        BY <3>2, <3>4, <4>1 DEF Ahead, Coming
      <4>2. CASE ~Past(t)
        BY <3>2, <4>2 DEF Ahead, Past
      <4> QED BY <4>1, <4>2
    <3>6. Len(log'[t]) < LogCapacity => Len(log[t]) < LogCapacity
      BY <1>7
    <3> QED BY <2>1, <3>1, <3>3, <3>5, <3>6, HistoryKept
  <2>3. CASE ShardOf[r] = s
    <3>1. ~Ahead(s, r)
      BY <1>1 DEF Ahead
    <3>2. Len(log[s]) < LogCapacity => oms[r].state \in Told(r)
      BY <2>1, <2>3, <3>1 DEF History
    <3>3. Told(r)' = Told(r) /\ log'[s] = log[s]
      BY <1>7, <2>1, ToldKept
    <3>4. Ahead(s, r)' <=> q.ref = r /\ a.ok /\ q.kind # "snapshot"
      <4>1. worker'[s].pc = "claim" /\ worker'[s].c = c
        BY <1>6, <1>10
      <4>2. completion'[c].ok = a.ok /\ call'[c] = q
        BY <1>3, <1>7, <1>11 DEF Completion
      <4> QED BY <4>1, <4>2 DEF Ahead
    <3>5. CASE q.ref = r /\ a.ok /\ q.kind # "snapshot"
      <4>1. Telling(q.kind, oms[r], ef) /\ ef.ok /\ a.order = ef.seen /\ oms' = [oms EXCEPT ![r] = ef.order]
        BY <1>9, <3>5
      <4>2. oms'[r].state \in Says(q.kind, ef.seen.state)
        BY <1>1, <4>1 DEF BookInv, Telling
      <4>3. Coming(s)' = Says(q.kind, ef.seen.state)
        <5>1. completion'[c].order = ef.seen /\ call'[c] = q /\ worker'[s].c = c
          BY <1>3, <1>6, <1>7, <1>10, <1>11, <4>1 DEF Completion
        <5> QED BY <5>1 DEF Coming
      <4> QED BY <2>3, <3>4, <3>5, <4>2, <4>3 DEF History
    <3>6. CASE ~(q.ref = r /\ a.ok /\ q.kind # "snapshot")
      <4>1. oms'[r].state = oms[r].state
        <5>1. CASE q.ref # r
          BY <1>1, <1>9, <5>1 DEF BookInv
        <5>2. CASE q.ref = r /\ q.kind # "snapshot" /\ ~a.ok
          <6>1. Telling(q.kind, oms[r], ef) /\ ~ef.ok /\ oms' = [oms EXCEPT ![r] = ef.order]
            BY <1>9, <5>2
          <6> QED BY <1>1, <6>1 DEF BookInv, Telling
        <5>3. CASE q.kind = "snapshot"
          BY <1>9, <5>3
        <5> QED BY <3>6, <5>1, <5>2, <5>3
      <4> QED BY <2>3, <3>2, <3>3, <3>4, <3>6, <4>1 DEF History
    <3> QED BY <3>5, <3>6
  <2> QED BY <2>2, <2>3
<1>16. HistoryInv'
  BY <1>1, <1>7, <1>15 DEF HistoryInv, History
<1> QED BY <1>12, <1>13, <1>14, <1>16, <1>i DEF LogInv

\* What the entry that complete writes looks like.
LEMMA EntryFields ==
  ASSUME NEW seq, NEW q, NEW a
  PROVE  /\ LogEntry(seq, q, a).global_seq = seq /\ LogEntry(seq, q, a).ref = q.ref
         /\ LogEntry(seq, q, a).kind = q.kind /\ LogEntry(seq, q, a).ok = a.ok
         /\ LogEntry(seq, q, a).state = a.order.state
BY DEF LogEntry

\* One more entry in one log.
Appended(s, e) ==
  /\ \A t \in Shards : t # s => log'[t] = log[t]
  /\ DOMAIN log' = Shards /\ log' = [t \in Shards |-> log'[t]]
  /\ Len(log[s]) \in Nat /\ DOMAIN log[s] = 1 .. Len(log[s])
  /\ DOMAIN log'[s] = 1 .. Len(log[s]) + 1 /\ Len(log'[s]) = Len(log[s]) + 1
  /\ \A i \in DOMAIN log[s] : log'[s][i] = log[s][i]
  /\ log'[s][Len(log[s]) + 1] = e

LEMMA AppendedEntries ==
  ASSUME LogTyped, NEW s \in Shards, NEW e, log' = [log EXCEPT ![s] = Append(@, e)]
  PROVE  Appended(s, e) /\ LogTyped' /\ Entries' = Entries \cup {e}
<1>1. log \in [Shards -> Seq(Entries)] /\ log[s] \in Seq(Entries)
  BY DEF LogTyped
<1>2. DOMAIN log' = Shards /\ log' = [t \in Shards |-> log'[t]] /\ log'[s] = Append(log[s], e)
      /\ \A t \in Shards : t # s => log'[t] = log[t]
  BY <1>1
<1>3. Appended(s, e)
  <2>1. log[s] \in Seq(Entries \cup {e}) /\ e \in Entries \cup {e}
    BY <1>1
  <2> QED BY <1>2, <2>1, AppendProperties DEF Appended
<1>4. Entries' = Entries \cup {e}
  <2>1. ASSUME NEW x \in Entries PROVE x \in Entries'
    <3>1. PICK t \in Shards : \E i \in DOMAIN log[t] : x = log[t][i]
      BY DEF Entries
    <3>2. PICK i \in DOMAIN log[t] : x = log[t][i]
      BY <3>1
    <3>3. i \in DOMAIN log'[t] /\ x = log'[t][i]
      BY <1>3, <3>2 DEF Appended
    <3> QED BY <3>3 DEF Entries
  <2>2. e \in Entries'
    <3>1. Len(log[s]) + 1 \in DOMAIN log'[s] /\ log'[s][Len(log[s]) + 1] = e
      BY <1>3 DEF Appended
    <3> QED BY <3>1 DEF Entries
  <2>3. ASSUME NEW x \in Entries', x # e PROVE x \in Entries
    <3>1. PICK t \in Shards : \E i \in DOMAIN log'[t] : x = log'[t][i]
      BY DEF Entries
    <3>2. PICK i \in DOMAIN log'[t] : x = log'[t][i]
      BY <3>1
    <3>3. i \in DOMAIN log[t] /\ x = log[t][i]
      BY <1>3, <2>3, <3>2 DEF Appended
    <3> QED BY <3>3 DEF Entries
  <2> QED BY <2>1, <2>2, <2>3
<1>5. LogTyped'
  <2> DEFINE E == Entries \cup {e}
  <2>1. \A t \in Shards : log[t] \in Seq(E)
    BY <1>1
  <2>2. log'[s] \in Seq(E)
    BY <1>2, <2>1, AppendProperties
  <2>3. \A t \in Shards : log'[t] \in Seq(E)
    BY <1>2, <2>1, <2>2
  <2> HIDE DEF E
  <2>4. log' \in [Shards -> Seq(E)]
    BY <1>2, <2>3
  <2> QED BY <1>4, <2>4 DEF LogTyped, E
<1> QED BY <1>3, <1>4, <1>5

LEMMA CompleteLog ==
  ASSUME OnceInv, LogInv, NEW s \in Shards, complete(s)
  PROVE  LogInv'
<1> DEFINE w == worker[s]
           y == [AfterRing(w, TRUE) EXCEPT !.c = NoCaller, !.seq = 0]
<1>1. Types /\ CallInv /\ w \in WorkerT /\ w.pc = "log" /\ HandInv(s)
      /\ BookInv /\ ImageInv /\ LogTyped /\ NumberInv /\ HistoryInv
  BY TypeFacts DEF LogInv, OnceInv, complete
<1>2. PICK c \in Callers : c = w.c
  BY <1>1 DEF HandInv
<1>3. PICK q \in Requests : q = call[c]
  <2>1. stage[c] # "idle"
    BY <1>1, <1>2 DEF HandInv
  <2> QED BY <1>1, <2>1, TargetKnown
<1>4. ShardOf[q.ref] = s /\ q.ref \in Refs
  BY <1>1, <1>2, <1>3, RequestFacts DEF HandInv, Target
<1>5. PICK n \in Nat : n = w.seq
  BY <1>1 DEF WorkerT
<1>6. PICK a : a = completion[c]
  OBVIOUS
<1> DEFINE e == LogEntry(n, q, a)
<1>7. y.pc \in {"top", "scan", "ended"} /\ y \in WorkerT
  <2>1. AfterRing(w, TRUE) \in WorkerT /\ AfterRing(w, TRUE).pc \in {"top", "scan", "ended"}
    BY <1>1, AfterRingTyped
  <2> QED BY <2>1 DEF WorkerT
<1>8. /\ log' = [log EXCEPT ![s] = Logged(@, e)] /\ Moves(s, y)
      /\ completion' = [completion EXCEPT ![c].done = TRUE]
      /\ UNCHANGED <<oms, call, stage, global_seq>>
  BY <1>2, <1>3, <1>5, <1>6 DEF complete
<1>9. e.global_seq = n /\ e.ref = q.ref /\ e.kind = q.kind /\ e.ok = a.ok /\ e.state = a.order.state
  BY EntryFields
<1> HIDE DEF y, e
<1>10. worker'[s] = y /\ \A t \in Shards : t # s => worker'[t] = worker[t]
  BY <1>1, <1>7, <1>8, WorkerAt
<1>11. Others(c)
  <2>1. DOMAIN completion = Callers
    BY <1>1 DEF Types
  <2> QED BY <1>8, <2>1 DEF Others
<1>12. BookInv' /\ ImageInv'
  <2>1. completion[c] = Completion(completion[c].done, Given(c)) /\ DOMAIN completion = Callers
    BY <1>1 DEF Types
  <2>2. completion'[c] = Completion(TRUE, Given(c))
    <3>1. [completion[c] EXCEPT !.done = TRUE] = Completion(TRUE, Given(c))
      BY <2>1, CompletionDone
    <3> QED BY <1>8, <2>1, <3>1
  <2>3. completion'[c].order = completion[c].order
    <3>1. PICK g : g = Given(c)
      OBVIOUS
    <3>2. completion'[c].order = g.order
      BY <2>2, <3>1 DEF Completion
    <3> QED BY <3>1, <3>2 DEF Given, Held
  <2>4. Whole(completion'[c].order)
    BY <1>1, <2>3 DEF ImageInv
  <2> QED BY <1>1, <1>8, <1>11, <2>4, BookKept, ImageKept DEF Others
<1>13. \/ ~(Len(log[s]) < LogCapacity) /\ log' = log
       \/ Len(log[s]) < LogCapacity /\ log' = [log EXCEPT ![s] = Append(@, e)]
  <2>1. log = [t \in Shards |-> log[t]]
    BY <1>1 DEF LogTyped
  <2> QED BY <1>8, <2>1 DEF Logged
<1>14. log' = log \/ (Appended(s, e) /\ LogTyped' /\ Entries' = Entries \cup {e})
  BY <1>1, <1>13, AppendedEntries
<1>15. LogTyped'
  BY <1>1, <1>14, LogTypedKept
<1>16. NumberInv'
  <2>1. \A t \in Shards : worker'[t].pc = "log" => worker'[t] = worker[t] /\ t # s
    BY <1>7, <1>10
  <2>2. CASE log' = log
    BY <1>1, <1>8, <2>1, <2>2 DEF NumberInv
  <2>3. CASE Appended(s, e)
    <3>1. /\ n < global_seq
          /\ \A t \in Shards : \A i \in DOMAIN log[t] : log[t][i].global_seq # n
          /\ \A t \in Shards : worker[t].pc = "log" /\ worker[t].seq = n => s = t
      BY <1>1, <1>5 DEF NumberInv
    <3>2. ASSUME NEW t \in Shards, NEW i \in DOMAIN log'[t]
          PROVE  \/ i \in DOMAIN log[t] /\ log'[t][i] = log[t][i]
                 \/ t = s /\ i = Len(log[s]) + 1 /\ log'[t][i] = e
      BY <2>3 DEF Appended
    <3>3. \A t, u \in Shards : \A i \in DOMAIN log'[t], j \in DOMAIN log'[u] :
            log'[t][i].global_seq = log'[u][j].global_seq => t = u /\ i = j
      <4> SUFFICES ASSUME NEW t \in Shards, NEW u \in Shards, NEW i \in DOMAIN log'[t], NEW j \in DOMAIN log'[u],
                          log'[t][i].global_seq = log'[u][j].global_seq
                   PROVE  t = u /\ i = j
        OBVIOUS
      <4>1. \/ i \in DOMAIN log[t] /\ log'[t][i] = log[t][i]
            \/ t = s /\ i = Len(log[s]) + 1 /\ log'[t][i] = e
        BY <3>2
      <4>2. \/ j \in DOMAIN log[u] /\ log'[u][j] = log[u][j]
            \/ u = s /\ j = Len(log[s]) + 1 /\ log'[u][j] = e
        BY <3>2
      <4> QED BY <1>1, <1>9, <3>1, <4>1, <4>2 DEF NumberInv
    <3>4. \A t \in Shards : \A i \in DOMAIN log'[t] :
            log'[t][i].global_seq \in Nat /\ log'[t][i].global_seq < global_seq
      BY <1>1, <1>9, <3>1, <3>2 DEF NumberInv
    <3>5. ASSUME NEW t \in Shards, worker'[t].pc = "log"
          PROVE  /\ worker'[t].seq < global_seq
                 /\ \A u \in Shards : \A i \in DOMAIN log'[u] : log'[u][i].global_seq # worker'[t].seq
                 /\ \A i \in DOMAIN log'[t] : log'[t][i].global_seq < worker'[t].seq
                 /\ \A u \in Shards : worker'[u].pc = "log" /\ worker'[u].seq = worker'[t].seq => t = u
      <4>1. worker'[t] = worker[t] /\ t # s /\ worker[t].pc = "log" /\ log'[t] = log[t]
        BY <2>1, <2>3, <3>5 DEF Appended
      <4>2. worker[t].seq # n
        BY <3>1, <4>1
      <4>3. \A u \in Shards : \A i \in DOMAIN log'[u] : log'[u][i].global_seq # worker[t].seq
        BY <1>1, <1>9, <3>2, <4>1, <4>2 DEF NumberInv
      <4> QED BY <1>1, <2>1, <4>1, <4>3 DEF NumberInv
    <3> QED BY <1>8, <3>3, <3>4, <3>5 DEF NumberInv
  <2> QED BY <1>14, <2>2, <2>3
<1>17. ASSUME NEW t \in Shards, NEW i \in DOMAIN log'[t] PROVE log'[t][i].ref \in Refs /\ ShardOf[log'[t][i].ref] = t
  BY <1>1, <1>4, <1>9, <1>14 DEF HistoryInv, Appended
<1>18. ASSUME NEW r \in Refs, NEW x \in About(r), ShardOf[r] = s
       PROVE  x.global_seq \in Nat /\ x.global_seq < n
  <2>1. x \in Entries /\ x.ref = r
    BY DEF About
  <2>2. PICK t \in Shards : \E i \in DOMAIN log[t] : x = log[t][i]
    BY <2>1 DEF Entries
  <2>3. PICK i \in DOMAIN log[t] : x = log[t][i]
    BY <2>2
  <2>4. t = s
    BY <1>1, <1>18, <2>1, <2>3 DEF HistoryInv
  <2> QED BY <1>1, <1>5, <2>3, <2>4 DEF NumberInv
<1>19. ASSUME NEW r \in Refs PROVE History(r)'
  <2>1. History(r)
    BY <1>1 DEF HistoryInv, History
  <2>2. CASE ShardOf[r] # s
    <3>1. PICK t \in Shards : t = ShardOf[r]
      BY ShardKnown
    <3>2. t # s /\ worker'[t] = worker[t]
      BY <1>10, <2>2, <3>1
    <3>3. oms'[r].state = oms[r].state
      BY <1>8
    <3>4. Past(t) => /\ call'[worker[t].c] = call[worker[t].c]
                     /\ completion'[worker[t].c] = completion[worker[t].c]
      <4>1. Past(t) => worker[t].c \in Callers /\ worker[t].c # worker[s].c
        BY <1>1, <3>2, HandsDiffer
      <4> QED BY <1>2, <1>11, <4>1 DEF Others
    <3>5. /\ Ahead(t, r)' <=> Ahead(t, r)
          /\ Ahead(t, r) => Coming(t)' = Coming(t)
      <4>1. CASE Past(t)
        BY <3>2, <3>4, <4>1 DEF Ahead, Coming
      <4>2. CASE ~Past(t)
        BY <3>2, <4>2 DEF Ahead, Past
      <4> QED BY <4>1, <4>2
    <3>6. About(r)' = About(r)
      <4>1. CASE log' = log
        BY <4>1, AboutKept, EntriesKept
      <4>2. CASE Entries' = Entries \cup {e}
        <5>1. e.ref # r
          BY <1>4, <1>9, <2>2
        <5> QED BY <4>2, <5>1 DEF About
      <4> QED BY <1>14, <4>1, <4>2
    <3>7. Len(log'[t]) < LogCapacity => Len(log[t]) < LogCapacity
      BY <1>14, <3>2 DEF Appended
    <3> QED BY <2>1, <3>1, <3>3, <3>5, <3>6, <3>7, HistoryKept
  <2>3. CASE ShardOf[r] = s
    <3>1. ~Ahead(s, r)'
      BY <1>7, <1>10 DEF Ahead
    <3>2. Ahead(s, r) <=> q.ref = r /\ a.ok /\ q.kind # "snapshot"
      BY <1>1, <1>2, <1>3, <1>6 DEF Ahead
    <3>3. SUFFICES ASSUME Len(log'[s]) < LogCapacity PROVE oms'[r].state \in Told(r)'
      BY <2>3, <3>1 DEF History
    <3>4. Appended(s, e) /\ Entries' = Entries \cup {e} /\ Len(log[s]) < LogCapacity
      <4>1. Len(log[s]) < LogCapacity /\ log' = [log EXCEPT ![s] = Append(@, e)]
        BY <1>13, <3>3
      <4> QED BY <1>1, <4>1, AppendedEntries
    <3>5. CASE q.ref = r /\ a.ok /\ q.kind # "snapshot"
      <4>1. oms[r].state \in Says(q.kind, a.order.state)
        BY <1>2, <1>3, <1>6, <2>1, <2>3, <3>2, <3>4, <3>5 DEF History, Coming
      <4>2. About(r)' = About(r) \cup {e}
        BY <1>9, <3>4, <3>5 DEF About
      <4>3. \A x \in About(r) : x.global_seq \in Nat /\ x.global_seq < e.global_seq
        BY <1>9, <1>18, <2>3
      <4>4. LastEntry(About(r) \cup {e}) = e
        <5>1. PICK es : es = About(r)
          OBVIOUS
        <5>2. \A x \in es : x.global_seq \in Nat /\ x.global_seq < e.global_seq
          BY <4>3, <5>1
        <5>3. LastEntry(es \cup {e}) = e
          BY <1>9, <5>2, NewestCounts
        <5> QED BY <5>1, <5>3
      <4>5. Told(r)' = Says(q.kind, a.order.state)
        <5>1. LastEntry(About(r)') = e /\ About(r)' # {}
          BY <4>2, <4>4
        <5> QED BY <1>9, <5>1 DEF Told
      <4> QED BY <1>8, <4>1, <4>5
    <3>6. CASE ~(q.ref = r /\ a.ok /\ q.kind # "snapshot")
      <4>1. About(r)' = About(r)
        BY <1>9, <3>4, <3>6 DEF About
      <4>2. Told(r)' = Told(r)
        BY <4>1, ToldKept
      <4> QED BY <1>8, <2>1, <2>3, <3>2, <3>4, <3>6, <4>2 DEF History
    <3> QED BY <3>5, <3>6
  <2> QED BY <2>2, <2>3
<1>20. HistoryInv'
  BY <1>17, <1>19 DEF HistoryInv, History
<1> QED BY <1>12, <1>15, <1>16, <1>20 DEF LogInv

LEMMA LogInit ==
  ASSUME Init
  PROVE  LogInv
<1>1. BookInv /\ ImageInv
  BY NoOrderFacts, BlankFields DEF Init, BookInv, ImageInv
<1>2. \A s \in Shards : log[s] = <<>> /\ DOMAIN log[s] = {}
  BY DEF Init
<1>3. LogTyped
  BY DEF Init, LogTyped
<1>4. NumberInv
  BY <1>2 DEF NumberInv, Init, Worker
<1>5. HistoryInv
  <2>1. Entries = {}
    BY <1>2 DEF Entries
  <2>2. ASSUME NEW r \in Refs PROVE Told(r) = {"new_order"} /\ ~Ahead(ShardOf[r], r)
    <3>1. worker[ShardOf[r]].pc = "top"
      BY ShardKnown DEF Init, Worker
    <3> QED BY <2>1, <3>1 DEF Told, About, Ahead
  <2>3. \A r \in Refs : oms[r].state = "new_order"
    BY NoOrderFacts DEF Init
  <2> QED BY <1>2, <2>2, <2>3, NoOrderFacts DEF HistoryInv
<1> QED BY <1>1, <1>3, <1>4, <1>5 DEF LogInv

LEMMA HandedWhole ==
  ASSUME NEW a, Whole(a.order), NEW q, NEW anew
  PROVE  Whole(Calls!Handed(a, q, anew).order)
BY NoOrderFacts, BlankFields DEF Calls!Handed, Calls!Answer

LEMMA SubmitImage ==
  ASSUME Types, ImageInv, NEW c \in Callers, submit(c)
  PROVE  ImageInv'
<1>1. PICK anew \in BOOLEAN :
        completion' = [completion EXCEPT ![c] = Completion(FALSE, Calls!Handed(Held(completion[c]), call'[c], anew))]
  BY DEF submit
<1>2. PICK a : a = Calls!Handed(Held(completion[c]), call'[c], anew)
  OBVIOUS
<1>3. Entire(a) /\ Whole(a.order)
  <2>1. Whole(Held(completion[c]).order)
    BY DEF ImageInv, Held
  <2> QED BY <1>2, <2>1, HandedPending, HandedWhole
<1>4. completion'[c] = Completion(FALSE, a) /\ \A d \in Callers : d # c => completion'[d] = completion[d]
  BY <1>1, <1>2, <1>3, CompletionWrite
<1>5. Whole(completion'[c].order)
  BY <1>3, <1>4 DEF Completion
<1> QED BY <1>4, <1>5, ImageKept

LEMMA LogStep ==
  ASSUME OnceInv, LogInv, [Next]_vars
  PROVE  LogInv'
<1>1. Types /\ CallInv
  BY DEF OnceInv
<1>2. ASSUME NEW c \in Callers, submit(c) \/ try_push(c) \/ push_head(c) \/ wait(c) PROVE LogInv'
  <2>1. /\ UNCHANGED <<oms, log, global_seq, worker>>
        /\ stage[c] # "published" \/ completion[c].done \/ (call' = call /\ completion' = completion)
        /\ \A d \in Callers : d # c => call'[d] = call[d] /\ completion'[d] = completion[d]
    <3>1. DOMAIN completion = Callers /\ DOMAIN call = Callers
      BY <1>1 DEF Types
    <3> QED BY <1>2, <3>1 DEF submit, try_push, push_head, wait
  <2>2. ASSUME NEW s \in Shards
        PROVE  /\ Past(s)' => Past(s)
               /\ Past(s) => /\ worker'[s] = worker[s] /\ call'[worker[s].c] = call[worker[s].c]
                             /\ completion'[worker[s].c] = completion[worker[s].c]
    <3>1. Past(s) => worker[s].c \in Callers /\ stage[worker[s].c] = "published" /\ ~completion[worker[s].c].done
      BY DEF OnceInv, HandInv, Past
    <3> QED BY <2>1, <3>1 DEF Past
  <2>3. ImageInv'
    <3>1. ImageInv
      BY DEF LogInv
    <3>2. CASE submit(c)
      BY <1>1, <3>1, <3>2, SubmitImage
    <3>3. CASE try_push(c) \/ push_head(c) \/ wait(c)
      BY <3>1, <3>3 DEF ImageInv, try_push, push_head, wait
    <3> QED BY <1>2, <3>2, <3>3
  <2> QED BY <2>1, <2>2, <2>3, QuietStep
<1>3. ASSUME NEW s \in Shards, run(s) \/ try_pop(s) \/ pop_tail(s) \/ standing_approval(s) PROVE LogInv'
  <2>1. /\ UNCHANGED <<oms, log, global_seq, call, completion>>
        /\ worker[s] \in WorkerT /\ ~Past(s)
    BY <1>1, <1>3, TypeFacts DEF run, try_pop, pop_tail, standing_approval, Past
  <2>2. PICK w : Moves(s, w) /\ w.pc \notin {"claim", "log"}
    <3>1. worker[s].work \in BOOLEAN
      BY <2>1 DEF WorkerT
    <3>2. AfterRing(worker[s], worker[s].work).pc \notin {"claim", "log"}
      BY <2>1, <3>1, AfterRingTyped
    <3>3. CASE run(s)
      <4>1. [worker[s] EXCEPT !.pc = "scan", !.draining = TRUE].pc = "scan" /\ [worker[s] EXCEPT !.pc = "scan"].pc = "scan"
        BY <2>1 DEF WorkerT
      <4> QED BY <3>3, <4>1 DEF run
    <3>4. CASE try_pop(s)
      <4> DEFINE x == ring[s][worker[s].at].slot[ring[s][worker[s].at].tail % QueueCapacity]
      <4>1. [worker[s] EXCEPT !.pc = "popped", !.c = x].pc = "popped"
        BY <2>1 DEF WorkerT
      <4>2. Moves(s, AfterRing(worker[s], worker[s].work)) \/ Moves(s, [worker[s] EXCEPT !.pc = "popped", !.c = x])
        BY <3>4 DEF try_pop
      <4> HIDE DEF x
      <4> QED BY <3>2, <4>1, <4>2
    <3>5. CASE pop_tail(s)
      <4>1. [worker[s] EXCEPT !.pc = "apply"].pc = "apply"
        BY <2>1 DEF WorkerT
      <4> QED BY <3>5, <4>1 DEF pop_tail
    <3>6. CASE standing_approval(s)
      <4>1. [worker[s] EXCEPT !.pc = "mutate", !.approved = Approved].pc = "mutate"
        BY <2>1 DEF WorkerT
      <4> QED BY <3>6, <4>1 DEF standing_approval
    <3> QED BY <1>3, <3>3, <3>4, <3>5, <3>6
  <2>3. worker'[s] = w /\ \A t \in Shards : t # s => worker'[t] = worker[t]
    BY <1>1, <2>2 DEF Moves, Types
  <2>4. \A t \in Shards : /\ Past(t)' => Past(t)
                          /\ Past(t) => /\ worker'[t] = worker[t] /\ call'[worker[t].c] = call[worker[t].c]
                                        /\ completion'[worker[t].c] = completion[worker[t].c]
    BY <2>1, <2>2, <2>3 DEF Past
  <2>5. ImageInv'
    BY <2>1 DEF LogInv, ImageInv
  <2> QED BY <2>1, <2>4, <2>5, QuietStep
<1>4. ASSUME NEW s \in Shards, pause(s) \/ resume(s) \/ destroy(s) PROVE LogInv'
  <2>1. UNCHANGED <<oms, log, global_seq, call, completion, worker>>
    BY <1>4 DEF pause, resume, destroy
  <2>2. ImageInv'
    BY <2>1 DEF LogInv, ImageInv
  <2> QED BY <2>1, <2>2, QuietStep DEF Past
<1>5. CASE halt_globally \/ UNCHANGED vars
  <2>1. UNCHANGED <<oms, log, global_seq, call, completion, worker>>
    BY <1>5 DEF halt_globally, vars
  <2>2. ImageInv'
    BY <2>1 DEF LogInv, ImageInv
  <2> QED BY <2>1, <2>2, QuietStep DEF Past
<1> QED BY <1>2, <1>3, <1>4, <1>5, ClaimLog, ApplyLog, CompleteLog DEF Next, WorkerStep

\* For every number of shards, producers and log slots: no two operations share a number, and
\* the book holds every order in a state that the last entry about it says, in a log that dropped
\* nothing, although an entry may carry the state of an earlier call that used the completion.
THEOREM LogIsHistory == Spec => []LogFaithful
<1>1. Init => LogInv
  BY LogInit
<1>2. OnceInv /\ LogInv /\ [Next]_vars => LogInv'
  BY LogStep
<1>3. LogInv => LogFaithful
  <2> SUFFICES ASSUME LogInv PROVE LogFaithful
    OBVIOUS
  <2>1. NumberInv /\ HistoryInv
    BY DEF LogInv
  <2>2. ASSUME NEW r \in Refs, Settled(ShardOf[r]), Len(log[ShardOf[r]]) < LogCapacity
        PROVE  oms[r].state \in Told(r)
    <3>1. ~Ahead(ShardOf[r], r)
      BY <2>2 DEF Settled, Ahead
    <3> QED BY <2>1, <2>2, <3>1 DEF HistoryInv
  <2> QED BY <2>1, <2>2 DEF LogFaithful, NumberInv
<1> QED BY <1>1, <1>2, <1>3, OnceAlways, PTL DEF Spec
=============================================================================
