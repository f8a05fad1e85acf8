------------------------------ MODULE OmsCalls ------------------------------
(***************************************************************************)
(* What the sharded order book promises its callers: every call takes      *)
(* effect once, at one instant between its start and its return, and the   *)
(* caller is told then whether its own request succeeded.  The order it is *)
(* shown is the request's if it succeeded and the order is still there;    *)
(* otherwise it is what the completion held before the call.               *)
(* ShardedOms implements this module.                                      *)
(***************************************************************************)
EXTENDS OrderState, Integers, FiniteSets

CONSTANTS Refs,      \* order references
          ShardOf,   \* logical_order_id % shard_count_
          Capacity,  \* capacity_per_shard
          Callers,   \* the calls that may be in progress at once
          Requests   \* what they may ask for

VARIABLES book,      \* the order behind each reference, NoOrder without one
          call,      \* what each caller asked for, NoCall between two calls
          answer     \* the completion each caller hands in, and whether its call took effect

absVars == <<book, call, answer>>

Order(s, v, f) == [state |-> s, requested |-> v, filled |-> f]
NoOrder == Order("new_order", 0, 0)
NoCall == [kind |-> "none"]

\* Completion::ok, ::order and what a snapshot copied out; given: it is that of the present call.
Answer(given, ok, order, orders) == [given |-> given, ok |-> ok, order |-> order, orders |-> orders]
Blank == Answer(FALSE, FALSE, NoOrder, {})

\* A call is made with a new completion or with one that was used before. Of a used one only
\* done is reset, and the count of a snapshot; ok and the order stay those of the call before.
Handed(a, q, anew) ==
  IF anew THEN Blank ELSE Answer(FALSE, a.ok, a.order, IF q.kind = "snapshot" THEN {} ELSE a.orders)

Live(b) == {r \in Refs : b[r].state # "new_order"}
OfShard(b, s) == {r \in Live(b) : ShardOf[r] = s}
HasRoom(b, r) == Cardinality(OfShard(b, ShardOf[r])) < Capacity

remaining(o) == o.requested - o.filled
FillTarget(o) == IF remaining(o) = 0 THEN "filled" ELSE "partially_filled"
Filled(o, v) == [o EXCEPT !.filled = @ + v]
Fillable(o, v) == 0 < v /\ v <= remaining(o)
\* Finished orders leave the book.
Kept(o) == IF is_terminal(o.state) THEN NoOrder ELSE o

\* Each case of apply: the order it leaves behind, its success, and the order left in the
\* completion, which held was. A refused call leaves was; so does the fill that finishes its
\* order, while a transition that does so writes the state alone. A fill refused after its
\* volume was added leaves the volume.
Outcome(o, ok, seen) == [order |-> o, ok |-> ok, seen |-> seen]
Unchanged(o, was) == Outcome(o, FALSE, was)

Transition(o, to, was) ==
  LET n == [o EXCEPT !.state = to]
  IN IF o = NoOrder \/ ~legal(o.state, to) THEN Unchanged(o, was)
     ELSE Outcome(Kept(n), TRUE, IF is_terminal(to) THEN [was EXCEPT !.state = to] ELSE n)

Fill(o, v, was) ==
  LET n == Filled(o, v)
      t == [n EXCEPT !.state = FillTarget(n)]
  IN IF ~Fillable(o, v) THEN Unchanged(o, was)
     ELSE IF ~legal(o.state, FillTarget(n)) THEN Unchanged(n, was)
     ELSE Outcome(Kept(t), TRUE, IF is_terminal(t.state) THEN was ELSE t)

Replace(o, v, was) ==
  LET n == [o EXCEPT !.requested = v]
  IN IF o.state \in {"new_order", "unknown"} \/ v <= o.filled THEN Unchanged(o, was) ELSE Outcome(n, TRUE, n)

Insert(b, r, o, was) ==
  IF b[r] = NoOrder /\ HasRoom(b, r) THEN Outcome(o, TRUE, o) ELSE Unchanged(b[r], was)

\* Oms::restore takes the state and the filled volume from the request, if they make sense.
Restore(b, q, was) ==
  IF q.volume <= 0 \/ q.filled < 0 \/ q.filled > q.volume THEN Unchanged(b[q.ref], was)
  ELSE Insert(b, q.ref, Order(q.target, q.volume, q.filled), was)

\* The effect of request q on book b; approved is the standing approval of a create.
Effect(b, q, approved, was) ==
  LET o == b[q.ref]
  IN CASE q.kind = "create"     -> IF approved THEN Insert(b, q.ref, Order("pending_send", q.volume, 0), was)
                                   ELSE Unchanged(o, was)
       [] q.kind = "restore"    -> Restore(b, q, was)
       [] q.kind = "find"       -> Outcome(o, o # NoOrder, IF o = NoOrder THEN was ELSE o)
       [] q.kind = "transition" -> Transition(o, q.target, was)
       [] q.kind = "fill"       -> Fill(o, q.volume, was)
       [] q.kind = "replace"    -> Replace(o, q.volume, was)

\* A snapshot changes nothing and copies the live orders of one shard, that of q.ref here.
NewBook(b, q, approved, a) ==
  IF q.kind = "snapshot" THEN b ELSE [b EXCEPT ![q.ref] = Effect(b, q, approved, a.order).order]

Reply(b, q, approved, a) ==
  IF q.kind = "snapshot" THEN Answer(TRUE, TRUE, a.order, {b[r] : r \in OfShard(b, ShardOf[q.ref])})
  ELSE LET e == Effect(b, q, approved, a.order) IN Answer(TRUE, e.ok, e.seen, a.orders)
-----------------------------------------------------------------------------
AbsInit == /\ book = [r \in Refs |-> NoOrder]
           /\ call = [c \in Callers |-> NoCall]
           /\ answer = [c \in Callers |-> Blank]

Invoke(c, q, anew) == /\ call[c] = NoCall
                      /\ call' = [call EXCEPT ![c] = q]
                      /\ answer' = [answer EXCEPT ![c] = Handed(@, q, anew)]
                      /\ UNCHANGED book

\* The approval is whatever the kill switch said since the call began.
TakeEffect(c, approved) ==
  /\ call[c] # NoCall /\ ~answer[c].given
  /\ book' = NewBook(book, call[c], approved, answer[c])
  /\ answer' = [answer EXCEPT ![c] = Reply(book, call[c], approved, @)]
  /\ UNCHANGED call

\* The completion stays as it is: the next call of the same caller may use it again.
Return(c) == /\ call[c] # NoCall /\ answer[c].given
             /\ call' = [call EXCEPT ![c] = NoCall]
             /\ UNCHANGED <<book, answer>>

\* A full queue turns the call away before anyone has seen it.
TurnAway(c) == /\ call[c] # NoCall /\ ~answer[c].given
               /\ call' = [call EXCEPT ![c] = NoCall]
               /\ UNCHANGED <<book, answer>>

AbsNext == \E c \in Callers : \/ \E q \in Requests, anew \in BOOLEAN : Invoke(c, q, anew)
                              \/ \E approved \in BOOLEAN : TakeEffect(c, approved)
                              \/ Return(c)
                              \/ TurnAway(c)

AbsSpec == AbsInit /\ [][AbsNext]_absVars
=============================================================================
