-------------------------------- MODULE Oms --------------------------------
(***************************************************************************)
(* The order book of one shard (class Oms), as the map from references to  *)
(* orders its callers see. The array and the hash index behind the map are *)
(* modelled in OmsIndex, which implements this module.                     *)
(*                                                                         *)
(* A call that returns false or nullptr leaves the book alone and is a     *)
(* stuttering step, with one exception the code makes: Fill.               *)
(***************************************************************************)
EXTENDS Integers, FiniteSets, OrderState

CONSTANTS Refs,      \* order references (BrokerOrderRef)
          Capacity,  \* capacity_: how many orders may be live at once
          Volumes    \* the volumes callers pass; the risk layer admits only positive ones

ASSUME OmsAssumption == /\ Capacity \in Nat
                        /\ Volumes \subseteq Nat \ {0}

VARIABLES live,      \* the references find() finds
          order,     \* the order behind each live reference, NoOrder for the others
          reserved   \* reserved_

omsVars == <<live, order, reserved>>

Order == [state : OrderStates, requested_volume : Nat, filled_volume : Nat,
          last_applied_seq : Nat]

NewOrder(s, v, f) == [state |-> s, requested_volume |-> v, filled_volume |-> f,
                      last_applied_seq |-> 0]

NoOrder == NewOrder("new_order", 0, 0)

remaining(o) == o.requested_volume - o.filled_volume

OmsInit == /\ live = {}
           /\ order = [r \in Refs |-> NoOrder]
           /\ reserved = 0
-----------------------------------------------------------------------------
HasRoom == Cardinality(live) < Capacity

Insert(ref, o) ==
  /\ ref \notin live
  /\ HasRoom
  /\ live' = live \cup {ref}
  /\ order' = [order EXCEPT ![ref] = o]

\* Only recovery restores: `sent` while it replays a journal, `unknown` when the result
\* is loaded back into a shard.
RestoredStates == {"sent", "unknown"}

restore(ref, s, v, f) ==
  /\ f <= v
  /\ Insert(ref, NewOrder(s, v, f))
  /\ reserved' = IF reserves_exposure(s) THEN reserved + v ELSE reserved

create(ref, v) ==
  /\ Insert(ref, NewOrder("pending_send", v, 0))
  /\ reserved' = reserved + v

\* A bug in release: only the volume that never traded is given back.
Released_Remainder(o) == remaining(o)

\* What an order that stops reserving gives back: its full requested volume.
Released(o) == o.requested_volume

\* A bug in the condition: a rejected order keeps its slot.
Reclaims_NotRejected(s) == is_terminal(s) /\ s # "rejected"

\* A terminal state frees the order's slot and its index entry.
Reclaims(s) == is_terminal(s)

\* The tail of transition(): order `ref` becomes `o`, its reservation is released when
\* it stops reserving, and it leaves the book when it is terminal.
Settle(ref, o) ==
  /\ reserved' = IF reserves_exposure(order[ref].state) /\ ~reserves_exposure(o.state)
                 THEN reserved - Released(o) ELSE reserved
  /\ live' = IF Reclaims(o.state) THEN live \ {ref} ELSE live
  /\ order' = [order EXCEPT ![ref] = IF Reclaims(o.state) THEN NoOrder ELSE o]

transition(ref, next) ==
  /\ ref \in live
  /\ legal(order[ref].state, next)
  /\ Settle(ref, [order[ref] EXCEPT !.state = next])

Fillable(o, v) == 0 < v /\ v <= remaining(o)

AddFill(o, v) == [o EXCEPT !.filled_volume = @ + v]

\* The state a fill moves the order to, judged after the volume is added.
FillTarget(o) == IF remaining(o) = 0 THEN "filled" ELSE "partially_filled"

FillOk(o, v) == Fillable(o, v) /\ legal(o.state, FillTarget(AddFill(o, v)))

\* What fill() leaves behind: the volume is added before the transition is tried and
\* stays added when the transition is refused.
AfterFill(o, v) ==
  LET b == AddFill(o, v)
  IN IF ~Fillable(o, v) THEN o
     ELSE IF legal(o.state, FillTarget(b)) THEN [b EXCEPT !.state = FillTarget(b)] ELSE b

fill(ref, v) == ref \in live /\ Settle(ref, AfterFill(order[ref], v))

recover_fill(ref, v) ==
  /\ ref \in live
  /\ Fillable(order[ref], v)
  /\ order' = [order EXCEPT ![ref] = AddFill(@, v)]
  /\ UNCHANGED <<live, reserved>>

mark_unknown_on_restart(ref) ==
  /\ ref \in live
  /\ ~is_terminal(order[ref].state)
  /\ order' = [order EXCEPT ![ref].state = "unknown"]
  /\ UNCHANGED <<live, reserved>>

resolve_unknown(ref, t) ==
  /\ ref \in live
  /\ order[ref].state = "unknown"
  /\ is_terminal(t)
  /\ transition(ref, t)

OmsNext ==
  \E ref \in Refs :
    \/ \E v \in Volumes :
         \/ create(ref, v)
         \/ fill(ref, v)
         \/ recover_fill(ref, v)
         \/ \E s \in RestoredStates, f \in Volumes \cup {0} : restore(ref, s, v, f)
    \/ \E s \in OrderStates : transition(ref, s)
    \/ \E t \in Terminal : resolve_unknown(ref, t)
    \/ mark_unknown_on_restart(ref)

OmsSpec == OmsInit /\ [][OmsNext]_omsVars
-----------------------------------------------------------------------------
OmsTypeOK == /\ live \subseteq Refs
             /\ order \in [Refs -> Order]
             /\ reserved \in Int

\* Whatever sequence of calls, refused ones included, reaches the book: a live order is in
\* a state that reserves exposure, never a terminal one (reclaim leaves [0, size()) dense
\* with exactly the live orders), and has never taken more than was asked for.
OrdersSound ==
  \A r \in live : /\ reserves_exposure(order[r].state)
                  /\ order[r].filled_volume <= order[r].requested_volume
                  /\ order[r].requested_volume > 0
=============================================================================
