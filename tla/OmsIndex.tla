------------------------------ MODULE OmsIndex ------------------------------
(***************************************************************************)
(* The same order book as the code keeps it: an array whose first `count`  *)
(* entries are the live orders, and an open-addressed hash table from      *)
(* references to array slots, with tombstones and an in-place rehash. It   *)
(* implements the map from references to orders of module Oms.             *)
(***************************************************************************)
EXTENDS Integers, FiniteSetsExt, OrderState

CONSTANTS Refs, Capacity, Volumes,
          Home,    \* mix_ref(ref) & (index_capacity_ - 1)
          NoRef    \* the reference of an array slot that was never used

\* p doubles until it is no longer below n.
next_pow2(n) ==
  LET p[k \in 0 .. n] == IF k = 0 THEN 1 ELSE 2 * p[k-1]
  IN Min({q \in {p[k] : k \in 0 .. n} : q >= n})

IndexCapacity == next_pow2(2 * Max({Capacity, 1}))

Positions == 0 .. (IndexCapacity - 1)
Slots == 0 .. (Capacity - 1)

ASSUME OmsIndexAssumption == /\ Capacity \in Nat
                             /\ Volumes \subseteq Nat \ {0}
                             /\ Home \in [Refs -> Positions]
                             /\ NoRef \notin Refs

VARIABLES orders,      \* orders_
          index,       \* index_
          count,       \* count_
          tombstones,  \* tombstones_
          reserved     \* reserved_

vars == <<orders, index, count, tombstones, reserved>>

Empty == 0
Tombstone == 1
Bias == 2              \* an occupied entry is slot + Bias
-----------------------------------------------------------------------------
(* The index. The operators take the table, since rehash rebuilds it. *)

Pos(ref, step) == (Home[ref] + step) % IndexCapacity

Holds(ix, os, ref, p) == ix[p] >= Bias /\ os[ix[p] - Bias].ref = ref

\* A bug in the probe: a tombstone ends the run as an empty entry does.
RunContinues_NotOverTombstones(ix, p) == ix[p] >= Bias

RunContinues(ix, p) == ix[p] # Empty

\* The probe steps at which ref is seen before an empty entry ends the run.
Hits(ix, os, ref) ==
  {k \in Positions : /\ Holds(ix, os, ref, Pos(ref, k))
                     /\ \A j \in 0 .. k - 1 : RunContinues(ix, Pos(ref, j))}

\* IndexCapacity when ref is not there.
index_probe_find(ix, os, ref) ==
  IF Hits(ix, os, ref) = {} THEN IndexCapacity ELSE Pos(ref, Min(Hits(ix, os, ref)))

\* The entry a new reference takes: the first that is empty or a tombstone. A table
\* without one is left as it is.
Vacant(ix, ref) == {k \in Positions : ix[Pos(ref, k)] \in {Empty, Tombstone}}

index_insert(ix, ref, slot) ==
  IF Vacant(ix, ref) = {} THEN ix
  ELSE [ix EXCEPT ![Pos(ref, Min(Vacant(ix, ref)))] = slot + Bias]

\* A bug in the bookkeeping: a tombstone that is taken again is still counted.
Reused_Never(ix, ref) == 0

\* How many tombstones an insertion uses up.
Reused(ix, ref) ==
  IF Vacant(ix, ref) # {} /\ ix[Pos(ref, Min(Vacant(ix, ref)))] = Tombstone THEN 1 ELSE 0

rehash(os, n) ==
  LET table[k \in 0 .. n] == IF k = 0 THEN [p \in Positions |-> Empty]
                             ELSE index_insert(table[k-1], os[k-1].ref, k - 1)
  IN table[n]
-----------------------------------------------------------------------------
Found(ref) == index_probe_find(index, orders, ref) # IndexCapacity
SlotOf(ref) == index[index_probe_find(index, orders, ref)] - Bias
OrderOf(ref) == orders[SlotOf(ref)].order

\* A value-initialised order, and the zeroed array slot it comes in.
Blank == [state |-> "new_order", requested_volume |-> 0, filled_volume |-> 0,
          last_applied_seq |-> 0]
BlankSlot == [ref |-> NoRef, order |-> Blank]

\* The book: the orders in the live part of the array.
Live == {orders[i].ref : i \in 0 .. count - 1}
LiveOrder(ref) == orders[CHOOSE i \in 0 .. count - 1 : orders[i].ref = ref].order

Book == INSTANCE Oms WITH live  <- Live,
                          order <- [r \in Refs |-> IF r \in Live THEN LiveOrder(r) ELSE Blank]

Init == /\ orders = [i \in Slots |-> BlankSlot]
        /\ index = [p \in Positions |-> Empty]
        /\ count = 0
        /\ tombstones = 0
        /\ reserved = 0

HasRoom == count < Capacity

Insert(ref, o) ==
  /\ ~Found(ref)
  /\ HasRoom
  /\ orders' = [orders EXCEPT ![count] = [ref |-> ref, order |-> o]]
  /\ index' = index_insert(index, ref, count)
  /\ tombstones' = tombstones - Reused(index, ref)
  /\ count' = count + 1

restore(ref, s, v, f) ==
  /\ f <= v
  /\ Insert(ref, Book!NewOrder(s, v, f))
  /\ reserved' = IF reserves_exposure(s) THEN reserved + v ELSE reserved

create(ref, v) ==
  /\ Insert(ref, Book!NewOrder("pending_send", v, 0))
  /\ reserved' = reserved + v

\* The entry of the order that moved into `slot` is found through the copy it left behind.
Repointed(ix, os, slot) ==
  [ix EXCEPT ![index_probe_find(ix, os, os[slot].ref)] = slot + Bias]

\* The last live order moves into the slot that is freed; its old copy stays behind `count`.
reclaim(slot, os) ==
  LET last == count - 1
      erased == [index EXCEPT ![index_probe_find(index, os, os[slot].ref)] = Tombstone]
      moved == IF slot = last THEN os ELSE [os EXCEPT ![slot] = os[last]]
      swapped == IF slot = last THEN erased ELSE Repointed(erased, moved, slot)
      full == tombstones + 1 > Capacity
  IN /\ orders' = moved
     /\ count' = last
     /\ index' = IF full THEN rehash(moved, last) ELSE swapped
     /\ tombstones' = IF full THEN 0 ELSE tombstones + 1

\* The tail of transition().
Settle(ref, o) ==
  LET slot == SlotOf(ref)
      os == [orders EXCEPT ![slot].order = o]
  IN /\ reserved' = IF reserves_exposure(OrderOf(ref).state) /\ ~reserves_exposure(o.state)
                    THEN reserved - o.requested_volume ELSE reserved
     /\ IF is_terminal(o.state) THEN reclaim(slot, os)
        ELSE orders' = os /\ UNCHANGED <<index, count, tombstones>>

transition(ref, next) ==
  /\ Found(ref)
  /\ legal(OrderOf(ref).state, next)
  /\ Settle(ref, [OrderOf(ref) EXCEPT !.state = next])

fill(ref, v) == Found(ref) /\ Settle(ref, Book!AfterFill(OrderOf(ref), v))

recover_fill(ref, v) ==
  /\ Found(ref)
  /\ Book!Fillable(OrderOf(ref), v)
  /\ orders' = [orders EXCEPT ![SlotOf(ref)].order = Book!AddFill(@, v)]
  /\ UNCHANGED <<index, count, tombstones, reserved>>

mark_unknown_on_restart(ref) ==
  /\ Found(ref)
  /\ ~is_terminal(OrderOf(ref).state)
  /\ orders' = [orders EXCEPT ![SlotOf(ref)].order.state = "unknown"]
  /\ UNCHANGED <<index, count, tombstones, reserved>>

resolve_unknown(ref, t) ==
  /\ Found(ref)
  /\ OrderOf(ref).state = "unknown"
  /\ is_terminal(t)
  /\ transition(ref, t)

Next ==
  \E ref \in Refs :
    \/ \E v \in Volumes :
         \/ create(ref, v)
         \/ fill(ref, v)
         \/ recover_fill(ref, v)
         \/ \E s \in Book!RestoredStates, f \in Volumes \cup {0} : restore(ref, s, v, f)
    \/ \E s \in OrderStates : transition(ref, s)
    \/ \E t \in Terminal : resolve_unknown(ref, t)
    \/ mark_unknown_on_restart(ref)

Spec == Init /\ [][Next]_vars
-----------------------------------------------------------------------------
TypeOK ==
  /\ orders \in [Slots -> [ref : Refs \cup {NoRef}, order : Book!Order]]
  /\ index \in [Positions -> 0 .. (Capacity + Bias - 1)]
  /\ count \in 0 .. Capacity
  /\ tombstones \in 0 .. Capacity
  /\ reserved \in Int

\* The index is exact through any sequence of insertions, reclaims, reuses of tombstones
\* and rehashes: each of the `count` orders has the one entry that find() reaches, no other
\* entry is occupied, and tombstones_ counts the tombstones that are there. It holds too
\* when live orders and tombstones fill the table and no entry is empty.
IndexExact ==
  /\ \A i \in 0 .. count - 1 : Found(orders[i].ref) /\ SlotOf(orders[i].ref) = i
  /\ Cardinality({p \in Positions : index[p] >= Bias}) = count
  /\ Cardinality({p \in Positions : index[p] = Tombstone}) = tombstones

\* find(), create(), transition() and the rest behave as the plain map of module Oms: the
\* swap on reclaim, the tombstones and the rehash cannot be seen by a caller.
ImplementsOms == Book!OmsSpec
=============================================================================
