----------------------------- MODULE RiskLedger -----------------------------
(***************************************************************************)
(* The exposure and credit ledger, called by many threads at once without  *)
(* a lock. A reservation touches a path of dimensions (strategy, symbol,   *)
(* venue, global); each is taken with an atomic add that is checked        *)
(* afterwards and taken back when it was too much. One step is one atomic  *)
(* operation on one counter, or one access to the reservation table.       *)
(*                                                                         *)
(* The table is plain memory: the calls about one order must not overlap,  *)
(* and here they do not. Calls about different orders overlap freely.      *)
(***************************************************************************)
EXTENDS Integers, Sequences, SequencesExt

CONSTANTS Callers,         \* threads
          Refs,            \* order references
          Volumes,         \* volumes callers ask for
          Dims,            \* every strategy, symbol, venue, and the global dimension
          Path,            \* the dimensions a reservation of each order touches, in order
          OpenLimit,       \* open_order_limit of each dimension
          Budget,          \* credit_budget of each dimension
          Halting,         \* the dimensions that have a kill switch and may be halted
          Sign,            \* 1 for an order that buys, -1 for one that sells
          MaxOrderVolume,  \* max_order_volume
          TableCapacity,   \* reservation_capacity_
          Home,            \* the first slot probe() looks at
          Void             \* an unoccupied slot; no order

Slots == 0 .. (TableCapacity - 1)

Reservation == [ref : Refs, requested : Nat, filled : Nat, credit : Nat]

ASSUME LedgerAssumption == /\ Volumes \subseteq Nat \ {0}
                           /\ Path \in [Refs -> Seq(Dims)]
                           /\ \A r \in Refs : Path[r] # <<>> /\ IsInjective(Path[r])
                           /\ OpenLimit \in [Dims -> Nat]
                           /\ Budget \in [Dims -> Nat]
                           /\ Halting \subseteq Dims
                           /\ Sign \in [Refs -> {1, -1}]
                           /\ MaxOrderVolume \in Nat
                           /\ TableCapacity \in Nat
                           /\ Home \in [Refs -> Slots]
                           /\ IsFiniteSet(Refs) /\ Void \notin Refs \cup Reservation

VARIABLES counter,  \* open_exposure, position and credit_remaining of every dimension
          halted,   \* the dimensions whose kill switch is set
          table,    \* reservations_
          call,     \* what each thread is doing: the rest of its current call
          used,     \* history: references that had a reservation (they are never reused)
          noted,    \* history: the filled volume the ledger has taken note of, per order
          booked,   \* the volume each order has in the order book
          uncut     \* history: orders with a decrease that the order book refused, or must refuse

vars == <<counter, halted, table, call, used, noted, booked, uncut>>
book == <<booked, uncut>>

\* A call in progress works off `todo`, its pending atomic adds, then goes on at `pc`.
Add(name, d, by) == [counter |-> name, dim |-> d, by |-> by]
Frame(pc, r, v, todo) == [pc |-> pc, ref |-> r, volume |-> v, at |-> 1, todo |-> todo]
Idle == Frame("idle", Void, 0, <<>>)

Init == /\ counter = [open     |-> [d \in Dims |-> 0],
                      position |-> [d \in Dims |-> 0],
                      credit   |-> Budget]
        /\ halted = {}
        /\ table = [p \in Slots |-> Void]
        /\ call = [c \in Callers |-> Idle]
        /\ used = {}
        /\ noted = [r \in Refs |-> 0]
        /\ booked = [r \in Refs |-> 0]
        /\ uncut = {}
-----------------------------------------------------------------------------
(* The reservation table: linear probing, and deletion without tombstones. *)

Pos(r, k) == (Home[r] + k) % TableCapacity

Stops(r, p) == table[p] = Void \/ table[p].ref = r

\* The first slot that is free or r's own; TableCapacity when there is none.
probe(r) ==
  LET stops == {k \in Slots : Stops(r, Pos(r, k))}
  IN IF stops = {} THEN TableCapacity ELSE Pos(r, Min(stops))

Reserved(r) == probe(r) # TableCapacity /\ table[probe(r)] # Void

Of(r) == table[probe(r)]
-----------------------------------------------------------------------------
(* Steps of a call. *)

Ready(c, pc) == call[c].pc = pc /\ call[c].todo = <<>>

\* No thread is in a call about r.
Quiet(r) == \A c \in Callers : call[c].ref # r

Continue(c, f) == call' = [call EXCEPT ![c] = f]

\* The same add on the first n dimensions of r's path.
Adds(name, r, by, n) == [i \in 1 .. n |-> Add(name, Path[r][i], by)]

Everywhere(name, r, by) == Adds(name, r, by, Len(Path[r]))

Apply(a) == counter' = [counter EXCEPT ![a.counter][a.dim] = @ + a.by]

\* The next pending add of the call: one fetch_add or fetch_sub.
AtomicAdd(c) ==
  /\ call[c].todo # <<>>
  /\ Apply(Head(call[c].todo))
  /\ Continue(c, IF call[c].pc = "idle" /\ Len(call[c].todo) = 1 THEN Idle
                 ELSE [call[c] EXCEPT !.todo = Tail(@)])
  /\ UNCHANGED <<halted, table, used, noted, book>>

GiveUp(c, todo) == Continue(c, Frame("idle", call[c].ref, 0, todo))

\* A bug in the check: it looks at the total without the volume that was just added.
OverLimit_OldTotal(d, old, v) == old > OpenLimit[d]

OverLimit(d, old, v) == old + v > OpenLimit[d]

\* A bug in the unwinding: only the dimensions before the one that refused are undone.
Retract_OthersOnly(name, r, by, n) == Adds(name, r, by, n - 1)

\* The dimension that refused takes its add back first, then the ones before it.
Retract(name, r, by, n) == <<Add(name, Path[r][n], by)>> \o Adds(name, r, by, n - 1)

\* reserve_exposure on the next dimension of the path, for reserve and for adjust_replace.
reserve_exposure(c) ==
  LET f == call[c]
      d == Path[f.ref][f.at]
  IN /\ Ready(c, "expose") \/ Ready(c, "grow")
     /\ Apply(Add("open", d, f.volume))
     /\ \/ /\ OverLimit(d, counter.open[d], f.volume)
           /\ GiveUp(c, Retract("open", f.ref, -f.volume, f.at))
        \/ /\ ~OverLimit(d, counter.open[d], f.volume)
           /\ f.at < Len(Path[f.ref])
           /\ Continue(c, [f EXCEPT !.at = @ + 1])
        \/ /\ ~OverLimit(d, counter.open[d], f.volume)
           /\ f.at = Len(Path[f.ref])
           /\ Continue(c, Frame(IF f.pc = "expose" THEN "credit" ELSE "resize",
                                f.ref, f.volume, <<>>))
     /\ UNCHANGED <<halted, table, used, noted, book>>

reserve_credit(c) ==
  LET f == call[c]
      d == Path[f.ref][f.at]
      short == counter.credit[d] - f.volume < 0
  IN /\ Ready(c, "credit")
     /\ Apply(Add("credit", d, -f.volume))
     /\ \/ /\ short
           /\ GiveUp(c, Retract("credit", f.ref, f.volume, f.at)
                          \o Everywhere("open", f.ref, -f.volume))
        \/ /\ ~short /\ f.at < Len(Path[f.ref])
           /\ Continue(c, [f EXCEPT !.at = @ + 1])
        \/ /\ ~short /\ f.at = Len(Path[f.ref])
           /\ Continue(c, Frame("store", f.ref, f.volume, <<>>))
     /\ UNCHANGED <<halted, table, used, noted, book>>

\* allocate_reservation and the stores into the slot, or the unwinding when there is none.
allocate_reservation(c) ==
  LET f == call[c]
      p == probe(f.ref)
  IN /\ Ready(c, "store")
     /\ IF p # TableCapacity /\ table[p] = Void
        THEN /\ table' = [table EXCEPT ![p] = [ref |-> f.ref, requested |-> f.volume,
                                               filled |-> 0, credit |-> f.volume]]
             /\ used' = used \cup {f.ref}
             /\ booked' = [booked EXCEPT ![f.ref] = f.volume]
             /\ Continue(c, Idle)
        ELSE /\ GiveUp(c, Everywhere("open", f.ref, -f.volume)
                            \o Everywhere("credit", f.ref, f.volume))
             /\ UNCHANGED <<table, used, booked>>
     /\ UNCHANGED <<counter, halted, noted, uncut>>
-----------------------------------------------------------------------------
(* The calls. *)

FitsOrder(v) == v <= MaxOrderVolume

reserve(c, r, v) ==
  /\ Ready(c, "idle")
  /\ Quiet(r)
  /\ r \notin used
  /\ FitsOrder(v)
  /\ ~Reserved(r)
  /\ ToSet(Path[r]) \cap halted = {}
  /\ Continue(c, Frame("expose", r, v, <<>>))
  /\ UNCHANGED <<counter, halted, table, used, noted, book>>

\* The adds of release: what is still open goes back, if anything is, and all the credit.
Releases(res) ==
  LET remaining == res.requested - res.filled
  IN (IF remaining > 0 THEN Everywhere("open", res.ref, -remaining) ELSE <<>>)
       \o Everywhere("credit", res.ref, res.credit)

release(c, r) ==
  /\ Ready(c, "idle")
  /\ Quiet(r)
  /\ Reserved(r)
  /\ Continue(c, Frame("free", r, 0, Releases(Of(r))))
  /\ UNCHANGED <<counter, halted, table, used, noted, book>>

free_reservation(c) ==
  /\ Ready(c, "free")
  /\ Reserved(call[c].ref)
  /\ table' = [table EXCEPT ![probe(call[c].ref)] = Void]
  /\ Continue(c, Idle)
  /\ UNCHANGED <<counter, halted, used, noted, book>>

\* reconcile: the order is seen with f filled in all; `gone` when it left the book.
reconcile(c, r, f, gone) ==
  LET delta == f - Of(r).filled
      moves == [i \in 1 .. 2 * Len(Path[r]) |->
                  LET d == Path[r][(i + 1) \div 2]
                  IN IF i % 2 = 1 THEN Add("open", d, -delta)
                     ELSE Add("position", d, Sign[r] * delta)]
  IN /\ Ready(c, "idle")
     /\ Quiet(r)
     /\ Reserved(r)
     /\ delta > 0 \/ gone
     /\ Continue(c, IF delta > 0
                    THEN Frame(IF gone THEN "note_gone" ELSE "note", r, f, moves)
                    ELSE Frame("free", r, 0, Releases(Of(r))))
     /\ UNCHANGED <<counter, halted, table, used, noted, book>>

Noted(res, f) == [res EXCEPT !.filled = f]

\* last_known_filled is written once the counters are done; then a gone order is released.
NoteFilled(c) ==
  LET f == call[c]
  IN /\ Ready(c, "note") \/ Ready(c, "note_gone")
     /\ table' = [table EXCEPT ![probe(f.ref)] = Noted(@, f.volume)]
     /\ noted' = [noted EXCEPT ![f.ref] = f.volume]
     /\ Continue(c, IF f.pc = "note" THEN Idle
                    ELSE Frame("free", f.ref, 0, Releases(Noted(Of(f.ref), f.volume))))
     /\ UNCHANGED <<counter, halted, used, book>>

\* The router adjusts the ledger first and asks the order book afterwards.
adjust_replace(c, r, v) ==
  LET delta == v - Of(r).requested
  IN /\ Ready(c, "idle")
     /\ Quiet(r)
     /\ Reserved(r)
     /\ \/ /\ delta > 0
           /\ FitsOrder(v)
           /\ Continue(c, Frame("grow", r, delta, <<>>))
           /\ UNCHANGED uncut
        \/ /\ delta < 0
           /\ Continue(c, Frame("resize", r, delta, Everywhere("open", r, delta)))
           /\ uncut' = IF v <= noted[r] THEN uncut \cup {r} ELSE uncut
        \/ /\ delta = 0
           /\ Continue(c, Frame("asked", r, delta, <<>>))
           /\ UNCHANGED uncut
     /\ UNCHANGED <<counter, halted, table, used, noted, booked>>

\* requested_volume is written, by adjust_replace or by undo_replace_increase.
Resize(c) ==
  LET f == call[c]
  IN /\ Ready(c, "resize") \/ Ready(c, "undo")
     /\ table' = [table EXCEPT ![probe(f.ref)].requested = @ + f.volume]
     /\ Continue(c, IF f.pc = "undo" THEN Idle ELSE [f EXCEPT !.pc = "asked"])
     /\ UNCHANGED <<counter, halted, used, noted, book>>

\* The order book takes the new volume, which must be more than was filled.
ReplaceTaken(c) ==
  LET r == call[c].ref
  IN /\ Ready(c, "asked")
     /\ Of(r).requested > noted[r]
     /\ booked' = [booked EXCEPT ![r] = Of(r).requested]
     /\ Continue(c, Idle)
     /\ UNCHANGED <<counter, halted, table, used, noted, uncut>>

\* A session, the rate limiter or the order book refuses. The router takes an increase
\* back, measured against the order book's volume; a decrease stays in the ledger.
ReplaceRefused(c) ==
  LET r == call[c].ref
      delta == Of(r).requested - booked[r]
  IN /\ Ready(c, "asked")
     /\ \/ /\ delta > 0
           /\ Continue(c, Frame("undo", r, -delta, Everywhere("open", r, -delta)))
           /\ UNCHANGED uncut
        \/ /\ delta <= 0
           /\ Continue(c, Idle)
           /\ uncut' = IF delta < 0 THEN uncut \cup {r} ELSE uncut
     /\ UNCHANGED <<counter, halted, table, used, noted, booked>>

halt(d) ==
  /\ d \notin halted
  /\ halted' = halted \cup {d}
  /\ UNCHANGED <<counter, table, call, used, noted, book>>

Step(c) == \/ AtomicAdd(c)
           \/ reserve_exposure(c)
           \/ reserve_credit(c)
           \/ allocate_reservation(c)
           \/ free_reservation(c)
           \/ NoteFilled(c)
           \/ Resize(c)
           \/ ReplaceTaken(c)
           \/ ReplaceRefused(c)

\* What the router reads back from the order book: an order it still holds, not yet filled,
\* or the default order, with nothing filled, once it is gone.
Seen(r, f, gone) == IF gone THEN f = 0 ELSE f < booked[r]

Call(c, r) == \/ \E v \in Volumes : reserve(c, r, v) \/ adjust_replace(c, r, v)
              \/ release(c, r)
              \/ \E f \in Volumes \cup {0}, gone \in BOOLEAN :
                   Seen(r, f, gone) /\ reconcile(c, r, f, gone)

Next == \/ \E c \in Callers : Step(c) \/ \E r \in Refs : Call(c, r)
        \/ \E d \in Halting : halt(d)

Spec == Init /\ [][Next]_vars
-----------------------------------------------------------------------------
TypeOK ==
  /\ counter \in [{"open", "position", "credit"} -> [Dims -> Int]]
  /\ halted \subseteq Dims
  /\ \A p \in Slots : table[p] = Void \/ table[p] \in Reservation
  /\ \A p \in Slots : table[p] # Void => table[p].requested <= MaxOrderVolume
  /\ used \subseteq Refs
  /\ noted \in [Refs -> Nat]
  /\ booked \in [Refs -> Nat]
  /\ uncut \subseteq Refs

\* The reservations that no call is working on.
Settled == {p \in Slots : table[p] # Void /\ Quiet(table[p].ref)}

Through(d) == {p \in Settled : d \in ToSet(Path[table[p].ref])}

OpenVolume(d) == SumFunctionOnSet([p \in Through(d) |-> table[p].requested - table[p].filled], Through(d))

CreditHeld(d) == SumFunctionOnSet([p \in Through(d) |-> table[p].credit], Through(d))

Filled(d) == SumFunctionOnSet([r \in Refs |-> Sign[r] * noted[r]], {r \in Refs : d \in ToSet(Path[r])})

\* "Concurrent limits cannot be oversubscribed": whatever calls interleave, the open volume
\* of the reservations that were admitted stays within the limit of every dimension, and
\* their credit within its budget - as long as the order book refuses no decrease.
NeverOversubscribed ==
  uncut = {} => \A d \in Dims :
                  /\ OpenVolume(d) <= OpenLimit[d]
                  /\ CreditHeld(d) <= Budget[d]

AllIdle == \A c \in Callers : call[c] = Idle

\* No failed, undone or released call leaves a trace: between calls every counter is exactly
\* what the reservations in the table, and the fills taken note of, add up to - again unless
\* a decrease was refused by the order book, which spoils the open volume and nothing else.
CountersExact ==
  AllIdle =>
    \A d \in Dims :
      /\ uncut = {} => counter.open[d] = OpenVolume(d)
      /\ counter.credit[d] = Budget[d] - CreditHeld(d)
      /\ counter.position[d] = Filled(d)

\* A refused decrease "self-corrects on that order's next reconcile()/release() call": once
\* nothing is reserved any more no open volume is left, and none is owed.
RefusedDecreaseSelfCorrects ==
  (AllIdle /\ \A p \in Slots : table[p] = Void) => \A d \in Dims : counter.open[d] = 0

\* A reservation can be found, and so released, as long as it is there.
ReservationsFindable ==
  \A p \in Slots : table[p] # Void => probe(table[p].ref) = p
=============================================================================
