---------------------------- MODULE RouterProofs ----------------------------
(***************************************************************************)
(* The pipeline of one venue, for any orders, strategies, quanta, limits,  *)
(* queues and scenarios: open orders stay covered by the ledger, nothing   *)
(* is reserved for an order that is gone, no strategy waits longer than    *)
(* the documented bound, and READY means that book and venue agree.        *)
(***************************************************************************)
EXTENDS Router, SequenceTheorems, DataProofs

LEMMA Bounds ==
  /\ QueueLength \in Nat /\ OpenLimit \in Nat /\ PendingCapacity \in Nat /\ MaxReports \in Nat
  /\ MaxTicks \in Nat
BY RouterAssumption
-----------------------------------------------------------------------------
(* The order book, as far as the pipeline moves it. *)

\* A record that may stand in the book as a live order.
Sound(o) == /\ o \in Order
            /\ reserves_exposure(o.state)
            /\ o.filled_volume <= o.requested_volume
            /\ o.requested_volume > 0

BookInv == OmsTypeOK /\ OrdersSound

LEMMA SoundOrders == BookInv => \A r \in live : r \in Refs /\ Sound(order[r])
BY DEF BookInv, OmsTypeOK, OrdersSound, Sound

LEMMA NoOrderType == NoOrder \in Order
BY DEF NoOrder, NewOrder, Order, OrderStates

\* An order that comes out of a call on the book: it goes on or it is finished, and none of
\* its fills is forgotten.
After(o, p) == /\ p \in Order /\ (is_terminal(p.state) \/ Sound(p))
               /\ p.filled_volume >= o.filled_volume

LEMMA LegalTarget ==
  ASSUME NEW a \in OrderStates, NEW b \in OrderStates, legal(a, b)
  PROVE  is_terminal(b) \/ reserves_exposure(b)
BY DEF legal, Successors, is_terminal, reserves_exposure, Terminal, OrderStates

LEMMA MoveAfter ==
  ASSUME NEW o, Sound(o), NEW s \in OrderStates, legal(o.state, s)
  PROVE  After(o, [o EXCEPT !.state = s])
<1> DEFINE p == [o EXCEPT !.state = s]
<1>1. p \in Order /\ p.state = s /\ p.filled_volume = o.filled_volume
      /\ p.requested_volume = o.requested_volume
  BY DEF Sound, Order
<1>2. is_terminal(s) \/ reserves_exposure(s)
  BY LegalTarget DEF Sound, Order
<1> HIDE DEF p
<1>3. o.filled_volume \in Nat
  BY DEF Sound, Order
<1>4. After(o, p)
  BY <1>1, <1>2, <1>3 DEF After, Sound
<1> QED BY <1>4 DEF p

\* A fill adds volume up to what is open, and keeps it when the state does not allow it.
LEMMA FillAfter ==
  ASSUME NEW o, Sound(o), NEW v \in Nat
  PROVE  After(o, AfterFill(o, v)) /\ (~FillOk(o, v) => AfterFill(o, v).state = o.state)
         /\ AfterFill(o, v).requested_volume = o.requested_volume
<1> DEFINE b == AddFill(o, v)
<1>0. o.filled_volume \in Nat /\ o.requested_volume \in Nat /\ o.state \in OrderStates /\ o \in Order
  BY DEF Sound, Order
<1>1. CASE ~Fillable(o, v)
  BY <1>0, <1>1 DEF AfterFill, After
<1>2. CASE Fillable(o, v)
  <2>1. b \in Order /\ b.state = o.state /\ b.requested_volume = o.requested_volume
        /\ b.filled_volume = o.filled_volume + v /\ b.filled_volume <= b.requested_volume
    BY <1>0, <1>2 DEF Order, AddFill, Fillable, remaining
  <2>2. Sound(b) /\ After(o, b)
    BY <1>0, <2>1 DEF Sound, After
  <2>3. CASE ~legal(o.state, FillTarget(b))
    BY <1>2, <2>1, <2>2, <2>3 DEF AfterFill
  <2>4. CASE legal(o.state, FillTarget(b))
    <3>1. FillTarget(b) \in OrderStates
      BY DEF FillTarget, OrderStates
    <3>2. AfterFill(o, v) = [b EXCEPT !.state = FillTarget(b)]
      BY <1>2, <2>4 DEF AfterFill
    <3>3. After(b, [b EXCEPT !.state = FillTarget(b)])
      BY <2>1, <2>2, <2>4, <3>1, MoveAfter
    <3>4. FillOk(o, v)
      BY <1>2, <2>4 DEF FillOk
    <3>5. [b EXCEPT !.state = FillTarget(b)].requested_volume = b.requested_volume
      BY <2>1 DEF Order
    <3> HIDE DEF b
    <3>6. AfterFill(o, v).filled_volume \in Nat
      BY <3>2, <3>3 DEF After, Order
    <3> QED BY <1>0, <2>1, <3>2, <3>3, <3>4, <3>5, <3>6 DEF After
  <2> QED BY <2>3, <2>4
<1> QED BY <1>1, <1>2

Report == [kind : Kinds, volume : Nat]

\* What a report does to a live order. A refused one does not end it.
LEMMA ReportAfter ==
  ASSUME NEW o, Sound(o), NEW rep \in Report
  PROVE  /\ After(o, Result(o, rep))
         /\ ~Accepts(o, rep) => /\ Sound(Result(o, rep))
                                /\ Result(o, rep).requested_volume = o.requested_volume
                                /\ Result(o, rep).state = o.state
<1>0. o.filled_volume \in Nat /\ o.requested_volume \in Nat /\ o.state \in OrderStates /\ o \in Order
      /\ ~is_terminal(o.state) /\ rep.volume \in Nat /\ rep.kind \in Kinds
  BY DEF Sound, Order, reserves_exposure, Report
<1>1. CASE rep.kind = "fill"
  <2>1. Result(o, rep) = AfterFill(o, rep.volume) /\ Accepts(o, rep) = FillOk(o, rep.volume)
    BY <1>1 DEF Result, Accepts
  <2> QED BY <1>0, <2>1, FillAfter DEF After
<1>2. CASE rep.kind # "fill" /\ ~Accepts(o, rep)
  <2>1. Result(o, rep) = o
    BY <1>2 DEF Result
  <2> QED BY <1>0, <2>1 DEF After
<1>3. CASE rep.kind = "replace_ack" /\ Accepts(o, rep)
  <2>1. Result(o, rep) = [o EXCEPT !.requested_volume = rep.volume] /\ Replaceable(o, rep.volume)
    BY <1>3 DEF Result, Accepts
  <2> QED BY <1>0, <1>3, <2>1 DEF After, Sound, Order, Replaceable
<1>4. CASE rep.kind \notin {"fill", "replace_ack"} /\ Accepts(o, rep)
  <2>1. Result(o, rep) = [o EXCEPT !.state = ReportTarget(rep.kind)]
    BY <1>4 DEF Result
  <2>2. legal(o.state, ReportTarget(rep.kind)) /\ ReportTarget(rep.kind) \in OrderStates
    BY <1>0, <1>4 DEF Accepts, ReportTarget, Kinds, OrderStates
  <2> QED BY <1>0, <1>4, <2>1, <2>2, MoveAfter
<1> QED BY <1>1, <1>2, <1>3, <1>4

\* What Settle leaves in the book.
LEMMA SettleBook ==
  ASSUME BookInv, NEW r \in live, NEW o, After(order[r], o), Settle(r, o)
  PROVE  /\ BookInv'
         /\ is_terminal(o.state) => live' = live \ {r} /\ order'[r] = NoOrder
         /\ ~is_terminal(o.state) => live' = live /\ order'[r] = o /\ Sound(o)
         /\ \A x \in Refs \ {r} : order'[x] = order[x]
<1>1. r \in Refs /\ order \in [Refs -> Order] /\ o \in Order /\ reserved \in Int
  BY DEF BookInv, OmsTypeOK, After
<1>2. reserved' \in Int
  BY <1>1 DEF Settle, Released, Order
<1>3. live' \subseteq live /\ order' \in [Refs -> Order]
  BY <1>1, NoOrderType DEF Settle
<1>4. /\ is_terminal(o.state) => live' = live \ {r} /\ order'[r] = NoOrder
      /\ ~is_terminal(o.state) => live' = live /\ order'[r] = o /\ Sound(o)
      /\ \A x \in Refs \ {r} : order'[x] = order[x]
  BY <1>1 DEF Settle, Reclaims, After
<1>5. ASSUME NEW x \in live' PROVE Sound(order'[x])
  <2>1. x \in live /\ x \in Refs
    BY <1>3, <1>5 DEF BookInv, OmsTypeOK
  <2>2. CASE x = r
    BY <1>4, <1>5, <2>2
  <2>3. CASE x # r
    BY <1>4, <2>1, <2>3, SoundOrders
  <2> QED BY <2>2, <2>3
<1>6. live' \subseteq Refs
  BY <1>3 DEF BookInv, OmsTypeOK
<1> QED BY <1>2, <1>3, <1>4, <1>5, <1>6 DEF BookInv, OmsTypeOK, OrdersSound, Sound

\* The states of a cascade on order r: while it goes on the order is live.
Cascading(r) == {a \in [order : Order, go : BOOLEAN, taken : SUBSET (Refs \X Nat)] :
                   After(order[r], a.order) /\ (a.go => Sound(a.order))}

LEMMA FollowStep ==
  ASSUME NEW r \in Refs, NEW n \in Nat, NEW a \in Cascading(r), NEW k \in Nat,
         venue[r].log[k] \in Report, Sound(order[r])
  PROVE  Follow(r, n, a, k) \in Cascading(r)
<1> DEFINE rep == venue[r].log[k]
           next == Result(a.order, rep)
<1>0. a.order \in Order /\ a.go \in BOOLEAN /\ a.taken \in SUBSET (Refs \X Nat)
      /\ After(order[r], a.order) /\ (a.go => Sound(a.order))
  BY DEF Cascading
<1>1. CASE ~a.go \/ (k # n /\ <<r, k>> \notin held)
  <2>1. Follow(r, n, a, k) = [a EXCEPT !.go = FALSE]
    BY <1>1 DEF Follow
  <2>2. [a EXCEPT !.go = FALSE] \in Cascading(r)
    BY <1>0 DEF Cascading
  <2> QED BY <2>1, <2>2
<1>2. CASE a.go /\ (k = n \/ <<r, k>> \in held)
  <2>1. Sound(a.order) /\ rep \in Report
    BY <1>0, <1>2
  <2>2. /\ After(a.order, next)
        /\ ~Accepts(a.order, rep) => Sound(next)
    BY <2>1, ReportAfter
  <2>3. After(order[r], next)
    <3>1. order[r].filled_volume \in Nat /\ a.order.filled_volume \in Nat /\ next.filled_volume \in Nat
      BY <1>0, <2>2 DEF Sound, Order, After
    <3> QED BY <1>0, <2>2, <3>1 DEF After
  <2>4. a.taken \cup {<<r, k>>} \in SUBSET (Refs \X Nat)
    BY <1>0
  <2>5. CASE Accepts(a.order, rep)
    <3> DEFINE p == Stamp(next, k)
    <3>1. Follow(r, n, a, k) = [order |-> p, go |-> ~is_terminal(next.state),
                                taken |-> a.taken \cup {<<r, k>>}]
      BY <1>2, <2>5 DEF Follow
    <3>2. p \in Order /\ p.state = next.state /\ p.filled_volume = next.filled_volume
          /\ p.requested_volume = next.requested_volume
      BY <2>3 DEF Stamp, Order, After
    <3>3. After(order[r], p) /\ (~is_terminal(next.state) => Sound(p))
      BY <2>3, <3>2 DEF After, Sound
    <3> HIDE DEF p
    <3>4. CASE is_terminal(next.state)
      <4>1. Follow(r, n, a, k) = [order |-> p, go |-> FALSE, taken |-> a.taken \cup {<<r, k>>}]
        BY <3>1, <3>4
      <4> QED BY <2>4, <3>2, <3>3, <4>1 DEF Cascading
    <3>5. CASE ~is_terminal(next.state)
      <4>1. Follow(r, n, a, k) = [order |-> p, go |-> TRUE, taken |-> a.taken \cup {<<r, k>>}]
        BY <3>1, <3>5
      <4> QED BY <2>4, <3>2, <3>3, <3>5, <4>1 DEF Cascading
    <3> QED BY <3>4, <3>5
  <2>6. CASE ~Accepts(a.order, rep)
    <3>1. Follow(r, n, a, k) = [order |-> next, go |-> FALSE, taken |-> a.taken \cup {<<r, k>>}]
      BY <1>2, <2>6 DEF Follow
    <3>2. next \in Order
      BY <2>3 DEF After
    <3> HIDE DEF next
    <3> QED BY <2>3, <2>4, <3>1, <3>2 DEF Cascading
  <2> QED BY <2>5, <2>6
<1> QED BY <1>1, <1>2

\* A cascade is a chain of such states.
LEMMA CascadeSteps ==
  ASSUME NEW r \in Refs, venue[r].log \in Seq(Report), NEW n \in 1 .. Len(venue[r].log), Sound(order[r])
  PROVE  \E m \in Nat \ {0}, c \in [Nat -> Cascading(r)] :
           /\ Cascade(r, n) = c[m]
           /\ c[0] = [order |-> order[r], go |-> TRUE, taken |-> {}]
           /\ \A i \in 1 .. m : c[i] = Follow(r, n, c[i-1], n + i - 1)
<1> DEFINE m == Len(venue[r].log) - n + 1
           start == [order |-> order[r], go |-> TRUE, taken |-> {}]
           D == Cascading(r)
           P(f) == f = [i \in 0 .. m |-> IF i = 0 THEN start ELSE Follow(r, n, f[i-1], n + i - 1)]
           step == [i \in Nat |-> [a \in D |-> IF i \in 1 .. m THEN Follow(r, n, a, n + i - 1) ELSE a]]
           c == CHOOSE f : P(f)
<1>0. m \in Nat \ {0} /\ n \in Nat
  OBVIOUS
<1>1. start \in D
  <2>1. order[r] \in Order /\ order[r].filled_volume \in Nat /\ After(order[r], order[r])
    BY DEF Sound, Order, After
  <2> QED BY <2>1 DEF Cascading
<1>2. ASSUME NEW i \in 1 .. m, NEW a \in D PROVE Follow(r, n, a, n + i - 1) \in D
  <2>1. n + i - 1 \in 1 .. Len(venue[r].log)
    BY <1>0
  <2>2. venue[r].log[n + i - 1] \in Report /\ n + i - 1 \in Nat
    BY <2>1, ElementOfSeq
  <2> HIDE DEF m
  <2> QED BY <2>2, FollowStep
<1> HIDE DEF D
<1>3. step \in [Nat -> [D -> D]]
  BY <1>2
<1>4. \E f : P(f)
  <2> HIDE DEF start, m
  <2>1. \A i \in Nat : \A a \in D : i \in 1 .. m => step[i][a] = Follow(r, n, a, n + i - 1)
    OBVIOUS
  <2> HIDE DEF step
  <2>2. PICK f \in [0 .. m -> D] : Steps(f, m, start, step)
    BY <1>0, <1>1, <1>3, StepsExist
  <2>3. ASSUME NEW i \in 0 .. m, i # 0 PROVE step[i][f[i-1]] = Follow(r, n, f[i-1], n + i - 1)
    <3>1. i \in Nat /\ i \in 1 .. m /\ i - 1 \in 0 .. m /\ f[i-1] \in D
      BY <1>0, <2>2, <2>3
    <3> QED BY <2>1, <3>1
  <2>4. P(f)
    BY <2>2, <2>3 DEF Steps
  <2> QED BY <2>4
<1>5. P(c)
  BY <1>4
<1>6. Cascade(r, n) = c[m]
  BY DEF Cascade
<1> HIDE DEF c
<1>7. c[0] = start /\ \A i \in 1 .. m : c[i] = Follow(r, n, c[i-1], n + i - 1)
  <2> HIDE DEF m, start
  <2> QED BY <1>0, <1>5
<1> DEFINE B == {i \in 0 .. m : c[i] \in D}
<1>8. 0 .. m \subseteq B
  <2> HIDE DEF m, start
  <2>1. 0 \in B
    BY <1>0, <1>1, <1>7
  <2>2. ASSUME NEW i \in 0 .. m, i < m /\ i \in B PROVE i + 1 \in B
    <3>1. i + 1 \in 1 .. m /\ (i + 1) - 1 = i /\ c[i] \in D
      BY <1>0, <2>2
    <3>2. c[i + 1] = Follow(r, n, c[i], n + (i + 1) - 1)
      BY <1>7, <3>1
    <3>3. Follow(r, n, c[i], n + (i + 1) - 1) \in D
      BY <1>2, <3>1
    <3> QED BY <1>0, <3>1, <3>2, <3>3
  <2> HIDE DEF B
  <2> QED BY <1>0, <2>1, <2>2, InductUpTo
<1> DEFINE d == [i \in Nat |-> IF i <= m THEN c[i] ELSE start]
<1>9. d \in [Nat -> D] /\ \A i \in 0 .. m : d[i] = c[i]
  <2> HIDE DEF m, start
  <2> QED BY <1>0, <1>1, <1>8
<1>10. d[0] = start /\ d[m] = c[m] /\ \A i \in 1 .. m : d[i] = Follow(r, n, d[i-1], n + i - 1)
  <2> HIDE DEF m, start, d
  <2> QED BY <1>0, <1>7, <1>9
<1> HIDE DEF m, start, d
<1> QED BY <1>0, <1>6, <1>9, <1>10 DEF D, start

LEMMA CascadeResult ==
  ASSUME NEW r \in Refs, venue[r].log \in Seq(Report), NEW n \in 1 .. Len(venue[r].log), Sound(order[r])
  PROVE  Cascade(r, n) \in Cascading(r)
<1>1. PICK m \in Nat \ {0}, c \in [Nat -> Cascading(r)] : Cascade(r, n) = c[m]
  BY CascadeSteps
<1> QED BY <1>1

LEMMA FilledTyped ==
  ASSUME NEW o \in Order, NEW v \in Nat
  PROVE  AddFill(o, v) \in Order
BY DEF AddFill, Order

\* Reports take an unknown order nowhere but out of the book.
LEMMA UnknownEnds ==
  ASSUME NEW r \in Refs, venue[r].log \in Seq(Report), NEW n \in 1 .. Len(venue[r].log),
         Sound(order[r]), order[r].state = "unknown", Accepts(order[r], venue[r].log[n])
  PROVE  is_terminal(Cascade(r, n).order.state)
<1>1. PICK m \in Nat \ {0}, c \in [Nat -> Cascading(r)] :
           /\ Cascade(r, n) = c[m]
           /\ c[0] = [order |-> order[r], go |-> TRUE, taken |-> {}]
           /\ \A i \in 1 .. m : c[i] = Follow(r, n, c[i-1], n + i - 1)
  BY CascadeSteps
<1> DEFINE rep == venue[r].log[n]
           p == Result(order[r], rep)
           B == {i \in 0 .. m : i > 0 => ~c[i].go /\ is_terminal(c[i].order.state)}
<1>2. rep \in Report /\ After(order[r], p)
  BY ElementOfSeq, ReportAfter
<1>3. is_terminal(p.state)
  <2>1. rep.kind \in Kinds /\ Successors("unknown") = Terminal
    BY <1>2 DEF Report, Successors
  <2>2. CASE rep.kind = "fill"
    <3>1. FillOk(order[r], rep.volume) /\ p = AfterFill(order[r], rep.volume)
      BY <2>2 DEF Accepts, Result
    <3>2. PICK b : b = AddFill(order[r], rep.volume)
      OBVIOUS
    <3>3. legal("unknown", FillTarget(b)) /\ p = [b EXCEPT !.state = FillTarget(b)]
      BY <3>1, <3>2 DEF FillOk, AfterFill
    <3>4. order[r] \in Order /\ rep.volume \in Nat
      BY <1>2 DEF Sound, Report
    <3>5. b \in Order
      BY <3>2, <3>4, FilledTyped
    <3> QED BY <2>1, <3>3, <3>5 DEF legal, is_terminal, Order
  <2>3. CASE rep.kind = "replace_ack"
    BY <2>3 DEF Accepts, Replaceable
  <2>4. CASE rep.kind \notin {"fill", "replace_ack"}
    <3>1. legal("unknown", ReportTarget(rep.kind)) /\ p = [order[r] EXCEPT !.state = ReportTarget(rep.kind)]
      BY <2>4 DEF Accepts, Result
    <3> QED BY <2>1, <3>1 DEF legal, is_terminal, Sound, Order
  <2> QED BY <2>2, <2>3, <2>4
<1>4. 0 \in B
  OBVIOUS
<1>5. ASSUME NEW i \in 0 .. m, i < m /\ i \in B PROVE i + 1 \in B
  <2>1. i + 1 \in 1 .. m /\ (i + 1) - 1 = i /\ c[i] \in Cascading(r) /\ n \in Nat
    BY <1>5
  <2>2. c[i + 1] = Follow(r, n, c[i], n + i)
    <3>1. c[i + 1] = Follow(r, n, c[i], n + (i + 1) - 1) /\ n + (i + 1) - 1 = n + i
      BY <1>1, <2>1
    <3> QED BY <3>1
  <2>3. CASE i = 0
    <3>1. c[i].go /\ c[i].order = order[r] /\ n + i = n
      BY <1>1, <2>1, <2>3
    <3>2. c[i + 1] = [order |-> Stamp(p, n), go |-> ~is_terminal(p.state), taken |-> c[i].taken \cup {<<r, n>>}]
      BY <2>2, <3>1 DEF Follow
    <3>3. Stamp(p, n).state = p.state
      BY <1>2 DEF Stamp, After, Order
    <3>4. c[i + 1].order = Stamp(p, n) /\ ~c[i + 1].go
      <4>1. c[i + 1] = [order |-> Stamp(p, n), go |-> FALSE, taken |-> c[i].taken \cup {<<r, n>>}]
        BY <1>3, <3>2
      <4> QED BY <4>1
    <3>5. is_terminal(c[i + 1].order.state)
      BY <1>3, <3>3, <3>4
    <3> QED BY <2>1, <3>4, <3>5
  <2>4. CASE i > 0
    <3>1. ~c[i].go /\ is_terminal(c[i].order.state)
      BY <1>5, <2>4
    <3>2. c[i + 1] = [c[i] EXCEPT !.go = FALSE]
      BY <2>2, <3>1 DEF Follow
    <3>3. ~c[i + 1].go /\ c[i + 1].order = c[i].order
      BY <2>1, <3>2 DEF Cascading
    <3> QED BY <2>1, <3>1, <3>3
  <2> QED BY <2>3, <2>4
<1>6. 0 .. m \subseteq B
  <2> HIDE DEF B
  <2> QED BY <1>4, <1>5, InductUpTo
<1>7. is_terminal(c[m].order.state)
  BY <1>6
<1> QED BY <1>1, <1>7
-----------------------------------------------------------------------------
(* The ledger. *)

Own(l, r) == l.res[r].requested - l.res[r].filled

\* The open-exposure counter is what the reservations have open between them.
Exact(l) == l.open = SumFunctionOnSet([r \in Refs |-> Own(l, r)], Refs)

\* The step from l to k is about the reservation of r alone.
OnlyOf(r, l, k) == k \in Ledger /\ \A x \in Refs \ {r} : k.res[x] = l.res[x]

LEMMA OwnInt ==
  ASSUME NEW l \in Ledger
  PROVE  \A r \in Refs : Own(l, r) \in Int
BY DEF Own, Ledger

LEMMA StaysExact ==
  ASSUME NEW l \in Ledger, NEW k, NEW r \in Refs, OnlyOf(r, l, k), Exact(l),
         k.open = l.open + Own(k, r) - Own(l, r)
  PROVE  Exact(k)
<1> DEFINE f == [x \in Refs |-> Own(l, x)]
           g == [x \in Refs |-> Own(k, x)]
<1>1. \A x \in Refs : f[x] \in Int /\ g[x] \in Int
  BY OwnInt DEF OnlyOf
<1>2. \A x \in Refs \ {r} : f[x] = g[x]
  BY DEF OnlyOf, Own
<1>3. f[r] = Own(l, r) /\ g[r] = Own(k, r)
  OBVIOUS
<1>4. IsFiniteSet(Refs)
  BY RouterAssumption
<1> HIDE DEF f, g
<1>5. SumFunctionOnSet(g, Refs) = SumFunctionOnSet(f, Refs) + g[r] - f[r]
  BY <1>1, <1>2, <1>4, SumChange
<1>6. l.open = SumFunctionOnSet(f, Refs)
  BY DEF Exact, f
<1>7. k.open = SumFunctionOnSet(g, Refs)
  BY <1>3, <1>5, <1>6
<1> QED BY <1>7 DEF Exact, g

Entry == [active : BOOLEAN, requested : Int, filled : Int]

\* A ledger with another reservation for r and other counters. (The provers do not follow an
\* update of a nested field and a sum in one step.)
EntrySet(k, l, r, e, o) == k = [l EXCEPT !.res[r] = e, !.open = o]
FilledSet(k, l, r, f, o, p) == k = [l EXCEPT !.res[r].filled = f, !.open = o, !.position = p]
RequestedSet(k, l, r, v, o) == k = [l EXCEPT !.res[r].requested = v, !.open = o]

LEMMA EntrySetEffect ==
  ASSUME NEW l \in Ledger, NEW r \in Refs, NEW e \in Entry, NEW o \in Int, NEW k, EntrySet(k, l, r, e, o)
  PROVE  OnlyOf(r, l, k) /\ k.res[r] = e /\ k.open = o
BY DEF OnlyOf, Ledger, Entry, EntrySet

LEMMA FilledSetEffect ==
  ASSUME NEW l \in Ledger, NEW r \in Refs, NEW f \in Int, NEW o \in Int, NEW p \in Int, NEW k,
         FilledSet(k, l, r, f, o, p)
  PROVE  /\ OnlyOf(r, l, k) /\ k.open = o /\ k.res[r].filled = f
         /\ k.res[r].requested = l.res[r].requested /\ k.res[r].active = l.res[r].active
BY DEF OnlyOf, Ledger, FilledSet

LEMMA RequestedSetEffect ==
  ASSUME NEW l \in Ledger, NEW r \in Refs, NEW v \in Int, NEW o \in Int, NEW k,
         RequestedSet(k, l, r, v, o)
  PROVE  /\ OnlyOf(r, l, k) /\ k.open = o /\ k.res[r].requested = v
         /\ k.res[r].filled = l.res[r].filled /\ k.res[r].active = l.res[r].active
BY DEF OnlyOf, Ledger, RequestedSet

LEMMA LedgerParts ==
  ASSUME NEW l \in Ledger, NEW r \in Refs
  PROVE  /\ l.res[r] \in Entry /\ l.open \in Int /\ l.position \in Int
         /\ l.res[r].active \in BOOLEAN /\ l.res[r].requested \in Int /\ l.res[r].filled \in Int
BY DEF Ledger, Entry

LEMMA ReserveEffect ==
  ASSUME NEW l \in Ledger, NEW r \in Refs, NEW v \in Nat
  PROVE  /\ OnlyOf(r, l, G!reserve(l, r, v)) /\ G!reserve(l, r, v).res[r] = G!Reservation(v, 0)
         /\ G!reserve(l, r, v).open = l.open + v
<1>1. G!Reservation(v, 0) \in Entry /\ l.open + v \in Int
  BY LedgerParts DEF G!Reservation, Entry
<1>2. PICK e, o : e = G!Reservation(v, 0) /\ o = l.open + v
  OBVIOUS
<1>3. EntrySet(G!reserve(l, r, v), l, r, e, o)
  BY <1>2 DEF G!reserve, EntrySet
<1> QED BY <1>1, <1>2, <1>3, EntrySetEffect

LEMMA ReleaseEffect ==
  ASSUME NEW l \in Ledger, NEW r \in Refs
  PROVE  /\ OnlyOf(r, l, G!release(l, r)) /\ ~G!Held(G!release(l, r), r)
         /\ G!release(l, r).res[r] = IF G!Held(l, r) THEN G!NoRes ELSE l.res[r]
         /\ G!Held(l, r) /\ Own(l, r) >= 0 => G!release(l, r).open = l.open - Own(l, r)
<1>1. G!NoRes \in Entry /\ Own(l, r) \in Int /\ l.open \in Int /\ ~G!NoRes.active
  BY LedgerParts DEF G!NoRes, Entry, Own
<1>2. CASE G!Held(l, r)
  <2>1. PICK o : o = IF Own(l, r) > 0 THEN l.open - Own(l, r) ELSE l.open
    OBVIOUS
  <2>2. o \in Int /\ (Own(l, r) >= 0 => o = l.open - Own(l, r))
    BY <1>1, <2>1
  <2>3. EntrySet(G!release(l, r), l, r, G!NoRes, o)
    BY <1>2, <2>1 DEF G!release, Own, EntrySet
  <2>4. OnlyOf(r, l, G!release(l, r)) /\ G!release(l, r).res[r] = G!NoRes /\ G!release(l, r).open = o
    BY <1>1, <2>2, <2>3, EntrySetEffect
  <2>5. ~G!Held(G!release(l, r), r)
    BY <1>1, <2>4 DEF G!Held
  <2> QED BY <1>2, <2>2, <2>4, <2>5
<1>3. CASE ~G!Held(l, r)
  <2>1. G!release(l, r) = l
    BY <1>3 DEF G!release
  <2> QED BY <1>3, <2>1 DEF OnlyOf
<1> QED BY <1>2, <1>3

LEMMA NotedEffect ==
  ASSUME NEW l \in Ledger, NEW r \in Refs, NEW f \in Nat, NEW sign \in Int
  PROVE  /\ OnlyOf(r, l, G!Noted(l, r, f, sign))
         /\ G!Noted(l, r, f, sign).res[r].active = l.res[r].active
         /\ G!Noted(l, r, f, sign).res[r].requested = l.res[r].requested
         /\ G!Noted(l, r, f, sign).res[r].filled = IF f > l.res[r].filled THEN f ELSE l.res[r].filled
         /\ G!Noted(l, r, f, sign).open = l.open + Own(G!Noted(l, r, f, sign), r) - Own(l, r)
<1>1. l.position \in Int /\ l.open \in Int /\ l.res[r].filled \in Int /\ l.res[r].requested \in Int
      /\ l.res[r] \in Entry
  BY LedgerParts
<1>2. PICK delta : delta = f - l.res[r].filled
  OBVIOUS
<1>3. PICK k : k = G!Noted(l, r, f, sign)
  OBVIOUS
<1>4. CASE delta > 0
  <2>1. PICK o, p : o = l.open - delta /\ p = l.position + sign * delta
    OBVIOUS
  <2>2. o \in Int /\ p \in Int /\ f > l.res[r].filled
    BY <1>1, <1>2, <1>4, <2>1
  <2>3. FilledSet(k, l, r, f, o, p)
    <3>1. ~(delta <= 0)
      BY <1>1, <1>2, <1>4
    <3> QED BY <1>2, <1>3, <2>1, <3>1, Zenon DEF G!Noted, FilledSet
  <2>4. /\ OnlyOf(r, l, k) /\ k.open = o /\ k.res[r].filled = f
        /\ k.res[r].requested = l.res[r].requested /\ k.res[r].active = l.res[r].active
    BY <2>2, <2>3, FilledSetEffect
  <2>5. k.open = l.open + Own(k, r) - Own(l, r)
    BY <1>1, <1>2, <2>1, <2>4 DEF Own
  <2> QED BY <1>3, <2>2, <2>4, <2>5
<1>5. CASE ~(delta > 0)
  <2>1. k = l /\ ~(f > l.res[r].filled)
    BY <1>1, <1>2, <1>3, <1>5 DEF G!Noted
  <2> QED BY <1>1, <1>3, <2>1 DEF OnlyOf, Own
<1> QED BY <1>2, <1>4, <1>5

LEMMA ResizedEffect ==
  ASSUME NEW l \in Ledger, NEW r \in Refs, NEW delta \in Int
  PROVE  /\ OnlyOf(r, l, G!Resized(l, r, delta))
         /\ G!Resized(l, r, delta).res[r].active = l.res[r].active
         /\ G!Resized(l, r, delta).res[r].requested = l.res[r].requested + delta
         /\ G!Resized(l, r, delta).res[r].filled = l.res[r].filled
         /\ G!Resized(l, r, delta).open = l.open + Own(G!Resized(l, r, delta), r) - Own(l, r)
<1>1. l.open \in Int /\ l.res[r].filled \in Int /\ l.res[r].requested \in Int /\ l.res[r] \in Entry
  BY LedgerParts
<1>2. PICK k, v, o : k = G!Resized(l, r, delta) /\ v = l.res[r].requested + delta /\ o = l.open + delta
  OBVIOUS
<1>3. v \in Int /\ o \in Int
  BY <1>1, <1>2
<1>4. RequestedSet(k, l, r, v, o)
  BY <1>2 DEF G!Resized, RequestedSet
<1>5. /\ OnlyOf(r, l, k) /\ k.open = o /\ k.res[r].requested = v
      /\ k.res[r].filled = l.res[r].filled /\ k.res[r].active = l.res[r].active
  BY <1>3, <1>4, RequestedSetEffect
<1>6. k.open = l.open + Own(k, r) - Own(l, r)
  BY <1>1, <1>2, <1>5 DEF Own
<1> QED BY <1>2, <1>5, <1>6

LEMMA OnlyOfTwice ==
  ASSUME NEW l, NEW k, NEW m, NEW r, OnlyOf(r, l, k), OnlyOf(r, k, m)
  PROVE  OnlyOf(r, l, m)
BY DEF OnlyOf

LEMMA ReconcileEffect ==
  ASSUME NEW l \in Ledger, NEW r \in Refs, NEW f \in Nat, NEW gone, NEW sign \in Int
  PROVE  LET k == G!reconcile(l, r, f, gone, sign)
         IN /\ OnlyOf(r, l, k)
            /\ ~G!Held(l, r) => k = l
            /\ G!Held(l, r) /\ gone =>
                 /\ ~G!Held(k, r) /\ k.res[r] = G!NoRes
                 /\ l.res[r].filled <= l.res[r].requested /\ f <= l.res[r].requested
                    => k.open = l.open + Own(k, r) - Own(l, r)
            /\ G!Held(l, r) /\ ~gone =>
                 /\ k.res[r].active = l.res[r].active
                 /\ k.res[r].requested = l.res[r].requested
                 /\ k.res[r].filled = IF f > l.res[r].filled THEN f ELSE l.res[r].filled
                 /\ k.open = l.open + Own(k, r) - Own(l, r)
<1>1. PICK k : k = G!reconcile(l, r, f, gone, sign)
  OBVIOUS
<1>2. CASE ~G!Held(l, r)
  <2>1. k = l /\ OnlyOf(r, l, k)
    BY <1>1, <1>2 DEF G!reconcile, OnlyOf
  <2> QED BY <1>1, <1>2, <2>1
<1>3. CASE G!Held(l, r)
  <2>1. PICK m : m = G!Noted(l, r, f, sign)
    OBVIOUS
  <2>2. /\ OnlyOf(r, l, m) /\ m.res[r].active = l.res[r].active
        /\ m.res[r].requested = l.res[r].requested
        /\ m.res[r].filled = IF f > l.res[r].filled THEN f ELSE l.res[r].filled
        /\ m.open = l.open + Own(m, r) - Own(l, r)
    BY <2>1, NotedEffect
  <2>3. CASE ~gone
    <3>1. k = m
      BY <1>1, <1>3, <2>1, <2>3 DEF G!reconcile
    <3> QED BY <1>1, <1>3, <2>2, <2>3, <3>1
  <2>4. CASE gone
    <3>1. k = G!release(m, r)
      BY <1>1, <1>3, <2>1, <2>4 DEF G!reconcile
    <3>2. m \in Ledger /\ G!Held(m, r)
      BY <1>3, <2>2 DEF OnlyOf, G!Held
    <3>3. /\ OnlyOf(r, m, k) /\ ~G!Held(k, r) /\ k.res[r] = G!NoRes
          /\ Own(m, r) >= 0 => k.open = m.open - Own(m, r)
      BY <3>1, <3>2, ReleaseEffect
    <3>4. OnlyOf(r, l, k)
      BY <2>2, <3>3, OnlyOfTwice
    <3>5. ASSUME l.res[r].filled <= l.res[r].requested, f <= l.res[r].requested
          PROVE  k.open = l.open + Own(k, r) - Own(l, r)
      <4>1. l.res[r].filled \in Int /\ l.res[r].requested \in Int /\ l.open \in Int /\ Own(l, r) \in Int
        BY LedgerParts DEF Own
      <4>2. Own(m, r) >= 0 /\ Own(m, r) \in Int
        BY <2>2, <3>5, <4>1 DEF Own
      <4>3. Own(k, r) = 0
        BY <3>3 DEF Own, G!NoRes
      <4> QED BY <2>2, <3>3, <4>1, <4>2, <4>3
    <3> QED BY <1>1, <1>3, <2>4, <3>3, <3>4, <3>5
  <2> QED BY <2>3, <2>4
<1> QED BY <1>2, <1>3
-----------------------------------------------------------------------------
(* A report in the book. *)

LEMMA VenueParts ==
  ASSUME TypeOK, NEW r \in Refs
  PROVE  venue[r].log \in Seq(Report) /\ Len(venue[r].log) \in 0 .. MaxReports /\ venue[r] \in VenueView
<1>1. venue[r] \in VenueView /\ Len(venue[r].log) <= MaxReports
  BY DEF TypeOK
<1>2. venue[r].log \in Seq(Report)
  BY <1>1 DEF VenueView, Report
<1>3. Len(venue[r].log) \in Nat
  BY <1>2, LenProperties
<1> QED BY <1>1, <1>2, <1>3, Bounds

\* What process() does to the book: it applies the report and those it set free, or adds the
\* volume of a fill it refuses, or leaves the book alone.
LEMMA ProcessBook ==
  ASSUME TypeOK, OrdersSound, NEW r \in Refs, NEW n \in 1 .. Len(venue[r].log), process(r, n)
  PROVE  \/ /\ Outcome(r, n) = "applied" /\ r \in live
            /\ Settle(r, Cascade(r, n).order) /\ After(order[r], Cascade(r, n).order)
         \/ /\ Outcome(r, n) = "illegal" /\ r \in live
            /\ LET o == Result(order[r], venue[r].log[n])
               IN Settle(r, o) /\ After(order[r], o) /\ Sound(o)
                  /\ o.requested_volume = order[r].requested_volume /\ o.state = order[r].state
         \/ Outcome(r, n) \notin {"applied", "illegal"} /\ UNCHANGED omsVars
<1>1. venue[r].log \in Seq(Report) /\ venue[r].log[n] \in Report
  BY VenueParts, ElementOfSeq
<1>2. BookInv
  BY DEF BookInv, TypeOK
<1>3. CASE Outcome(r, n) = "applied"
  <2>1. r \in live /\ Sound(order[r]) /\ Settle(r, Cascade(r, n).order)
    BY <1>2, <1>3, SoundOrders DEF Outcome, process
  <2>2. Cascade(r, n) \in Cascading(r)
    BY <1>1, <2>1, CascadeResult
  <2> QED BY <1>3, <2>1, <2>2 DEF Cascading
<1>4. CASE Outcome(r, n) = "illegal"
  <2>1. /\ r \in live /\ Sound(order[r]) /\ Settle(r, Result(order[r], venue[r].log[n]))
        /\ ~Accepts(order[r], venue[r].log[n])
    BY <1>2, <1>4, SoundOrders DEF Outcome, process
  <2> QED BY <1>1, <1>4, <2>1, ReportAfter
<1>5. CASE Outcome(r, n) \notin {"applied", "illegal"}
  BY <1>5 DEF process
<1> QED BY <1>3, <1>4, <1>5
-----------------------------------------------------------------------------
(* Types. *)

LEMMA RequestParts ==
  ASSUME NEW q \in Request
  PROVE  /\ q.kind \in G!RateLimitKinds /\ q.ref \in Refs /\ q.volume \in Nat
         /\ q.kind # "cancel" => q.volume \in Volumes /\ q.volume > 0
         /\ Owner[q.ref] \in Strategies
<1>1. CASE q \in [kind : {"order", "replace"}, ref : Refs, volume : Volumes]
  <2>1. q.kind \in {"order", "replace"} /\ q.ref \in Refs /\ q.volume \in Volumes
    BY <1>1
  <2>2. q.volume \in Nat /\ q.volume > 0
    <3>1. \A v \in Volumes : v \in Nat /\ v > 0
      BY OmsAssumption
    <3> QED BY <2>1, <3>1
  <2> QED BY <2>1, <2>2, RouterAssumption DEF G!RateLimitKinds
<1>2. CASE q \in [kind : {"cancel"}, ref : Refs, volume : {0}]
  <2>1. q.kind = "cancel" /\ q.ref \in Refs /\ q.volume = 0
    BY <1>2
  <2> QED BY <2>1, RouterAssumption DEF G!RateLimitKinds
<1> QED BY <1>1, <1>2 DEF Request

\* A queue that grows by one or loses its head.
LEMMA Appended ==
  ASSUME NEW S, NEW q \in Seq(S), NEW x \in S
  PROVE  Append(q, x) \in Seq(S) /\ Len(Append(q, x)) = Len(q) + 1 /\ Len(q) \in Nat
BY AppendProperties, LenProperties

LEMMA Served1 ==
  ASSUME NEW S, NEW q \in Seq(S), q # <<>>
  PROVE  Head(q) \in S /\ Tail(q) \in Seq(S) /\ Len(Tail(q)) = Len(q) - 1 /\ Len(q) \in Nat
BY HeadTailProperties, LenProperties

\* Counting modulo the number of strategies, from one of them on.
LEMMA Ring ==
  ASSUME NEW c \in Strategies, NEW k \in Strategies
  PROVE  /\ (c + k) % StrategyCount \in Strategies
         /\ (c + k) % StrategyCount = IF c + k < StrategyCount THEN c + k ELSE c + k - StrategyCount
<1>1. StrategyCount \in Nat \ {0} /\ c \in 0 .. StrategyCount - 1 /\ k \in 0 .. StrategyCount - 1
  BY RouterAssumption DEF Strategies
<1>2. CASE c + k < StrategyCount
  BY <1>1, <1>2 DEF Strategies
<1>3. CASE c + k >= StrategyCount
  <2>1. PICK d : d = c + k - StrategyCount
    OBVIOUS
  <2>2. d \in 0 .. StrategyCount - 1 /\ c + k = d + StrategyCount
    BY <1>1, <1>3, <2>1
  <2>3. (d + StrategyCount) % StrategyCount = d % StrategyCount
    BY <1>1, <2>2, d \in Nat, ModLap
  <2>4. d % StrategyCount = d
    BY <1>1, <2>2
  <2> QED BY <1>1, <1>3, <2>1, <2>2, <2>3, <2>4 DEF Strategies
<1> QED BY <1>1, <1>2, <1>3

Waiting == {s \in Strategies : sched.queue[s] # <<>>}

\* The slots the scheduler passes over, from its cursor to the one it serves.
LEMMA ServedFirst ==
  ASSUME sched \in Scheduler, Waiting # {}
  PROVE  \E k \in Strategies :
           /\ Served = (sched.cursor + k) % StrategyCount /\ Served \in Waiting
           /\ \A j \in 0 .. k - 1 : (sched.cursor + j) % StrategyCount \notin Waiting
<1> DEFINE c == sched.cursor
           n == StrategyCount
           A == {k \in 0 .. n - 1 : sched.queue[(c + k) % n] # <<>>}
<1>0. n \in Nat \ {0} /\ c \in 0 .. n - 1 /\ DOMAIN sched.queue = 0 .. n - 1 /\ Strategies = 0 .. n - 1
  BY RouterAssumption DEF Scheduler, Strategies
<1>2. A # {}
  <2>1. PICK s \in Waiting : TRUE
    OBVIOUS
  <2>2. s \in 0 .. n - 1 /\ sched.queue[s] # <<>>
    BY <1>0, <2>1 DEF Waiting
  <2>3. PICK k : k = IF s >= c THEN s - c ELSE s - c + n
    OBVIOUS
  <2>4. k \in 0 .. n - 1 /\ (IF c + k < n THEN c + k ELSE c + k - n) = s
    BY <1>0, <2>2, <2>3
  <2>5. (c + k) % n = s
    BY <1>0, <2>4, Ring
  <2> QED BY <2>2, <2>4, <2>5
<1>3. G!Min(A) \in A /\ \A k \in A : G!Min(A) <= k
  <2>1. A \in SUBSET Nat
    BY <1>0
  <2> HIDE DEF A
  <2>2. \E m \in A : \A k \in A : m <= k
    BY <1>2, <2>1, LeastNat
  <2> QED BY <2>2 DEF G!Min
<1>4. Served = (c + G!Min(A)) % n
  BY DEF Served, G!Turn
<1> DEFINE k == G!Min(A)
<1>5. k \in 0 .. n - 1 /\ sched.queue[(c + k) % n] # <<>>
  BY <1>3
<1>6. (c + k) % n \in Strategies
  BY <1>0, <1>5, Ring
<1>7. ASSUME NEW j \in 0 .. k - 1 PROVE (c + j) % n \notin Waiting
  <2>1. j \in 0 .. n - 1 /\ j < k
    BY <1>0, <1>5
  <2>2. j \notin A
    BY <1>0, <1>3, <2>1
  <2> QED BY <2>1, <2>2 DEF Waiting
<1> HIDE DEF k, A
<1> QED BY <1>0, <1>4, <1>5, <1>6, <1>7 DEF Waiting, k

SchedOK == sched \in Scheduler /\ \A s \in Strategies : Len(sched.queue[s]) <= QueueLength
LimiterOK == /\ limiter \in Limiter /\ \A k \in G!RateLimitKinds : limiter.tokens[k] <= Burst[k]
             /\ Len(limiter.pending) <= PendingCapacity
VenueOK == venue \in [Refs -> VenueView] /\ \A r \in Refs : Len(venue[r].log) <= MaxReports
PoolOK == held \subseteq Refs \X (1 .. MaxReports) /\ late \subseteq Refs

LEMMA ServeTypes ==
  ASSUME TypeOK, Waiting # {}, Serve
  PROVE  SchedOK' /\ Waited(Served) \in [Strategies -> Nat] /\ Head(sched.queue[Served]) \in Request
<1> DEFINE s == Served
           left == G!VisitBudget(s, sched.cursor, sched.visit, Quantum)
           rest == Tail(sched.queue[s])
           over == G!VisitEnds(rest, left)
<1>0. /\ sched \in Scheduler /\ sched.queue \in [Strategies -> Seq(Request)] /\ sched.visit \in Nat
      /\ StrategyCount \in Nat \ {0}
      /\ \A t \in Strategies : Len(sched.queue[t]) <= QueueLength
  BY RouterAssumption DEF TypeOK, Scheduler
<1>1. s \in Strategies /\ sched.queue[s] # <<>>
  BY <1>0, ServedFirst DEF Waiting
<1>2. Head(sched.queue[s]) \in Request /\ rest \in Seq(Request) /\ Len(rest) = Len(sched.queue[s]) - 1
      /\ Len(sched.queue[s]) \in Nat
  BY <1>0, <1>1, Served1
<1>3. left \in Nat
  BY <1>0, <1>1, RouterAssumption DEF G!VisitBudget
<1>4. ~over => left - 1 \in Nat
  BY <1>3 DEF G!VisitEnds
<1>5. (s + 1) % StrategyCount \in Strategies
  BY <1>0, <1>1 DEF Strategies
<1>6. [sched.queue EXCEPT ![s] = rest] \in [Strategies -> Seq(Request)]
  BY <1>0, <1>2
<1>7. /\ sched'.queue = [sched.queue EXCEPT ![s] = rest]
      /\ sched' \in Scheduler
  <2>1. sched' = [queue  |-> [sched.queue EXCEPT ![s] = rest],
                  cursor |-> IF over THEN (s + 1) % StrategyCount ELSE s,
                  visit  |-> IF over THEN 0 ELSE left - 1]
    BY DEF Serve
  <2> HIDE DEF s, left, rest, over
  <2> QED BY <1>1, <1>4, <1>5, <1>6, <2>1 DEF Scheduler
<1>8. \A t \in Strategies : Len(sched'.queue[t]) <= QueueLength
  BY <1>0, <1>1, <1>2, <1>7, Bounds
<1>9. Waited(s) \in [Strategies -> Nat]
  BY DEF TypeOK, Notes, Waited
<1> QED BY <1>2, <1>7, <1>8, <1>9 DEF SchedOK

LEMMA TakenRequest ==
  ASSUME TypeOK, NEW q, NEW kind, Dispatches(q, kind)
  PROVE  q \in Request /\ q.kind = kind /\ SchedOK' /\ IsIdle
         /\ Took \in Notes /\ Took.unbacked = notes.unbacked /\ Took.orphaned = notes.orphaned
         /\ Waiting # {} /\ Serve
<1>1. Waiting # {} /\ Serve /\ q = Head(sched.queue[Served]) /\ q.kind = kind /\ IsIdle
  BY DEF Dispatches, Waiting
<1>2. SchedOK' /\ Waited(Served) \in [Strategies -> Nat] /\ Head(sched.queue[Served]) \in Request
  BY <1>1, ServeTypes
<1>3. Took \in Notes /\ Took.unbacked = notes.unbacked /\ Took.orphaned = notes.orphaned
  BY <1>2 DEF Took, Notes, TypeOK
<1> QED BY <1>1, <1>2, <1>3

LEMMA LimiterParts ==
  ASSUME TypeOK
  PROVE  /\ limiter \in Limiter /\ limiter.pending \in Seq(Request) /\ Len(limiter.pending) \in Nat
         /\ limiter.tokens \in [G!RateLimitKinds -> Nat] /\ Burst \in [G!RateLimitKinds -> Nat]
         /\ Len(limiter.pending) <= PendingCapacity
         /\ \A k \in G!RateLimitKinds : limiter.tokens[k] <= Burst[k]
BY RouterAssumption, LenProperties DEF TypeOK, Limiter

LEMMA TokenTaken ==
  ASSUME TypeOK, NEW q \in Request, HasToken(q)
  PROVE  /\ Consumed(q) \in Limiter /\ Consumed(q).pending = limiter.pending
         /\ \A k \in G!RateLimitKinds : Consumed(q).tokens[k] <= Burst[k]
<1>1. q.kind \in G!RateLimitKinds
  BY RequestParts
<1>2. PICK t : t = limiter.tokens[q.kind] - 1
  OBVIOUS
<1>3. t \in Nat /\ t <= Burst[q.kind]
  BY <1>1, <1>2, LimiterParts DEF HasToken
<1>4. Consumed(q) = [limiter EXCEPT !.tokens[q.kind] = t]
  BY <1>2 DEF Consumed
<1> QED BY <1>1, <1>3, <1>4, LimiterParts DEF Limiter

LEMMA AdmitTypes ==
  ASSUME TypeOK, NEW q \in Request, NEW routed, admit(q, routed)
  PROVE  LimiterOK'
<1>1. CASE limiter' = limiter
  BY <1>1 DEF TypeOK, LimiterOK
<1>2. CASE HasToken(q) /\ limiter' = Consumed(q)
  BY <1>2, TokenTaken, LimiterParts DEF LimiterOK
<1>3. CASE Len(limiter.pending) < PendingCapacity /\ limiter' = [limiter EXCEPT !.pending = Append(@, q)]
  <2>1. PICK p : p = Append(limiter.pending, q)
    OBVIOUS
  <2>2. p \in Seq(Request) /\ Len(p) = Len(limiter.pending) + 1
    BY <2>1, LimiterParts, Appended
  <2>3. limiter' = [limiter EXCEPT !.pending = p]
    BY <1>3, <2>1
  <2>4. limiter' \in Limiter /\ limiter'.tokens = limiter.tokens /\ limiter'.pending = p
    BY <2>2, <2>3, LimiterParts DEF Limiter
  <2> QED BY <1>3, <2>2, <2>4, LimiterParts, Bounds DEF LimiterOK
<1> QED BY <1>1, <1>2, <1>3 DEF admit, Deferred

LEMMA DrainTypes ==
  ASSUME TypeOK, NEW q, try_drain_one(q)
  PROVE  LimiterOK' /\ q \in Request
<1>1. limiter.pending # <<>> /\ q = Head(limiter.pending) /\ HasToken(q)
      /\ limiter' = [Consumed(q) EXCEPT !.pending = Tail(@)]
  BY DEF try_drain_one
<1>2. /\ q \in Request /\ Tail(limiter.pending) \in Seq(Request)
      /\ Len(Tail(limiter.pending)) = Len(limiter.pending) - 1
  BY <1>1, LimiterParts, Served1
<1>3. /\ Consumed(q) \in Limiter /\ Consumed(q).pending = limiter.pending
      /\ \A k \in G!RateLimitKinds : Consumed(q).tokens[k] <= Burst[k]
  BY <1>1, <1>2, TokenTaken
<1>4. PICK p, l : p = Tail(limiter.pending) /\ l = Consumed(q)
  OBVIOUS
<1>5. limiter' = [l EXCEPT !.pending = p]
  BY <1>1, <1>3, <1>4
<1>6. limiter' \in Limiter /\ limiter'.tokens = l.tokens /\ limiter'.pending = p
  BY <1>2, <1>3, <1>4, <1>5 DEF Limiter
<1> QED BY <1>2, <1>3, <1>4, <1>6, LimiterParts, Bounds DEF LimiterOK
-----------------------------------------------------------------------------
(* The book's other calls. *)

\* The inductive core: types, and live orders that are sound.
CoreInv == TypeOK /\ OrdersSound

LEMMA CoreBook == CoreInv => BookInv
BY DEF CoreInv, BookInv, TypeOK

LEMMA CreateBook ==
  ASSUME BookInv, NEW r \in Refs, NEW v \in Nat \ {0}, create(r, v)
  PROVE  /\ BookInv' /\ r \notin live /\ live' = live \cup {r}
         /\ order' = [order EXCEPT ![r] = NewOrder("pending_send", v, 0)]
<1>1. Sound(NewOrder("pending_send", v, 0))
  BY DEF Sound, Order, NewOrder, OrderStates, reserves_exposure, is_terminal, Terminal
<1>2. reserved' \in Int
  BY DEF create, BookInv, OmsTypeOK
<1> QED BY <1>1, <1>2 DEF create, Insert, BookInv, OmsTypeOK, OrdersSound, Sound

LEMMA TransitionBook ==
  ASSUME BookInv, NEW r, NEW s \in OrderStates, transition(r, s)
  PROVE  /\ BookInv' /\ r \in live
         /\ is_terminal(s) => live' = live \ {r} /\ order'[r] = NoOrder
         /\ ~is_terminal(s) => live' = live /\ order'[r] = [order[r] EXCEPT !.state = s]
         /\ \A x \in Refs \ {r} : order'[x] = order[x]
<1>1. r \in live /\ Sound(order[r]) /\ legal(order[r].state, s)
      /\ Settle(r, [order[r] EXCEPT !.state = s])
  BY SoundOrders DEF transition
<1>2. After(order[r], [order[r] EXCEPT !.state = s])
  BY <1>1, MoveAfter
<1>3. [order[r] EXCEPT !.state = s].state = s
  BY <1>1 DEF Sound, Order
<1>4. PICK o : o = [order[r] EXCEPT !.state = s]
  OBVIOUS
<1> QED BY <1>1, <1>2, <1>3, <1>4, SettleBook

\* What the venue emitted is never taken back.
LogsGrow == \A r \in Refs : Len(venue[r].log) <= Len(venue'[r].log)

LEMMA ReplaceBook ==
  ASSUME TypeOK, BookInv, NEW q \in Request, CanReplace(q), Replaces(q)
  PROVE  /\ BookInv' /\ VenueOK' /\ LogsGrow /\ live' = live
         /\ order'[q.ref].requested_volume = q.volume
         /\ order'[q.ref].filled_volume = order[q.ref].filled_volume
         /\ order'[q.ref].state = order[q.ref].state
         /\ \A x \in Refs \ {q.ref} : order'[x] = order[x]
<1>1. q.ref \in Refs /\ q.volume \in Nat
  BY RequestParts
<1>2. q.ref \in live /\ Sound(order[q.ref]) /\ q.volume > order[q.ref].filled_volume
  BY SoundOrders DEF CanReplace, Replaceable
<1>3. PICK r, v : r = q.ref /\ v = q.volume
  OBVIOUS
<1>4. order' = [order EXCEPT ![r].requested_volume = v] /\ live' = live /\ reserved' = reserved
  BY <1>3 DEF Replaces
<1>5. /\ order' \in [Refs -> Order] /\ order'[r].requested_volume = v
      /\ order'[r].filled_volume = order[r].filled_volume /\ order'[r].state = order[r].state
      /\ \A x \in Refs \ {r} : order'[x] = order[x]
  BY <1>1, <1>3, <1>4 DEF BookInv, OmsTypeOK, Order
<1>6. OrdersSound'
  <2> SUFFICES ASSUME NEW x \in live
               PROVE  /\ reserves_exposure(order'[x].state)
                      /\ order'[x].filled_volume <= order'[x].requested_volume
                      /\ order'[x].requested_volume > 0
    BY <1>4 DEF OrdersSound
  <2>1. x \in Refs /\ Sound(order[x])
    BY SoundOrders
  <2>2. CASE x = r
    BY <1>1, <1>2, <1>3, <1>5, <2>2 DEF Sound, Order
  <2>3. CASE x # r
    BY <1>5, <2>1, <2>3 DEF Sound
  <2> QED BY <2>2, <2>3
<1>7. VenueOK' /\ LogsGrow
  <2>1. venue[r] \in VenueView /\ venue[r].asks \in Seq(Nat)
    BY <1>1, <1>3, VenueParts DEF VenueView
  <2>2. PICK a : a = Append(venue[r].asks, v)
    OBVIOUS
  <2>3. a \in Seq(Nat)
    BY <1>1, <1>3, <2>1, <2>2, Appended
  <2>4. venue' = [venue EXCEPT ![r].asks = a]
    BY <1>3, <2>2 DEF Replaces
  <2>5. venue \in [Refs -> VenueView] /\ \A x \in Refs : Len(venue[x].log) <= MaxReports
    BY DEF TypeOK
  <2>6. PICK w : w = [venue[r] EXCEPT !.asks = a]
    OBVIOUS
  <2>7. w \in VenueView /\ w.log = venue[r].log
    BY <2>1, <2>3, <2>6 DEF VenueView
  <2>8. venue' = [venue EXCEPT ![r] = w]
    BY <2>4, <2>6
  <2>9. \A x \in Refs : venue'[x].log = venue[x].log /\ Len(venue[x].log) \in Nat
    BY <1>1, <1>3, <2>5, <2>7, <2>8, VenueParts
  <2> QED BY <1>1, <1>3, <2>5, <2>7, <2>8, <2>9 DEF VenueOK, LogsGrow
<1> QED BY <1>3, <1>4, <1>5, <1>6, <1>7 DEF BookInv, OmsTypeOK

\* A report in the book, for the invariants of the book and the pool.
LEMMA ProcessTypes ==
  ASSUME CoreInv, NEW r \in Refs, NEW n \in 1 .. Len(venue[r].log), process(r, n)
  PROVE  /\ BookInv' /\ PoolOK' /\ live' \subseteq live
         /\ \A x \in Refs \ {r} : order'[x] = order[x] /\ (x \in live' <=> x \in live)
<1>1. BookInv /\ TypeOK /\ OrdersSound /\ live \subseteq Refs
  BY CoreBook DEF CoreInv, BookInv, OmsTypeOK
<1>2. n \in 1 .. MaxReports
  BY <1>1, VenueParts, Bounds
<1>3. PoolOK'
  <2>1. held \subseteq Refs \X (1 .. MaxReports) /\ late \subseteq Refs
    BY <1>1 DEF TypeOK
  <2>2. held' \subseteq held \cup {<<r, n>>}
    BY DEF process
  <2>3. late' \subseteq late \cup {r}
    BY DEF process
  <2> QED BY <1>2, <2>1, <2>2, <2>3 DEF PoolOK
<1>4. ASSUME NEW o, r \in live, After(order[r], o), Settle(r, o)
      PROVE  /\ BookInv' /\ live' \subseteq live
             /\ \A x \in Refs \ {r} : order'[x] = order[x] /\ (x \in live' <=> x \in live)
  BY <1>1, <1>4, SettleBook
<1>5. CASE UNCHANGED omsVars
  BY <1>1, <1>3, <1>5 DEF omsVars, BookInv, OmsTypeOK, OrdersSound
<1> QED BY <1>1, <1>3, <1>4, <1>5, ProcessBook
-----------------------------------------------------------------------------
(* Every step keeps the types and the soundness of live orders. *)

LEMMA CoreFrom ==
  ASSUME BookInv', PoolOK', VenueOK', ledger' \in Ledger, gates' \in Gates, driver' \in Driver,
         budget' \in Budget, SchedOK', LimiterOK', notes' \in Notes
  PROVE  CoreInv'
BY DEF CoreInv, TypeOK, BookInv, PoolOK, VenueOK, SchedOK, LimiterOK

LEMMA CoreParts ==
  ASSUME CoreInv
  PROVE  /\ TypeOK /\ BookInv /\ PoolOK /\ VenueOK /\ ledger \in Ledger /\ gates \in Gates
         /\ driver \in Driver /\ budget \in Budget /\ SchedOK /\ LimiterOK /\ notes \in Notes
BY DEF CoreInv, TypeOK, BookInv, PoolOK, VenueOK, SchedOK, LimiterOK

LEMMA SameBook == ASSUME BookInv, UNCHANGED omsVars PROVE BookInv'
BY DEF BookInv, OmsTypeOK, OrdersSound, omsVars

LEMMA SamePool == ASSUME PoolOK, UNCHANGED <<held, late>> PROVE PoolOK'
BY DEF PoolOK

LEMMA SameVenue == ASSUME VenueOK, UNCHANGED venue PROVE VenueOK'
BY DEF VenueOK

LEMMA SameSched == ASSUME SchedOK, UNCHANGED sched PROVE SchedOK'
BY DEF SchedOK

LEMMA SameLimiter == ASSUME LimiterOK, UNCHANGED limiter PROVE LimiterOK'
BY DEF LimiterOK

LEMMA MoreUnbacked ==
  ASSUME NEW k \in Notes, NEW r \in Refs, NEW b
  PROVE  [k EXCEPT !.unbacked = IF b THEN @ \cup {r} ELSE @] \in Notes
<1>1. PICK u : u = IF b THEN k.unbacked \cup {r} ELSE k.unbacked
  OBVIOUS
<1>2. u \in SUBSET Refs
  BY <1>1 DEF Notes
<1>3. [k EXCEPT !.unbacked = u] \in Notes
  BY <1>2 DEF Notes
<1> QED BY <1>1, <1>3

LEMMA SignInt == \A r \in Refs : Sign[r] \in Int
BY RouterAssumption

LEMMA CoreEnqueue ==
  ASSUME CoreInv, NEW q \in Request, enqueue(q)
  PROVE  CoreInv'
<1> USE CoreParts
<1>1. PICK s : s = Owner[q.ref]
  OBVIOUS
<1>2. s \in Strategies /\ sched.queue \in [Strategies -> Seq(Request)] /\ sched \in Scheduler
  BY <1>1, RequestParts DEF SchedOK, Scheduler
<1>3. PICK w : w = Append(sched.queue[s], q)
  OBVIOUS
<1>4. w \in Seq(Request) /\ Len(w) = Len(sched.queue[s]) + 1 /\ Len(sched.queue[s]) \in Nat
  BY <1>2, <1>3, Appended
<1>5. Len(sched.queue[s]) < QueueLength /\ sched' = [sched EXCEPT !.queue[s] = w]
  BY <1>1, <1>3 DEF enqueue
<1>6. SchedOK'
  <2>1. PICK f : f = [sched.queue EXCEPT ![s] = w]
    OBVIOUS
  <2>2. f \in [Strategies -> Seq(Request)] /\ \A t \in Strategies : Len(f[t]) <= QueueLength
    BY <1>2, <1>4, <1>5, <2>1, Bounds DEF SchedOK
  <2>3. sched' = [sched EXCEPT !.queue = f]
    BY <1>5, <2>1
  <2>4. sched' \in Scheduler /\ sched'.queue = f
    BY <1>2, <2>2, <2>3 DEF Scheduler
  <2> QED BY <2>2, <2>4 DEF SchedOK
<1>7. budget' \in Budget
  BY DEF enqueue, Budget
<1> QED BY <1>6, <1>7, CoreFrom, SameBook, SamePool, SameVenue, SameLimiter DEF enqueue

LEMMA CoreSubmitCreate ==
  ASSUME CoreInv, NEW q, submit_create(q)
  PROVE  CoreInv' /\ q \in Request /\ q.kind = "order"
<1> USE CoreParts
<1>1. Dispatches(q, "order")
  BY DEF submit_create
<1>2. q \in Request /\ q.kind = "order" /\ SchedOK' /\ Took \in Notes
  BY <1>1, TakenRequest
<1>3. LimiterOK'
  BY <1>2, AdmitTypes DEF submit_create
<1>4. ledger' \in Ledger
  <2>1. q.ref \in Refs /\ q.volume \in Nat
    BY <1>2, RequestParts
  <2>2. G!reserve(ledger, q.ref, q.volume) \in Ledger
    BY <2>1, ReserveEffect DEF OnlyOf
  <2> QED BY <2>2 DEF submit_create
<1>5. driver' \in Driver
  <2>1. q \in [kind : {"order"}, ref : Refs, volume : Volumes]
    BY <1>2 DEF Request
  <2> QED BY <2>1 DEF submit_create, Driver
<1>6. BookInv' /\ VenueOK' /\ PoolOK'
  BY <1>1, SameBook, SameVenue, SamePool DEF submit_create, Dispatches
<1>7. gates' \in Gates /\ budget' \in Budget /\ notes' \in Notes
  BY <1>1, <1>2 DEF submit_create, Dispatches
<1> QED BY <1>2, <1>3, <1>4, <1>5, <1>6, <1>7, CoreFrom

LEMMA DriverRequest ==
  ASSUME driver \in Driver, driver.pc = "create"
  PROVE  driver.request \in Request /\ driver.request.kind = "order"
<1>1. driver.request \in [kind : {"order"}, ref : Refs, volume : Volumes]
  BY DEF Driver, Idle
<1> QED BY <1>1 DEF Request

LEMMA CoreApplyCreate ==
  ASSUME CoreInv, ApplyCreate
  PROVE  CoreInv'
<1> USE CoreParts
<1>1. driver.pc = "create" /\ driver.request \in Request /\ driver.request.kind = "order"
  BY DriverRequest DEF ApplyCreate
<1>2. PICK r, v : r = driver.request.ref /\ v = driver.request.volume
  OBVIOUS
<1>3. r \in Refs /\ v \in Nat \ {0}
  BY <1>1, <1>2, RequestParts
<1>4. BookInv' /\ ledger' \in Ledger
  <2>1. CASE create(r, v) /\ UNCHANGED ledger
    BY <1>3, <2>1, CreateBook
  <2>2. CASE ledger' = G!release(ledger, r) /\ UNCHANGED omsVars
    BY <1>3, <2>2, ReleaseEffect, SameBook DEF OnlyOf
  <2> QED BY <1>2, <2>1, <2>2 DEF ApplyCreate
<1>5. driver' \in Driver
  BY DEF ApplyCreate, Driver
<1> QED BY <1>4, <1>5, CoreFrom, SamePool, SameVenue, SameSched, SameLimiter DEF ApplyCreate

LEMMA CoreSubmitCancel ==
  ASSUME CoreInv, NEW q, submit_cancel(q)
  PROVE  CoreInv' /\ q \in Request
<1> USE CoreParts
<1>1. Dispatches(q, "cancel")
  BY DEF submit_cancel
<1>2. q \in Request /\ q.ref \in Refs /\ SchedOK' /\ Took \in Notes
  BY <1>1, TakenRequest, RequestParts
<1>3. LimiterOK'
  BY <1>2, AdmitTypes, SameLimiter DEF submit_cancel, route_cancel
<1>4. BookInv' /\ ledger' \in Ledger
  <2>1. CASE transition(q.ref, "cancel_pending") /\ ledger' = CancelSeen(q.ref)
    <3>1. BookInv'
      BY <2>1, TransitionBook DEF OrderStates
    <3>2. order[q.ref].filled_volume \in Nat /\ Sign[q.ref] \in Int
      BY <1>2, SignInt DEF BookInv, OmsTypeOK, Order
    <3>3. OnlyOf(q.ref, ledger, CancelSeen(q.ref))
      BY <1>2, <3>2, ReconcileEffect DEF CancelSeen
    <3> QED BY <2>1, <3>1, <3>3 DEF OnlyOf
  <2>2. CASE UNCHANGED <<omsVars, ledger>>
    BY <2>2, SameBook
  <2> QED BY <2>1, <2>2 DEF submit_cancel, route_cancel
<1>5. /\ VenueOK' /\ PoolOK' /\ gates' \in Gates /\ budget' \in Budget /\ notes' \in Notes
      /\ driver' \in Driver
  BY <1>1, <1>2, SameVenue, SamePool DEF submit_cancel, Dispatches
<1> QED BY <1>2, <1>3, <1>4, <1>5, CoreFrom

LEMMA CoreSubmitReplace ==
  ASSUME CoreInv, NEW q, submit_replace(q)
  PROVE  CoreInv' /\ q \in Request /\ q.kind = "replace"
<1> USE CoreParts
<1>1. Dispatches(q, "replace")
  BY DEF submit_replace
<1>2. q \in Request /\ q.kind = "replace" /\ q.ref \in Refs /\ q.volume \in Nat /\ SchedOK' /\ Took \in Notes
  BY <1>1, TakenRequest, RequestParts
<1>3. LimiterOK'
  BY <1>2, AdmitTypes, SameLimiter DEF submit_replace, route_replace
<1>4. BookInv' /\ VenueOK'
  <2>1. CASE Replacing(q) /\ Replaces(q)
    BY <1>2, <2>1, ReplaceBook DEF Replacing
  <2>2. CASE UNCHANGED <<omsVars, venue>>
    BY <2>2, SameBook, SameVenue
  <2> QED BY <2>1, <2>2 DEF submit_replace, route_replace
<1>5. ledger' \in Ledger
  <2>1. PICK r, delta, old : r = q.ref /\ delta = q.volume - ledger.res[r].requested
                             /\ old = order[r].requested_volume
    OBVIOUS
  <2>2. r \in Refs /\ delta \in Int /\ old \in Int /\ old - q.volume \in Int
    BY <1>2, <2>1, LedgerParts DEF BookInv, OmsTypeOK, Order
  <2>3. PICK l : l = G!Resized(ledger, r, delta)
    OBVIOUS
  <2>4. l \in Ledger
    BY <2>2, <2>3, ResizedEffect DEF OnlyOf
  <2>5. G!Resized(l, r, old - q.volume) \in Ledger
    BY <2>2, <2>4, ResizedEffect DEF OnlyOf
  <2>6. \/ ledger' = ledger
        \/ ledger' = G!Resized(l, r, old - q.volume)
        \/ ledger' = l
    BY <2>1, <2>3 DEF submit_replace
  <2> QED BY <2>4, <2>5, <2>6
<1>6. notes' \in Notes
  BY <1>2, MoreUnbacked DEF submit_replace
<1>7. PoolOK' /\ gates' \in Gates /\ budget' \in Budget /\ driver' \in Driver
  BY <1>1, SamePool DEF submit_replace, Dispatches
<1> QED BY <1>2, <1>3, <1>4, <1>5, <1>6, <1>7, CoreFrom

LEMMA CoreDrainPending ==
  ASSUME CoreInv, drain_pending
  PROVE  CoreInv' /\ Head(limiter.pending) \in Request
<1> USE CoreParts
<1>1. PICK q : q = Head(limiter.pending)
  OBVIOUS
<1>2. try_drain_one(q)
  BY <1>1 DEF drain_pending
<1>3. q \in Request /\ LimiterOK' /\ q.ref \in Refs /\ (q.kind # "cancel" => q.volume \in Nat \ {0})
  BY <1>2, DrainTypes, RequestParts
<1>4. BookInv' /\ VenueOK'
  <2>1. CASE q.kind = "order" /\ create(q.ref, q.volume) /\ UNCHANGED venue
    BY <1>3, <2>1, CreateBook, SameVenue
  <2>2. CASE transition(q.ref, "cancel_pending") /\ UNCHANGED venue
    BY <2>2, TransitionBook, SameVenue DEF OrderStates
  <2>3. CASE CanReplace(q) /\ Replaces(q)
    BY <1>3, <2>3, ReplaceBook
  <2>4. CASE UNCHANGED <<omsVars, venue>>
    BY <2>4, SameBook, SameVenue
  <2> QED BY <1>1, <2>1, <2>2, <2>3, <2>4 DEF drain_pending
<1>5. notes' \in Notes
  BY <1>1, <1>3, MoreUnbacked DEF drain_pending
<1> QED BY <1>1, <1>3, <1>4, <1>5, CoreFrom, SamePool, SameSched DEF drain_pending

LEMMA CoreRefill ==
  ASSUME CoreInv, refill
  PROVE  CoreInv'
<1> USE CoreParts
<1>1. budget' \in Budget
  <2>1. budget \in Budget /\ budget.ticks \in Nat /\ budget.ticks < MaxTicks
    BY Bounds DEF refill, Budget
  <2>2. PICK t : t = budget.ticks + 1
    OBVIOUS
  <2>3. t \in 0 .. MaxTicks /\ budget' = [budget EXCEPT !.ticks = t]
    BY <2>1, <2>2, Bounds DEF refill
  <2> QED BY <2>1, <2>3 DEF Budget
<1>2. LimiterOK'
  <2>1. PICK f : f = [k \in G!RateLimitKinds |-> G!Min({Burst[k], limiter.tokens[k] + 1})]
    OBVIOUS
  <2>2. limiter' = [limiter EXCEPT !.tokens = f]
    BY <2>1 DEF refill
  <2>3. ASSUME NEW k \in G!RateLimitKinds PROVE f[k] \in Nat /\ f[k] <= Burst[k]
    <3>1. PICK a, b : a = Burst[k] /\ b = limiter.tokens[k] + 1
      OBVIOUS
    <3>2. a \in Nat /\ b \in Nat
      BY <3>1, LimiterParts
    <3>3. \E m \in {a, b} : \A x \in {a, b} : m <= x
      BY <3>2
    <3>4. G!Min({a, b}) \in {a, b} /\ \A x \in {a, b} : G!Min({a, b}) <= x
      BY <3>3 DEF G!Min
    <3> QED BY <2>1, <3>1, <3>2, <3>4
  <2>4. f \in [G!RateLimitKinds -> Nat]
    BY <2>1, <2>3
  <2>5. limiter' \in Limiter /\ limiter'.tokens = f /\ limiter'.pending = limiter.pending
    BY <2>2, <2>4, LimiterParts DEF Limiter
  <2> QED BY <2>3, <2>5, LimiterParts DEF LimiterOK
<1> QED BY <1>1, <1>2, CoreFrom, SameBook, SamePool, SameVenue, SameSched DEF refill

\* What the router reads back of an applied report: a live order, which is the one the report was
\* for as long as that goes on; or nothing.
LEMMA SeenType ==
  ASSUME CoreInv, NEW r \in Refs, NEW n \in 1 .. Len(venue[r].log), process(r, n),
         Outcome(r, n) = "applied", NEW given \in Handed
  PROVE  /\ Seen(r, n, given).filled \in Nat
         /\ is_terminal(Cascade(r, n).order.state) =>
              /\ Seen(r, n, given) = given
              /\ terminal_or_gone(r, given) <=> r \notin given.of
              /\ r \in given.of => given.filled = order[r].filled_volume
         /\ ~is_terminal(Cascade(r, n).order.state) =>
              /\ Seen(r, n, given) = Image(r, Cascade(r, n).order)
              /\ ~terminal_or_gone(r, Seen(r, n, given)) /\ r \in Seen(r, n, given).of
<1> USE CoreParts
<1>1. After(order[r], Cascade(r, n).order)
  BY ProcessBook DEF CoreInv
<1>2. PICK o : o = Cascade(r, n).order
  OBVIOUS
<1>3. CASE is_terminal(o.state)
  <2>1. Seen(r, n, given) = given
    BY <1>2, <1>3 DEF Seen
  <2>2. CASE given = Blank
    <3>1. given.filled \in Nat /\ given.of = {} /\ ~is_terminal(given.state)
      BY <2>2 DEF Blank, is_terminal, Terminal
    <3> QED BY <1>2, <1>3, <2>1, <3>1 DEF terminal_or_gone
  <2>3. CASE \E x \in live : given = Image(x, order[x])
    <3>1. PICK x \in live : given = Image(x, order[x])
      BY <2>3
    <3>2. Sound(order[x])
      BY SoundOrders
    <3>3. /\ given.filled = order[x].filled_volume /\ given.filled \in Nat /\ given.of = {x}
          /\ ~is_terminal(given.state)
      BY <3>1, <3>2 DEF Image, Sound, Order, reserves_exposure
    <3> QED BY <1>2, <1>3, <2>1, <3>3 DEF terminal_or_gone
  <2> QED BY <2>2, <2>3 DEF Handed
<1>4. CASE ~is_terminal(o.state)
  <2>1. Seen(r, n, given) = Image(r, o)
    BY <1>2, <1>4 DEF Seen
  <2>2. Image(r, o).filled = o.filled_volume /\ Image(r, o).of = {r} /\ Image(r, o).state = o.state
    BY DEF Image
  <2>3. o.filled_volume \in Nat
    BY <1>1, <1>2 DEF After, Order
  <2> QED BY <1>2, <1>4, <2>1, <2>2, <2>3 DEF terminal_or_gone
<1> QED BY <1>2, <1>3, <1>4

\* What such a report leaves in the notes.
LEMMA SeenNotes ==
  ASSUME CoreInv, NEW r \in Refs, NEW n, NEW out, ReportSeen(r, n, out)
  PROVE  /\ notes' \in Notes /\ notes'.waited = notes.waited
         /\ notes'.unbacked = IF Outgrown(r, n) \/ Overcut(r, out) THEN notes.unbacked \cup {r} ELSE notes.unbacked
         /\ notes'.orphaned = IF r \in out.of THEN notes.orphaned \cup (live \ live') ELSE notes.orphaned
<1> USE CoreParts
<1>1. PICK u, o : /\ u = IF Outgrown(r, n) \/ Overcut(r, out) THEN notes.unbacked \cup {r} ELSE notes.unbacked
                  /\ o = IF r \in out.of THEN notes.orphaned \cup (live \ live') ELSE notes.orphaned
  OBVIOUS
<1>2. u \in SUBSET Refs /\ o \in SUBSET Refs
  BY <1>1 DEF Notes, BookInv, OmsTypeOK
<1>3. notes' = [notes EXCEPT !.unbacked = u, !.orphaned = o]
  BY <1>1 DEF ReportSeen
<1> QED BY <1>1, <1>2, <1>3 DEF Notes

LEMMA CoreSubmitReport ==
  ASSUME CoreInv, NEW r \in Refs, NEW n, submit_report(r, n)
  PROVE  /\ CoreInv' /\ n \in 1 .. Len(venue[r].log) /\ process(r, n)
         /\ notes'.waited = notes.waited
<1> USE CoreParts
<1>1. n \in 1 .. Len(venue[r].log) /\ process(r, n)
  BY DEF submit_report
<1>2. BookInv' /\ PoolOK'
  BY <1>1, ProcessTypes
<1>3. ledger' \in Ledger /\ notes' \in Notes /\ notes'.waited = notes.waited
  <2>1. CASE Outcome(r, n) = "applied"
    <3>1. PICK given \in Handed : ReportSeen(r, n, Seen(r, n, given))
      BY <2>1 DEF submit_report
    <3>2. PICK out, f, g, k : /\ out = Seen(r, n, given) /\ f = out.filled
                              /\ g = terminal_or_gone(r, out) /\ k = Sign[r]
      OBVIOUS
    <3>3. f \in Nat /\ k \in Int
      BY <1>1, <2>1, <3>2, SeenType, SignInt
    <3>4. ledger' = G!reconcile(ledger, r, f, g, k)
      BY <3>1, <3>2 DEF ReportSeen
    <3>5. ledger' \in Ledger
      BY <3>3, <3>4, ReconcileEffect DEF OnlyOf
    <3> QED BY <3>1, <3>5, SeenNotes
  <2>2. CASE Outcome(r, n) # "applied"
    BY <2>2 DEF submit_report
  <2> QED BY <2>1, <2>2
<1> QED BY <1>1, <1>2, <1>3, CoreFrom, SameVenue, SameSched, SameLimiter DEF submit_report

LEMMA VenueEntry ==
  ASSUME VenueOK, NEW r \in Refs, NEW w \in VenueView, Len(w.log) <= MaxReports,
         venue' = [venue EXCEPT ![r] = w]
  PROVE  VenueOK'
BY DEF VenueOK

LEMMA FaultTypes ==
  ASSUME budget \in Budget, NEW f, Fault(f)
  PROVE  budget' \in Budget
<1>1. PICK g : g = budget.faults \ {f}
  OBVIOUS
<1>2. g \in SUBSET FaultKinds /\ budget' = [budget EXCEPT !.faults = g]
  BY <1>1 DEF Fault, Budget
<1> QED BY <1>2 DEF Budget

LEMMA CoreSend ==
  ASSUME CoreInv, NEW r \in Refs, Send(r)
  PROVE  CoreInv' /\ LogsGrow
<1> USE CoreParts
<1>1. BookInv'
  BY TransitionBook DEF Send, OrderStates
<1>0. \A x \in Refs : Len(venue[x].log) \in Nat
  BY VenueParts
<1>2. VenueOK' /\ budget' \in Budget /\ LogsGrow
  <2>1. CASE /\ venue' = [venue EXCEPT ![r].state = "sent",
                                       ![r].requested = order[r].requested_volume, ![r].asks = <<>>]
             /\ UNCHANGED budget
    <3>1. venue[r] \in VenueView /\ order[r].requested_volume \in Nat /\ Len(venue[r].log) <= MaxReports
          /\ venue \in [Refs -> VenueView]
      BY DEF VenueOK, BookInv, OmsTypeOK, Order
    <3>2. PICK w : w = [venue[r] EXCEPT !.state = "sent", !.requested = order[r].requested_volume,
                                        !.asks = <<>>]
      OBVIOUS
    <3>3. <<>> \in Seq(Nat) /\ "sent" \in OrderStates
      BY EmptySeq DEF OrderStates
    <3>4. w \in VenueView /\ w.log = venue[r].log
      BY <3>1, <3>2, <3>3 DEF VenueView
    <3>5. venue' = [venue EXCEPT ![r] = w]
      BY <2>1, <3>1, <3>2
    <3>6. LogsGrow
      BY <1>0, <3>1, <3>4, <3>5 DEF LogsGrow
    <3> QED BY <2>1, <3>1, <3>4, <3>5, <3>6, VenueEntry
  <2>2. CASE Fault("lost") /\ UNCHANGED venue
    BY <1>0, <2>2, FaultTypes, SameVenue DEF LogsGrow
  <2> QED BY <2>1, <2>2 DEF Send
<1> QED BY <1>1, <1>2, CoreFrom, SamePool, SameSched, SameLimiter DEF Send, Rest

\* The venue has emitted a report for order r, and moved no other order.
Reports(r) == /\ Len(venue'[r].log) > Len(venue[r].log)
              /\ \A x \in Refs \ {r} : venue'[x] = venue[x]

LEMMA VenueDoesTypes ==
  ASSUME CoreInv, NEW r \in Refs, NEW kind \in Kinds, NEW v \in Nat, NEW view \in VenueView,
         view.log = venue[r].log, VenueDoes(r, kind, v, view)
  PROVE  CoreInv' /\ LogsGrow /\ Reports(r)
<1> USE CoreParts
<1>1. PICK w, l : w = [view EXCEPT !.log = l] /\ l = Append(view.log, [kind |-> kind, volume |-> v])
  OBVIOUS
<1>2. [kind |-> kind, volume |-> v] \in Report /\ view.log \in Seq(Report)
  BY VenueParts DEF Report
<1>3. l \in Seq(Report) /\ Len(l) = Len(view.log) + 1 /\ Len(view.log) \in Nat
  BY <1>1, <1>2, Appended
<1>4. w \in VenueView /\ w.log = l
  BY <1>1, <1>3 DEF VenueView, Report
<1>5. venue' = [venue EXCEPT ![r] = w] /\ Len(venue[r].log) < MaxReports
  BY <1>1 DEF VenueDoes
<1>6. VenueOK'
  <2>1. Len(w.log) <= MaxReports
    BY <1>3, <1>4, <1>5, Bounds
  <2> QED BY <1>4, <1>5, <2>1, VenueEntry
<1>7. LogsGrow
  <2>1. \A x \in Refs : Len(venue[x].log) \in Nat
    BY VenueParts
  <2> QED BY <1>3, <1>4, <1>5, <2>1 DEF VenueOK, LogsGrow
<1>8. Reports(r)
  BY <1>3, <1>4, <1>5 DEF VenueOK, Reports
<1> QED BY <1>6, <1>7, <1>8, CoreFrom, SameBook, SamePool, SameSched, SameLimiter DEF VenueDoes, Rest

LEMMA CoreVenueMoves ==
  ASSUME CoreInv, NEW r \in Refs, VenueMoves(r)
  PROVE  CoreInv' /\ LogsGrow /\ Reports(r)
<1> DEFINE o == venue[r]
<1>1. /\ o \in VenueView /\ o.requested \in Nat /\ o.filled \in Nat /\ o.state \in OrderStates
      /\ o.asks \in Seq(Nat)
  BY CoreParts, VenueParts DEF VenueView
<1>2. {"ack", "fill", "cancel_pending", "cancelled", "replace_ack"} \subseteq Kinds
  BY DEF Kinds
<1>3. {"acknowledged", "filled", "cancel_pending", "partially_filled", "cancelled"} \subseteq OrderStates
  BY DEF OrderStates
<1>4. ASSUME NEW s \in OrderStates
      PROVE  [o EXCEPT !.state = s] \in VenueView /\ [o EXCEPT !.state = s].log = o.log
  BY <1>1 DEF VenueView
<1>5. CASE VenueDoes(r, "ack", 0, [o EXCEPT !.state = "acknowledged"])
  BY <1>2, <1>3, <1>4, <1>5, VenueDoesTypes
<1>6. ASSUME NEW v \in Volumes,
             VenueDoes(r, "fill", v, [o EXCEPT !.filled = o.filled + v,
                  !.state = IF o.filled + v = o.requested THEN "filled"
                            ELSE IF @ = "cancel_pending" THEN @ ELSE "partially_filled"])
      PROVE  CoreInv' /\ LogsGrow /\ Reports(r)
  <2>1. v \in Nat
    BY OmsAssumption
  <2>2. PICK c, s : c = o.filled + v
                    /\ s = IF o.filled + v = o.requested THEN "filled"
                           ELSE IF o.state = "cancel_pending" THEN o.state ELSE "partially_filled"
    OBVIOUS
  <2>3. c \in Nat /\ s \in OrderStates
    BY <1>1, <1>3, <2>1, <2>2
  <2>4. PICK w : w = [o EXCEPT !.filled = c, !.state = s]
    OBVIOUS
  <2>5. w \in VenueView /\ w.log = o.log
    BY <1>1, <2>3, <2>4 DEF VenueView
  <2>6. VenueDoes(r, "fill", v, w)
    <3>1. [o EXCEPT !.filled = o.filled + v,
                    !.state = IF o.filled + v = o.requested THEN "filled"
                              ELSE IF @ = "cancel_pending" THEN @ ELSE "partially_filled"] = w
      BY <1>1, <2>2, <2>4 DEF VenueView
    <3> QED BY <1>6, <3>1
  <2> QED BY <1>2, <2>1, <2>5, <2>6, VenueDoesTypes
<1>7. CASE VenueDoes(r, "cancel_pending", 0, [o EXCEPT !.state = "cancel_pending"])
  BY <1>2, <1>3, <1>4, <1>7, VenueDoesTypes
<1>8. CASE VenueDoes(r, "cancelled", 0, [o EXCEPT !.state = "cancelled"])
  BY <1>2, <1>3, <1>4, <1>8, VenueDoesTypes
<1>9. CASE /\ o.asks # <<>>
           /\ VenueDoes(r, "replace_ack", Head(o.asks), [o EXCEPT !.requested = Head(o.asks), !.asks = Tail(@)])
  <2>1. Head(o.asks) \in Nat /\ Tail(o.asks) \in Seq(Nat)
    BY <1>1, <1>9, Served1
  <2>2. PICK v, t, w : v = Head(o.asks) /\ t = Tail(o.asks) /\ w = [o EXCEPT !.requested = v, !.asks = t]
    OBVIOUS
  <2>3. w \in VenueView /\ w.log = o.log
    BY <1>1, <2>1, <2>2 DEF VenueView
  <2>4. VenueDoes(r, "replace_ack", v, w)
    BY <1>9, <2>2
  <2> QED BY <1>2, <2>1, <2>2, <2>3, <2>4, VenueDoesTypes
<1> QED BY <1>5, <1>6, <1>7, <1>8, <1>9 DEF VenueMoves

LEMMA GatesParts ==
  ASSUME gates \in Gates
  PROVE  /\ gates.conn \in G!ConnectionStates
         /\ \A c \in G!ConnectionStates : [gates EXCEPT !.conn = c] \in Gates /\ [gates EXCEPT !.conn = c].conn = c
         /\ \A s \in G!SessionStates : [gates EXCEPT !.session = s] \in Gates
                                       /\ [gates EXCEPT !.session = s].conn = gates.conn
         /\ \A h \in BOOLEAN : [gates EXCEPT !.halted = h] \in Gates
                               /\ [gates EXCEPT !.halted = h].conn = gates.conn
BY DEF Gates

LEMMA CoreGates ==
  ASSUME CoreInv, gates' \in Gates, budget' \in Budget, UNCHANGED Others
  PROVE  CoreInv'
BY CoreParts, CoreFrom, SameBook, SamePool, SameVenue, SameSched, SameLimiter DEF Others

LEMMA CoreGateActions ==
  ASSUME CoreInv,
         halt_globally \/ set_session \/ disconnect \/ begin_recovery
  PROVE  CoreInv'
<1> USE CoreParts
<1>1. {"connected", "disconnected", "reconciling", "ready"} \subseteq G!ConnectionStates
  BY DEF G!ConnectionStates
<1>2. CASE halt_globally
  <2>1. gates' \in Gates
    BY <1>2, GatesParts DEF halt_globally
  <2> QED BY <1>2, <2>1, CoreGates, FaultTypes DEF halt_globally
<1>3. CASE set_session
  BY <1>3, GatesParts, CoreGates, FaultTypes DEF set_session
<1>4. CASE disconnect
  BY <1>1, <1>4, GatesParts, CoreGates, FaultTypes DEF disconnect
<1>5. CASE begin_recovery
  BY <1>1, <1>5, GatesParts, CoreGates DEF begin_recovery
<1> QED BY <1>2, <1>3, <1>4, <1>5

Todo == [pc : {"reports"}, room : Room, todo : SUBSET (Refs \X (1 .. MaxReports)), bad : BOOLEAN]

LEMMA FetchTypes ==
  ASSUME FetchReports
  PROVE  driver' \in Driver /\ driver'.pc = "reports" /\ driver'.todo \subseteq AllReports
<1>1. PICK room \in Rooms, todo \in SUBSET AllReports :
        driver' = [pc |-> "reports", room |-> room, todo |-> todo, bad |-> FALSE]
  BY DEF FetchReports, Copied
<1>2. room \in Room /\ todo \in SUBSET (Refs \X (1 .. MaxReports))
  BY RouterAssumption DEF AllReports
<1> QED BY <1>1, <1>2 DEF Driver

\* What the ledger looks like after a restart.
LEMMA RebuiltParts ==
  ASSUME CoreInv
  PROVE  /\ Rebuilt \in Ledger
         /\ \A r \in Refs : Rebuilt.res[r] =
              IF r \in live /\ remaining(order[r]) > 0
              THEN G!Reservation(order[r].requested_volume, order[r].filled_volume) ELSE G!NoRes
         /\ Exact(Rebuilt)
<1> DEFINE O == {r \in live : remaining(order[r]) > 0}
           f == [r \in Refs |-> remaining(order[r])]
           g == [r \in Refs |-> order[r].filled_volume]
           res == [r \in Refs |-> IF r \in O THEN G!Reservation(order[r].requested_volume, order[r].filled_volume)
                                  ELSE G!NoRes]
           open == SumFunctionOnSet(f, O)
           position == SumFunctionOnSet(g, O)
<1>1. \A r \in Refs : order[r].requested_volume \in Nat /\ order[r].filled_volume \in Nat
  BY CoreParts DEF BookInv, OmsTypeOK, Order
<1>2. O \in SUBSET Refs /\ IsFiniteSet(O) /\ IsFiniteSet(Refs)
  BY CoreParts, RouterAssumption, FS_Subset DEF BookInv, OmsTypeOK
<1>3. \A r \in Refs : f[r] \in Int /\ g[r] \in Int
  BY <1>1 DEF remaining
<1>4. open \in Int /\ position \in Int
  <2> HIDE DEF f, g, O
  <2> QED BY <1>2, <1>3, SumInt
<1>5. res \in [Refs -> Entry]
  BY <1>1 DEF Entry, G!Reservation, G!NoRes
<1>6. Rebuilt = [res |-> res, open |-> open, position |-> position]
  BY DEF Rebuilt
<1>7. Rebuilt \in Ledger /\ Rebuilt.res = res /\ Rebuilt.open = open
  <2> HIDE DEF res, open, position
  <2> QED BY <1>4, <1>5, <1>6 DEF Ledger, Entry
<1>8. \A r \in Refs : Rebuilt.res[r] =
              IF r \in live /\ remaining(order[r]) > 0
              THEN G!Reservation(order[r].requested_volume, order[r].filled_volume) ELSE G!NoRes
  BY <1>7
<1>9. Exact(Rebuilt)
  <2> DEFINE own == [r \in Refs |-> Own(Rebuilt, r)]
  <2>1. \A r \in O : own[r] = f[r]
    <3> SUFFICES ASSUME NEW r \in O PROVE own[r] = f[r]
      OBVIOUS
    <3>1. r \in Refs /\ r \in live /\ remaining(order[r]) > 0
      BY <1>2
    <3>2. Rebuilt.res[r] = G!Reservation(order[r].requested_volume, order[r].filled_volume)
      BY <1>8, <3>1
    <3> QED BY <3>1, <3>2 DEF Own, G!Reservation, remaining
  <2>2. \A r \in Refs \ O : own[r] = 0
    BY <1>8 DEF Own, G!NoRes
  <2>3. \A r \in Refs : own[r] \in Int
    BY <1>7, OwnInt
  <2> HIDE DEF own, f, O
  <2>4. SumFunctionOnSet(f, O) = SumFunctionOnSet(own, O)
    BY <1>2, <1>3, <2>1, SumSame
  <2>5. SumFunctionOnSet(own, O) = SumFunctionOnSet(own, Refs)
    BY <1>2, <2>2, <2>3, SumSupport
  <2> QED BY <1>7, <2>4, <2>5 DEF Exact, own
<1> QED BY <1>7, <1>8, <1>9

LEMMA CoreRestart ==
  ASSUME CoreInv, restart_recover_venue
  PROVE  CoreInv'
<1> USE CoreParts
<1>1. BookInv'
  <2>1. \A r \in live : r \in Refs /\ Sound(order[r])
    BY SoundOrders
  <2>2. \A r \in live : Sound(NewOrder("unknown", order[r].requested_volume, order[r].filled_volume))
    BY <2>1 DEF Sound, Order, NewOrder, OrderStates, reserves_exposure, is_terminal, Terminal
  <2>3. reserved' \in Int
    <3> DEFINE f == [r \in Refs |-> order[r].requested_volume]
    <3>1. \A r \in live : f[r] \in Int
      BY <2>1 DEF Sound, Order
    <3>2. IsFiniteSet(live)
      BY RouterAssumption, FS_Subset DEF BookInv, OmsTypeOK
    <3>3. reserved' = SumFunctionOnSet(f, live)
      BY DEF restart_recover_venue
    <3> HIDE DEF f
    <3> QED BY <3>1, <3>2, <3>3, SumInt
  <2>4. live' = live /\ order' = [r \in Refs |->
          IF r \in live THEN NewOrder("unknown", order[r].requested_volume, order[r].filled_volume) ELSE NoOrder]
    BY DEF restart_recover_venue
  <2>5. order' \in [Refs -> Order]
    BY <2>2, <2>4, NoOrderType DEF Sound
  <2>6. \A r \in live : Sound(order'[r])
    BY <2>1, <2>2, <2>4
  <2> QED BY <2>3, <2>4, <2>5, <2>6 DEF BookInv, OmsTypeOK, OrdersSound, Sound
<1>2. SchedOK' /\ LimiterOK'
  <2>1. <<>> \in Seq(Request) /\ Len(<<>>) = 0
    BY EmptySeq
  <2>2. 0 \in Strategies /\ StrategyCount \in Nat
    BY RouterAssumption DEF Strategies
  <2>3. Burst \in [G!RateLimitKinds -> Nat]
    BY RouterAssumption
  <2>4. SchedOK'
    BY <2>1, <2>2, Bounds DEF restart_recover_venue, EmptyQueues, SchedOK, Scheduler
  <2>5. limiter' = [tokens |-> Burst, pending |-> <<>>]
    BY DEF restart_recover_venue, FullBuckets
  <2>6. limiter' \in Limiter /\ limiter'.tokens = Burst /\ limiter'.pending = <<>>
    BY <2>1, <2>3, <2>5 DEF Limiter
  <2> QED BY <2>1, <2>3, <2>4, <2>6, Bounds DEF LimiterOK
<1>3. gates' \in Gates
  BY DEF restart_recover_venue, Gates, G!ConnectionStates
<1>4. notes' \in Notes
  BY DEF restart_recover_venue, Notes
<1>5. PoolOK' /\ VenueOK'
  BY SameVenue DEF restart_recover_venue, PoolOK
<1> QED BY <1>1, <1>2, <1>3, <1>4, <1>5, CoreFrom, FaultTypes, FetchTypes, RebuiltParts
        DEF restart_recover_venue

LEMMA DriverTodo ==
  ASSUME driver \in Driver, driver.pc = "reports"
  PROVE  driver \in Todo
BY DEF Driver, Idle, Todo

\* The reports that are still to be applied are reports the venue emitted.
TodoEmitted ==
  driver.pc = "reports" => \A r \in Refs, n \in 1 .. MaxReports :
                             <<r, n>> \in driver.todo => n <= Len(venue[r].log)

LEMMA CoreReconcileReport ==
  ASSUME CoreInv, TodoEmitted, ReconcileReport
  PROVE  /\ CoreInv' /\ driver.pc = "reports" /\ driver'.pc = "reports" /\ driver'.todo \subseteq driver.todo
         /\ \E r \in Refs, n \in 1 .. MaxReports :
              /\ n \in 1 .. Len(venue[r].log) /\ process(r, n)
              /\ notes'.orphaned = notes.orphaned \cup (live \ live')
              /\ notes'.unbacked = IF Outgrown(r, n) THEN notes.unbacked \cup {r} ELSE notes.unbacked
              /\ notes'.waited = notes.waited
<1> USE CoreParts
<1>1. PICK r \in Refs, n \in 1 .. MaxReports :
        /\ <<r, n>> \in driver.todo /\ process(r, n)
        /\ driver' = [driver EXCEPT !.todo = @ \ {<<r, n>>},
                                    !.bad = @ \/ Outcome(r, n) \in {"illegal", "unknown_order"}]
        /\ notes' = [notes EXCEPT !.orphaned = @ \cup (live \ live'),
                                  !.unbacked = IF Outgrown(r, n) THEN @ \cup {r} ELSE @]
  BY DEF ReconcileReport
<1>2. driver.pc = "reports" /\ UNCHANGED <<venue, ledger, gates, sched, limiter, budget>>
  BY DEF ReconcileReport
<1>3. n \in 1 .. Len(venue[r].log)
  BY <1>1, <1>2, VenueParts, Bounds DEF TodoEmitted
<1>4. BookInv' /\ PoolOK' /\ live' \subseteq live
  BY <1>1, <1>3, ProcessTypes
<1>5. driver' \in Driver /\ driver'.pc = "reports" /\ driver'.todo \subseteq driver.todo
  <2>1. driver \in Todo
    BY <1>2, DriverTodo
  <2>2. PICK t, b : t = driver.todo \ {<<r, n>>}
                    /\ b = (driver.bad \/ Outcome(r, n) \in {"illegal", "unknown_order"})
    OBVIOUS
  <2>3. t \in SUBSET (Refs \X (1 .. MaxReports)) /\ t \subseteq driver.todo
    BY <2>1, <2>2 DEF Todo
  <2>4. b \in BOOLEAN
    BY <2>2
  <2>5. driver' = [driver EXCEPT !.todo = t, !.bad = b]
    BY <1>1, <2>2
  <2>6. driver' \in Todo /\ driver'.todo = t /\ driver'.pc = "reports"
    BY <2>1, <2>3, <2>4, <2>5 DEF Todo
  <2> QED BY <2>3, <2>6 DEF Driver, Todo
<1>6. /\ notes' \in Notes /\ notes'.orphaned = notes.orphaned \cup (live \ live')
      /\ notes'.unbacked = IF Outgrown(r, n) THEN notes.unbacked \cup {r} ELSE notes.unbacked
      /\ notes'.waited = notes.waited
  <2>1. PICK o, u : o = notes.orphaned \cup (live \ live')
                    /\ u = IF Outgrown(r, n) THEN notes.unbacked \cup {r} ELSE notes.unbacked
    OBVIOUS
  <2>2. o \in SUBSET Refs /\ u \in SUBSET Refs
    BY <2>1 DEF Notes, BookInv, OmsTypeOK
  <2>3. notes' = [notes EXCEPT !.orphaned = o, !.unbacked = u]
    BY <1>1, <2>1
  <2> QED BY <2>1, <2>2, <2>3 DEF Notes
<1>7. CoreInv'
  BY <1>2, <1>4, <1>5, <1>6, CoreFrom, SameVenue, SameSched, SameLimiter
<1> QED BY <1>1, <1>2, <1>3, <1>5, <1>6, <1>7

LEMMA ViewType ==
  ASSUME CoreInv
  PROVE  /\ LocalOrders \in [live -> [state : OrderStates, requested : Nat, filled : Nat]]
         /\ VenueOrders \in [OpenAtVenue -> [state : OrderStates, requested : Nat, filled : Nat]]
         /\ live \subseteq Refs /\ OpenAtVenue \subseteq Refs
<1> USE CoreParts
<1>1. live \subseteq Refs /\ OpenAtVenue \subseteq Refs
  BY DEF BookInv, OmsTypeOK, OpenAtVenue
<1>2. \A r \in live : order[r] \in Order
  BY <1>1 DEF BookInv, OmsTypeOK
<1>3. \A r \in OpenAtVenue : venue[r] \in VenueView
  BY <1>1 DEF VenueOK
<1> QED BY <1>1, <1>2, <1>3 DEF LocalOrders, VenueOrders, View, Order, VenueView

LEMMA ListType ==
  ASSUME NEW A \in SUBSET Refs, NEW f \in [A -> [state : OrderStates, requested : Nat, filled : Nat]],
         NEW S \in SUBSET A
  PROVE  Restrict(f, S) \in OrderLists
<1>1. Restrict(f, S) = [x \in S |-> f[x]]
  BY DEF Restrict
<1>2. [x \in S |-> f[x]] \in [S -> [state : OrderStates, requested : Nat, filled : Nat]]
  OBVIOUS
<1> QED BY <1>1, <1>2 DEF OrderLists

\* The book's orders are listed.
LEMMA ListLocalTypes ==
  ASSUME CoreInv, NEW room \in Room, NEW bad \in BOOLEAN, NEW strict \in BOOLEAN,
         ListLocal(room, bad, strict)
  PROVE  /\ driver' \in Driver /\ driver'.pc = "fetch" /\ driver'.room = room
         /\ DOMAIN driver'.local \subseteq live
         /\ \A r \in DOMAIN driver'.local : driver'.local[r] = LocalOrders[r]
         /\ DOMAIN driver'.local = live \/ Cardinality(DOMAIN driver'.local) = room.local
<1>1. PICK S \in SUBSET live :
        /\ S = live \/ Cardinality(S) = room.local
        /\ driver' = [pc |-> "fetch", room |-> room, bad |-> bad, strict |-> strict,
                      local |-> Restrict(LocalOrders, S)]
  BY DEF ListLocal, Copied
<1>2. PICK l : l = Restrict(LocalOrders, S)
  OBVIOUS
<1>3. l \in OrderLists
  BY <1>1, <1>2, ViewType, ListType
<1>4. DOMAIN l = S /\ \A r \in S : l[r] = LocalOrders[r]
  BY <1>2 DEF Restrict
<1>5. driver' = [pc |-> "fetch", room |-> room, bad |-> bad, strict |-> strict, local |-> l]
  BY <1>1, <1>2
<1>6. driver' \in [pc : {"fetch"}, room : Room, bad : BOOLEAN, strict : BOOLEAN, local : OrderLists]
  BY <1>3, <1>5
<1>7. driver' \in Driver
  BY <1>6 DEF Driver
<1> QED BY <1>1, <1>4, <1>5, <1>7

Fetching == [pc : {"fetch"}, room : Room, bad : BOOLEAN, strict : BOOLEAN, local : OrderLists]
Comparing == [pc : {"compare"}, room : Room, bad : BOOLEAN, strict : BOOLEAN, local : OrderLists,
              remote : OrderLists, seen : [Refs -> Nat]]

LEMMA DriverLists ==
  ASSUME driver \in Driver
  PROVE  /\ driver.pc = "fetch" => driver \in Fetching
         /\ driver.pc = "compare" => driver \in Comparing
BY DEF Driver, Idle, Fetching, Comparing

\* The venue's orders are fetched.
LEMMA FetchOpenTypes ==
  ASSUME CoreInv, FetchOpenOrders
  PROVE  /\ driver.pc = "fetch" /\ driver' \in Driver /\ driver'.pc = "compare"
         /\ driver'.room = driver.room /\ driver'.local = driver.local
         /\ driver'.seen = [r \in Refs |-> Len(venue[r].log)]
         /\ DOMAIN driver'.remote \subseteq OpenAtVenue
         /\ \A r \in DOMAIN driver'.remote : driver'.remote[r] = VenueOrders[r]
         /\ DOMAIN driver'.remote = OpenAtVenue \/ Cardinality(DOMAIN driver'.remote) = driver.room.remote
<1>1. driver.pc = "fetch" /\ driver \in Fetching
  BY CoreParts, DriverLists DEF FetchOpenOrders
<1>2. PICK S \in SUBSET OpenAtVenue :
        /\ S = OpenAtVenue \/ Cardinality(S) = driver.room.remote
        /\ driver' = [pc |-> "compare", room |-> driver.room, bad |-> driver.bad, strict |-> driver.strict,
                      local |-> driver.local, remote |-> Restrict(VenueOrders, S),
                      seen |-> [r \in Refs |-> Len(venue[r].log)]]
  BY DEF FetchOpenOrders, Copied
<1>3. PICK l, m : l = Restrict(VenueOrders, S) /\ m = [r \in Refs |-> Len(venue[r].log)]
  OBVIOUS
<1>4. l \in OrderLists
  BY <1>2, <1>3, ViewType, ListType
<1>5. m \in [Refs -> Nat]
  BY <1>3, CoreParts, VenueParts
<1>6. DOMAIN l = S /\ \A r \in S : l[r] = VenueOrders[r]
  BY <1>3 DEF Restrict
<1>7. driver' = [pc |-> "compare", room |-> driver.room, bad |-> driver.bad, strict |-> driver.strict,
                 local |-> driver.local, remote |-> l, seen |-> m]
  BY <1>2, <1>3
<1>8. driver' \in Comparing
  BY <1>1, <1>4, <1>5, <1>7 DEF Fetching, Comparing
<1>9. driver' \in Driver
  BY <1>8 DEF Driver, Comparing
<1> QED BY <1>1, <1>2, <1>3, <1>6, <1>7, <1>9

\* What the steps of a comparison leave alone.
LEMMA CoreCompares ==
  ASSUME CoreInv, Compares, gates' \in Gates, driver' \in Driver
  PROVE  CoreInv'
BY CoreParts, CoreFrom, SameBook, SamePool, SameVenue, SameSched, SameLimiter DEF Compares

LEMMA CoreSnapshot ==
  ASSUME CoreInv, SnapshotOrders \/ retry_after_resolution
  PROVE  CoreInv' /\ driver'.pc = "fetch" /\ driver.pc # "create" /\ Compares
         /\ \E room \in Room, bad \in BOOLEAN, strict \in BOOLEAN : ListLocal(room, bad, strict)
<1> USE CoreParts
<1>1. CASE SnapshotOrders
  <2>1. driver.room \in Room /\ driver.bad \in BOOLEAN
    BY <1>1, DriverTodo DEF SnapshotOrders, Todo
  <2>2. ListLocal(driver.room, driver.bad, FALSE)
    BY <1>1 DEF SnapshotOrders
  <2> QED BY <1>1, <2>1, <2>2, ListLocalTypes, CoreCompares DEF SnapshotOrders
<1>2. CASE retry_after_resolution
  <2>1. PICK room \in Room : ListLocal(room, FALSE, TRUE)
    BY <1>2, RouterAssumption DEF retry_after_resolution
  <2>2. driver.pc # "create"
    BY <1>2 DEF retry_after_resolution, IsIdle, Idle
  <2> QED BY <1>2, <2>1, <2>2, ListLocalTypes, CoreCompares DEF retry_after_resolution
<1> QED BY <1>1, <1>2

LEMMA CoreFetchOpen ==
  ASSUME CoreInv, FetchOpenOrders
  PROVE  CoreInv'
BY FetchOpenTypes, CoreCompares, CoreParts DEF FetchOpenOrders

LEMMA CoreRecovery ==
  ASSUME CoreInv, run_reconciliation \/ CompareOrders
  PROVE  CoreInv'
<1> USE CoreParts
<1>1. CASE run_reconciliation
  BY <1>1, FetchTypes, CoreFrom, SameBook, SamePool, SameVenue, SameSched, SameLimiter
     DEF run_reconciliation
<1>2. CASE CompareOrders
  <2>1. gates' \in Gates
    <3>1. "ready" \in G!ConnectionStates
      BY DEF G!ConnectionStates
    <3>2. gates' = [gates EXCEPT !.conn = "ready"] \/ gates' = [gates EXCEPT !.conn = gates.conn]
      BY <1>2 DEF CompareOrders
    <3> QED BY <3>1, <3>2, GatesParts
  <2>2. driver' \in Driver
    BY <1>2 DEF CompareOrders, Driver
  <2> QED BY <1>2, <2>1, <2>2, CoreCompares DEF CompareOrders
<1> QED BY <1>1, <1>2

LEMMA CoreResolveUnknown ==
  ASSUME CoreInv, NEW r \in Refs, ResolveUnknown(r)
  PROVE  /\ CoreInv' /\ r \in live /\ live' = live \ {r}
         /\ \A x \in Refs \ {r} : order'[x] = order[x]
         /\ notes'.orphaned = notes.orphaned \cup {r} /\ notes'.unbacked = notes.unbacked
         /\ notes'.waited = notes.waited
<1> USE CoreParts
<1>1. PICK t \in Terminal : transition(r, t)
  BY DEF ResolveUnknown, resolve_unknown
<1>2. t \in OrderStates /\ is_terminal(t)
  BY DEF Terminal, OrderStates, is_terminal
<1>3. /\ BookInv' /\ r \in live /\ live' = live \ {r}
      /\ \A x \in Refs \ {r} : order'[x] = order[x]
  BY <1>1, <1>2, TransitionBook
<1>4. /\ notes' \in Notes /\ notes'.orphaned = notes.orphaned \cup {r}
      /\ notes'.unbacked = notes.unbacked /\ notes'.waited = notes.waited
  <2>1. PICK o : o = notes.orphaned \cup {r}
    OBVIOUS
  <2>2. notes' = [notes EXCEPT !.orphaned = o] /\ o \in SUBSET Refs
    BY <2>1 DEF ResolveUnknown, Notes
  <2> QED BY <2>1, <2>2 DEF Notes
<1> QED BY <1>3, <1>4, CoreFrom, SamePool, SameVenue, SameSched, SameLimiter DEF ResolveUnknown
-----------------------------------------------------------------------------
(* TypeOK and the soundness of live orders. *)

LEMMA CoreInit ==
  ASSUME Init
  PROVE  CoreInv /\ TodoEmitted
<1>1. PICK s \in Scenarios :
        /\ OmsInit
        /\ held = {} /\ late = {} /\ ledger = Empty
        /\ venue = [r \in Refs |-> NotListed]
        /\ gates = [conn |-> "connected", session |-> s.session, halted |-> FALSE]
        /\ sched = EmptyQueues /\ limiter = FullBuckets /\ driver = Idle
        /\ budget = [requests |-> s.requests, faults |-> s.faults, ticks |-> 0]
        /\ notes = [unbacked |-> {}, orphaned |-> {}, waited |-> [s1 \in Strategies |-> 0]]
  BY DEF Init
<1>2. s.session \in G!SessionStates /\ s.requests \in SUBSET Request /\ s.faults \in SUBSET FaultKinds
  BY RouterAssumption
<1>3. OmsTypeOK /\ OrdersSound
  BY <1>1, NoOrderType DEF OmsInit, OmsTypeOK, OrdersSound
<1>4. <<>> \in Seq(Request) /\ <<>> \in Seq(Nat) /\ <<>> \in Seq([kind : Kinds, volume : Nat]) /\ Len(<<>>) = 0
  BY EmptySeq
<1>5. VenueOK
  <2>1. NotListed \in VenueView /\ NotListed.log = <<>>
    BY <1>4 DEF NotListed, VenueView, OrderStates
  <2> QED BY <1>1, <1>4, <2>1, Bounds DEF VenueOK
<1>6. ledger \in Ledger
  BY <1>1 DEF Empty, Ledger, G!NoRes
<1>7. gates \in Gates
  BY <1>1, <1>2 DEF Gates, G!ConnectionStates
<1>8. budget \in Budget
  BY <1>1, <1>2, Bounds DEF Budget
<1>9. SchedOK
  <2>1. 0 \in Strategies
    BY RouterAssumption DEF Strategies
  <2> QED BY <1>1, <1>4, <2>1, Bounds DEF EmptyQueues, SchedOK, Scheduler
<1>10. LimiterOK
  <2>1. Burst \in [G!RateLimitKinds -> Nat]
    BY RouterAssumption
  <2>2. limiter \in Limiter /\ limiter.tokens = Burst /\ limiter.pending = <<>>
    BY <1>1, <1>4, <2>1 DEF FullBuckets, Limiter
  <2> QED BY <1>4, <2>1, <2>2, Bounds DEF LimiterOK
<1>11. driver \in Driver /\ driver.pc = "idle"
  BY <1>1 DEF Driver, Idle
<1>12. notes \in Notes /\ PoolOK
  BY <1>1 DEF Notes, PoolOK
<1> QED BY <1>3, <1>5, <1>6, <1>7, <1>8, <1>9, <1>10, <1>11, <1>12
        DEF CoreInv, TypeOK, TodoEmitted, VenueOK, SchedOK, LimiterOK, PoolOK

LEMMA TodoKept ==
  ASSUME CoreInv, TodoEmitted, LogsGrow, CoreInv',
         \/ driver' = driver
         \/ driver'.pc # "reports"
         \/ driver.pc = "reports" /\ driver'.todo \subseteq driver.todo
         \/ driver'.todo \subseteq AllReports
  PROVE  TodoEmitted'
<1>1. \A r \in Refs : Len(venue[r].log) \in Nat /\ Len(venue'[r].log) \in Nat
  <2>1. \A r \in Refs : Len(venue[r].log) \in Nat
    BY CoreParts, VenueParts
  <2>2. \A r \in Refs : venue'[r].log \in Seq(Report)
    BY DEF CoreInv, TypeOK, VenueView, Report
  <2>3. \A r \in Refs : Len(venue'[r].log) \in Nat
    BY <2>2, LenProperties
  <2> QED BY <2>1, <2>3
<1> SUFFICES ASSUME driver'.pc = "reports", NEW r \in Refs, NEW n \in 1 .. MaxReports,
                    <<r, n>> \in driver'.todo
             PROVE  n <= Len(venue'[r].log)
  BY DEF TodoEmitted
<1>2. n \in Nat /\ Len(venue[r].log) <= Len(venue'[r].log)
  BY Bounds DEF LogsGrow
<1>3. CASE driver.pc = "reports" /\ <<r, n>> \in driver.todo
  BY <1>1, <1>2, <1>3 DEF TodoEmitted
<1>4. CASE driver'.todo \subseteq AllReports
  <2>1. <<r, n>> \in AllReports
    BY <1>4
  <2> QED BY <1>1, <1>2, <2>1 DEF AllReports
<1> QED BY <1>3, <1>4

LEMMA SameLogs == ASSUME CoreInv, UNCHANGED venue PROVE LogsGrow
<1>1. \A r \in Refs : Len(venue[r].log) \in Nat
  BY CoreParts, VenueParts
<1> QED BY <1>1 DEF LogsGrow

LEMMA IdlePc == Idle.pc = "idle"
BY DEF Idle

\* One step of the pipeline, for the types and the book.
LEMMA CoreStep ==
  ASSUME CoreInv, TodoEmitted, [Next]_vars
  PROVE  CoreInv' /\ TodoEmitted'
<1> USE CoreParts
<1>1. ASSUME NEW q \in Request, enqueue(q) PROVE CoreInv' /\ TodoEmitted'
  BY <1>1, CoreEnqueue, SameLogs, TodoKept DEF enqueue
<1>2. ASSUME NEW q \in Request, submit_create(q) PROVE CoreInv' /\ TodoEmitted'
  <2>1. CoreInv' /\ UNCHANGED venue
    BY <1>2, CoreSubmitCreate DEF submit_create
  <2>2. driver'.pc # "reports"
    BY <1>2, IdlePc DEF submit_create
  <2> QED BY <2>1, <2>2, SameLogs, TodoKept
<1>3. ASSUME NEW q \in Request, submit_cancel(q) PROVE CoreInv' /\ TodoEmitted'
  BY <1>3, CoreSubmitCancel, SameLogs, TodoKept DEF submit_cancel
<1>4. ASSUME NEW q \in Request, submit_replace(q) PROVE CoreInv' /\ TodoEmitted'
  <2>1. CoreInv' /\ UNCHANGED driver
    BY <1>4, CoreSubmitReplace DEF submit_replace
  <2>2. LogsGrow
    <3>1. CASE Replacing(q) /\ Replaces(q)
      BY <3>1, ReplaceBook DEF Replacing
    <3>2. CASE UNCHANGED <<omsVars, venue>>
      BY <3>2, SameLogs
    <3> QED BY <1>4, <3>1, <3>2 DEF submit_replace, route_replace
  <2> QED BY <2>1, <2>2, TodoKept
<1>5. CASE ApplyCreate
  <2>1. CoreInv' /\ UNCHANGED venue
    BY <1>5, CoreApplyCreate DEF ApplyCreate
  <2>2. driver'.pc # "reports"
    BY <1>5, IdlePc DEF ApplyCreate
  <2> QED BY <2>1, <2>2, SameLogs, TodoKept
<1>6. CASE drain_pending
  <2>1. CoreInv' /\ UNCHANGED driver /\ Head(limiter.pending) \in Request
    BY <1>6, CoreDrainPending DEF drain_pending
  <2>2. LogsGrow
    <3>1. CASE CanReplace(Head(limiter.pending)) /\ Replaces(Head(limiter.pending))
      BY <2>1, <3>1, ReplaceBook
    <3>2. CASE UNCHANGED venue
      BY <3>2, SameLogs
    <3> QED BY <1>6, <3>1, <3>2 DEF drain_pending
  <2> QED BY <2>1, <2>2, TodoKept
<1>7. CASE refill
  BY <1>7, CoreRefill, SameLogs, TodoKept DEF refill
<1>8. ASSUME NEW r \in Refs, NEW n \in 1 .. MaxReports, submit_report(r, n) PROVE CoreInv' /\ TodoEmitted'
  BY <1>8, CoreSubmitReport, SameLogs, TodoKept DEF submit_report
<1>9. ASSUME NEW r \in Refs, Send(r) PROVE CoreInv' /\ TodoEmitted'
  BY <1>9, CoreSend, TodoKept DEF Send, Rest
<1>10. ASSUME NEW r \in Refs, VenueMoves(r) PROVE CoreInv' /\ TodoEmitted'
  <2>1. UNCHANGED driver
    BY <1>10 DEF VenueMoves, VenueDoes, Rest
  <2> QED BY <1>10, <2>1, CoreVenueMoves, TodoKept
<1>11. ASSUME NEW r \in Refs, ResolveUnknown(r) PROVE CoreInv' /\ TodoEmitted'
  BY <1>11, CoreResolveUnknown, SameLogs, TodoKept DEF ResolveUnknown
<1>12. CASE halt_globally \/ set_session \/ disconnect \/ begin_recovery
  <2>1. UNCHANGED <<venue, driver>>
    BY <1>12 DEF halt_globally, set_session, disconnect, begin_recovery, Others
  <2> QED BY <1>12, <2>1, CoreGateActions, SameLogs, TodoKept
<1>13. CASE restart_recover_venue
  BY <1>13, CoreRestart, FetchTypes, SameLogs, TodoKept DEF restart_recover_venue
<1>14. CASE run_reconciliation
  BY <1>14, CoreRecovery, FetchTypes, SameLogs, TodoKept DEF run_reconciliation
<1>15. CASE ReconcileReport
  BY <1>15, CoreReconcileReport, SameLogs, TodoKept DEF ReconcileReport
<1>16. CASE CompareOrders
  <2>1. driver'.pc # "reports" /\ UNCHANGED venue
    BY <1>16, IdlePc DEF CompareOrders, Compares
  <2> QED BY <1>16, <2>1, CoreRecovery, SameLogs, TodoKept
<1>18. CASE SnapshotOrders \/ retry_after_resolution
  <2>1. CoreInv' /\ driver'.pc = "fetch" /\ UNCHANGED venue
    BY <1>18, CoreSnapshot DEF Compares
  <2> QED BY <2>1, SameLogs, TodoKept
<1>19. CASE FetchOpenOrders
  <2>1. CoreInv' /\ driver'.pc = "compare" /\ UNCHANGED venue
    BY <1>19, CoreFetchOpen, FetchOpenTypes DEF FetchOpenOrders, Compares
  <2> QED BY <2>1, SameLogs, TodoKept
<1>17. CASE UNCHANGED vars
  <2>1. CoreInv'
    BY <1>17, CoreFrom, SameBook, SamePool, SameVenue, SameSched, SameLimiter DEF vars
  <2> QED BY <1>17, <2>1, SameLogs, TodoKept DEF vars
<1> QED BY <1>1, <1>2, <1>3, <1>4, <1>5, <1>6, <1>7, <1>8, <1>9, <1>10, <1>11, <1>12, <1>13,
           <1>14, <1>15, <1>16, <1>17, <1>18, <1>19 DEF Next

\* Whatever strategies ask for, venue, faults and restarts do: every component stays within its
\* types and capacities - queues, deferred requests, buckets, gap pool -, only reports the venue
\* emitted are reconciled, and a live order is never terminal and never overfilled.
THEOREM RouterTypes == Spec => [](TypeOK /\ OrdersSound)
<1>1. Init => CoreInv /\ TodoEmitted
  BY CoreInit
<1>2. CoreInv /\ TodoEmitted /\ [Next]_vars => CoreInv' /\ TodoEmitted'
  BY CoreStep
<1>3. CoreInv => TypeOK /\ OrdersSound
  BY DEF CoreInv
<1> QED BY <1>1, <1>2, <1>3, PTL DEF Spec
-----------------------------------------------------------------------------
(* READY. *)

\* The list of the book's orders is what the book has, as nothing else moves the book while the
\* driver compares; the list of the venue's orders is what the venue has but for the orders it
\* has reported on since. An order is missing only from a list that is full.
LocalList ==
  driver.pc \in {"fetch", "compare"} =>
    /\ DOMAIN driver.local \subseteq live
    /\ \A r \in DOMAIN driver.local : driver.local[r] = LocalOrders[r]
    /\ DOMAIN driver.local = live \/ Cardinality(DOMAIN driver.local) = driver.room.local

RemoteAt(r) ==
  /\ r \in DOMAIN driver.remote => r \in OpenAtVenue /\ driver.remote[r] = VenueOrders[r]
  /\ r \in OpenAtVenue => \/ r \in DOMAIN driver.remote
                          \/ Cardinality(DOMAIN driver.remote) = driver.room.remote

RemoteList ==
  driver.pc = "compare" =>
    \A r \in Refs : Len(venue[r].log) > driver.seen[r] \/ (Len(venue[r].log) = driver.seen[r] /\ RemoteAt(r))

Lists == LocalList /\ RemoteList

LEMMA ListsEnd ==
  ASSUME driver'.pc \notin {"fetch", "compare"}
  PROVE  Lists'
BY DEF Lists, LocalList, RemoteList

LEMMA LocalListKept ==
  ASSUME LocalList, UNCHANGED <<driver, omsVars>>
  PROVE  LocalList'
BY DEF LocalList, LocalOrders, omsVars

LEMMA ListsKept ==
  ASSUME Lists, UNCHANGED <<driver, omsVars, venue>>
  PROVE  Lists'
<1>1. LocalList'
  BY LocalListKept DEF Lists
<1>2. RemoteList'
  BY DEF Lists, RemoteList, RemoteAt, OpenAtVenue, VenueOrders
<1> QED BY <1>1, <1>2 DEF Lists

LEMMA ListsVenue ==
  ASSUME CoreInv, Lists, NEW r \in Refs, Reports(r), UNCHANGED <<driver, omsVars>>
  PROVE  Lists'
<1>1. LocalList'
  BY LocalListKept DEF Lists
<1>2. ASSUME driver.pc = "compare", NEW x \in Refs
      PROVE  Len(venue'[x].log) > driver.seen[x] \/ (Len(venue'[x].log) = driver.seen[x] /\ RemoteAt(x)')
  <2>1. Len(venue[x].log) > driver.seen[x] \/ (Len(venue[x].log) = driver.seen[x] /\ RemoteAt(x))
    BY <1>2 DEF Lists, RemoteList
  <2>2. CASE x = r
    <3>1. Len(venue[x].log) \in Nat /\ driver.seen[x] \in Nat
      BY <1>2, CoreParts, VenueParts, DriverLists DEF Comparing
    <3> QED BY <2>1, <2>2, <3>1 DEF Reports
  <2>3. CASE x # r
    <3>1. venue'[x] = venue[x]
      BY <2>3 DEF Reports
    <3>2. /\ x \in OpenAtVenue' <=> x \in OpenAtVenue
          /\ x \in OpenAtVenue => VenueOrders'[x] = VenueOrders[x]
      BY <3>1 DEF OpenAtVenue, VenueOrders
    <3>3. RemoteAt(x) => RemoteAt(x)'
      BY <3>2 DEF RemoteAt
    <3> QED BY <2>1, <3>1, <3>3
  <2> QED BY <2>2, <2>3
<1>3. RemoteList'
  BY <1>2 DEF RemoteList
<1> QED BY <1>1, <1>3 DEF Lists

LEMMA ListsSnapshot ==
  ASSUME CoreInv, SnapshotOrders \/ retry_after_resolution
  PROVE  Lists'
<1>1. PICK room \in Room, bad \in BOOLEAN, strict \in BOOLEAN : ListLocal(room, bad, strict)
  BY CoreSnapshot
<1>2. /\ driver'.pc = "fetch" /\ driver'.room = room
      /\ DOMAIN driver'.local \subseteq live
      /\ \A r \in DOMAIN driver'.local : driver'.local[r] = LocalOrders[r]
      /\ DOMAIN driver'.local = live \/ Cardinality(DOMAIN driver'.local) = room.local
  BY <1>1, ListLocalTypes
<1>3. live' = live /\ LocalOrders' = LocalOrders
  BY CoreSnapshot DEF Compares, omsVars, LocalOrders
<1> QED BY <1>2, <1>3 DEF Lists, LocalList, RemoteList

LEMMA ListsFetch ==
  ASSUME CoreInv, Lists, FetchOpenOrders
  PROVE  Lists'
<1>1. UNCHANGED <<omsVars, venue>>
  BY DEF FetchOpenOrders, Compares
<1>2. /\ driver.pc = "fetch" /\ driver'.pc = "compare"
      /\ driver'.room = driver.room /\ driver'.local = driver.local
      /\ driver'.seen = [r \in Refs |-> Len(venue[r].log)]
      /\ DOMAIN driver'.remote \subseteq OpenAtVenue
      /\ \A r \in DOMAIN driver'.remote : driver'.remote[r] = VenueOrders[r]
      /\ DOMAIN driver'.remote = OpenAtVenue \/ Cardinality(DOMAIN driver'.remote) = driver.room.remote
  BY FetchOpenTypes
<1>3. live' = live /\ LocalOrders' = LocalOrders /\ OpenAtVenue' = OpenAtVenue /\ VenueOrders' = VenueOrders
  BY <1>1 DEF omsVars, LocalOrders, OpenAtVenue, VenueOrders
<1>4. LocalList'
  BY <1>2, <1>3 DEF Lists, LocalList
<1>5. RemoteList'
  BY <1>1, <1>2, <1>3 DEF RemoteList, RemoteAt
<1> QED BY <1>4, <1>5 DEF Lists

LEMMA ListsStep ==
  ASSUME CoreInv, TodoEmitted, Lists, [Next]_vars
  PROVE  Lists'
<1>1. ASSUME NEW q \in Request, enqueue(q) \/ submit_create(q) \/ submit_cancel(q) \/ submit_replace(q)
      PROVE  Lists'
  BY <1>1, IdlePc, ListsEnd DEF enqueue, submit_create, submit_cancel, submit_replace, Dispatches, IsIdle
<1>2. CASE ApplyCreate \/ drain_pending
  BY <1>2, IdlePc, ListsEnd DEF ApplyCreate, drain_pending, IsIdle
<1>3. ASSUME NEW r \in Refs, NEW n \in 1 .. MaxReports, submit_report(r, n) PROVE Lists'
  BY <1>3, IdlePc, ListsEnd DEF submit_report, IsIdle
<1>4. ASSUME NEW r \in Refs, Send(r) \/ ResolveUnknown(r) PROVE Lists'
  BY <1>4, IdlePc, ListsEnd DEF Send, ResolveUnknown, IsIdle, Rest
<1>5. CASE set_session \/ disconnect \/ begin_recovery
  BY <1>5, IdlePc, ListsEnd DEF set_session, disconnect, begin_recovery, IsIdle, Others
<1>6. CASE refill \/ halt_globally \/ UNCHANGED vars
  BY <1>6, ListsKept DEF refill, halt_globally, Others, vars
<1>7. ASSUME NEW r \in Refs, VenueMoves(r) PROVE Lists'
  <2>1. UNCHANGED <<driver, omsVars>>
    BY <1>7 DEF VenueMoves, VenueDoes, Rest
  <2> QED BY <1>7, <2>1, CoreVenueMoves, ListsVenue
<1>8. CASE restart_recover_venue \/ run_reconciliation
  BY <1>8, FetchTypes, ListsEnd DEF restart_recover_venue, run_reconciliation
<1>9. CASE ReconcileReport
  BY <1>9, CoreReconcileReport, ListsEnd
<1>10. CASE CompareOrders
  BY <1>10, IdlePc, ListsEnd DEF CompareOrders
<1> QED BY <1>1, <1>2, <1>3, <1>4, <1>5, <1>6, <1>7, <1>8, <1>9, <1>10, ListsSnapshot, ListsFetch DEF Next

LEMMA ConnKept ==
  ASSUME CoreInv, TodoEmitted, Next, gates.conn # "ready", gates'.conn = "ready"
  PROVE  CompareOrders
<1> USE CoreParts
<1>1. ASSUME NEW q \in Request, enqueue(q) \/ submit_create(q) \/ submit_cancel(q) \/ submit_replace(q)
      PROVE  FALSE
  BY <1>1 DEF enqueue, submit_create, submit_cancel, submit_replace, Dispatches
<1>2. CASE ApplyCreate \/ drain_pending \/ refill
  BY <1>2 DEF ApplyCreate, drain_pending, refill
<1>3. ASSUME NEW r \in Refs, NEW n \in 1 .. MaxReports, submit_report(r, n) PROVE FALSE
  BY <1>3 DEF submit_report
<1>4. ASSUME NEW r \in Refs, Send(r) \/ VenueMoves(r) \/ ResolveUnknown(r) PROVE FALSE
  BY <1>4 DEF Send, VenueMoves, VenueDoes, ResolveUnknown, Rest
<1>5. CASE halt_globally \/ set_session
  BY <1>5, GatesParts DEF halt_globally, set_session
<1>6. CASE disconnect \/ begin_recovery
  BY <1>6, GatesParts DEF disconnect, begin_recovery, G!ConnectionStates
<1>7. CASE restart_recover_venue
  <2>1. gates'.conn = "reconciling"
    BY <1>7 DEF restart_recover_venue, Gates
  <2> QED BY <2>1
<1>8. CASE run_reconciliation \/ ReconcileReport
  BY <1>8 DEF run_reconciliation, ReconcileReport
<1>9. CASE SnapshotOrders \/ retry_after_resolution \/ FetchOpenOrders
  BY <1>9 DEF SnapshotOrders, retry_after_resolution, FetchOpenOrders
<1> QED BY <1>1, <1>2, <1>3, <1>4, <1>5, <1>6, <1>7, <1>8, <1>9 DEF Next

\* A comparison that is clean and has room for its results compares equal lists.
LEMMA CleanComparison ==
  ASSUME CoreInv, CompareOrders, gates.conn # "ready", gates'.conn = "ready",
         Cardinality(Listed) <= driver.room.results
  PROVE  /\ DOMAIN driver.local = DOMAIN driver.remote
         /\ \A r \in DOMAIN driver.local : driver.local[r] = driver.remote[r] /\ driver.local[r].state # "unknown"
<1> USE CoreParts
<1>1. PICK a, b, c : a = driver.local /\ b = driver.remote /\ c = G!compare(a, b)
  OBVIOUS
<1>2. DOMAIN c = Listed /\ \A r \in Listed : c[r] = G!CompareStatus(a, b, r)
  BY <1>1 DEF G!compare, Listed
<1>3. driver.pc = "compare" /\ driver \in Comparing
  BY DriverLists DEF CompareOrders
<1>4. PICK S \in Copied(Listed, driver.room.results) :
        gates' = [gates EXCEPT !.conn = IF G!clean(Restrict(c, S), a, driver.bad) /\ (driver.strict => S = {})
                                        THEN "ready" ELSE @]
  BY <1>1, <1>2 DEF CompareOrders
<1>5. G!clean(Restrict(c, S), a, driver.bad)
  <2>1. CASE ~G!clean(Restrict(c, S), a, driver.bad)
    <3>1. gates' = [gates EXCEPT !.conn = gates.conn]
      BY <1>4, <2>1
    <3> QED BY <3>1, GatesParts
  <2> QED BY <2>1
<1>6. S = Listed
  <2>1. Listed \subseteq Refs
    BY <1>3 DEF Comparing, OrderLists, Listed
  <2>2. IsFiniteSet(Listed)
    BY <2>1, RouterAssumption, FS_Subset
  <2>3. S \in SUBSET Listed /\ (S = Listed \/ Cardinality(S) = driver.room.results)
    BY <1>4 DEF Copied
  <2>4. Cardinality(S) <= Cardinality(Listed) /\ (Cardinality(S) = Cardinality(Listed) => S = Listed)
        /\ Cardinality(S) \in Nat /\ Cardinality(Listed) \in Nat
    BY <2>2, <2>3, FS_Subset, FS_CardinalityType
  <2> QED BY <2>3, <2>4
<1>7. \A r \in Listed : G!CompareStatus(a, b, r) = "matched"
  <2>1. DOMAIN Restrict(c, S) = S /\ \A r \in S : Restrict(c, S)[r] = c[r]
    BY DEF Restrict
  <2>2. \A r \in S : Restrict(c, S)[r] = "matched"
    BY <1>5, <2>1 DEF G!clean
  <2> QED BY <1>2, <1>6, <2>1, <2>2
<1>8. \A r \in Listed : r \in DOMAIN a /\ r \in DOMAIN b /\ a[r] = b[r]
  BY <1>7 DEF G!CompareStatus
<1>9. \A r \in DOMAIN a : a[r].state # "unknown"
  BY <1>5 DEF G!clean
<1> QED BY <1>1, <1>8, <1>9 DEF Listed

LEMMA ReadyStep ==
  ASSUME CoreInv, TodoEmitted, Lists, Next, gates.conn # "ready", gates'.conn = "ready",
         Cardinality(Listed) <= driver.room.results
  PROVE  /\ \A r \in Refs : \/ Agreed(r)
                            \/ Len(venue[r].log) > driver.seen[r]
                            \/ r \notin Listed /\ ListFull
         /\ \A r \in DOMAIN driver.local : r \in live /\ order[r].state # "unknown"
<1>1. CompareOrders /\ driver.pc = "compare"
  BY ConnKept DEF CompareOrders
<1>2. /\ DOMAIN driver.local = DOMAIN driver.remote
      /\ \A r \in DOMAIN driver.local : driver.local[r] = driver.remote[r] /\ driver.local[r].state # "unknown"
  BY <1>1, CleanComparison
<1>3. /\ DOMAIN driver.local \subseteq live
      /\ \A r \in DOMAIN driver.local : driver.local[r] = LocalOrders[r]
      /\ DOMAIN driver.local = live \/ Cardinality(DOMAIN driver.local) = driver.room.local
  BY <1>1 DEF Lists, LocalList
<1>4. ASSUME NEW r \in Refs, ~(Len(venue[r].log) > driver.seen[r]), ~(r \notin Listed /\ ListFull)
      PROVE  Agreed(r)
  <2>1. RemoteAt(r)
    BY <1>1, <1>4 DEF Lists, RemoteList
  <2>2. CASE r \in Listed
    <3>1. r \in DOMAIN driver.local /\ r \in DOMAIN driver.remote
      BY <1>2, <2>2 DEF Listed
    <3> QED BY <1>2, <1>3, <2>1, <3>1 DEF RemoteAt, Agreed
  <2>3. CASE r \notin Listed
    <3>1. r \notin DOMAIN driver.local /\ r \notin DOMAIN driver.remote /\ ~ListFull
      BY <1>4, <2>3 DEF Listed
    <3> QED BY <1>3, <2>1, <3>1 DEF ListFull, RemoteAt, Agreed
  <2> QED BY <2>2, <2>3
<1>5. ASSUME NEW r \in DOMAIN driver.local PROVE r \in live /\ order[r].state # "unknown"
  <2>1. r \in live /\ driver.local[r] = LocalOrders[r] /\ driver.local[r].state # "unknown"
    BY <1>2, <1>3
  <2>2. LocalOrders[r].state = order[r].state
    BY <2>1 DEF LocalOrders, View
  <2> QED BY <2>1, <2>2
<1> QED BY <1>4, <1>5

\* VenueConnection::run_reconciliation and RecoveryWorkflow::retry_after_resolution set READY only
\* when the book differs from the venue by nothing but reports the venue emitted after the call
\* fetched its open orders, and no listed order is unknown - although the venue goes on between
\* the two lists and the comparison. It needs room for the results; an order on neither list is
\* excepted when one of them came back full. No other handler of the pipeline sets READY.
THEOREM ReadyIsAgreement == Spec => ReadyMeansAgreed
<1> DEFINE R == gates.conn # "ready" /\ gates'.conn = "ready" /\ Cardinality(Listed) <= driver.room.results =>
                  /\ \A r \in Refs : \/ Agreed(r)
                                     \/ Len(venue[r].log) > driver.seen[r]
                                     \/ r \notin Listed /\ ListFull
                  /\ \A r \in DOMAIN driver.local : r \in live /\ order[r].state # "unknown"
<1>1. Init => CoreInv /\ TodoEmitted /\ Lists
  <2>1. Init => Lists
    BY IdlePc DEF Init, Lists, LocalList, RemoteList
  <2> QED BY <2>1, CoreInit
<1>2. CoreInv /\ TodoEmitted /\ Lists /\ [Next]_vars => CoreInv' /\ TodoEmitted' /\ Lists'
  BY CoreStep, ListsStep
<1>3. CoreInv /\ TodoEmitted /\ Lists /\ [Next]_vars => [R]_vars
  BY ReadyStep
<1> QED BY <1>1, <1>2, <1>3, PTL DEF Spec, ReadyMeansAgreed
-----------------------------------------------------------------------------
(* No reservation outlives its order. *)

LEMMA UnbackedOnly ==
  ASSUME NEW k \in Notes, NEW r \in Refs, NEW b, NEW m,
         m = [k EXCEPT !.unbacked = IF b THEN @ \cup {r} ELSE @]
  PROVE  /\ m.orphaned = k.orphaned /\ m.waited = k.waited
         /\ m.unbacked = IF b THEN k.unbacked \cup {r} ELSE k.unbacked
<1>1. PICK u : u = IF b THEN k.unbacked \cup {r} ELSE k.unbacked
  OBVIOUS
<1>2. m = [k EXCEPT !.unbacked = u]
  BY <1>1
<1> QED BY <1>1, <1>2 DEF Notes

Creating(r) == driver.pc = "create" /\ driver.request.ref = r

\* A step that reserves nothing, keeps its orders or notes that they ended without the router,
\* and finishes no create.
LEMMA NothingLeaks ==
  ASSUME NoReservationLeaks,
         \A r \in Refs : G!Held(ledger', r) => G!Held(ledger, r),
         live \subseteq live' \cup notes'.orphaned, notes.orphaned \subseteq notes'.orphaned,
         driver.pc = "create" => driver' = driver
  PROVE  NoReservationLeaks'
BY DEF NoReservationLeaks

LEMMA IdleCreates == IsIdle => driver.pc # "create"
BY IdlePc DEF IsIdle

LEMMA LeaksSubmitCreate ==
  ASSUME CoreInv, NoReservationLeaks, NEW q, submit_create(q)
  PROVE  NoReservationLeaks'
<1> USE CoreParts
<1>1. Dispatches(q, "order") /\ q \in Request /\ q.ref \in Refs /\ q.volume \in Nat
  BY CoreSubmitCreate, RequestParts DEF submit_create
<1>2. notes'.orphaned = notes.orphaned /\ live' = live /\ driver.pc # "create"
  BY <1>1, TakenRequest, IdleCreates DEF submit_create, omsVars
<1>3. CASE UNCHANGED ledger
  BY <1>2, <1>3, NothingLeaks
<1>4. CASE /\ ledger' = G!reserve(ledger, q.ref, q.volume)
           /\ driver' = [pc |-> "create", request |-> q]
  <2>1. OnlyOf(q.ref, ledger, ledger')
    BY <1>1, <1>4, ReserveEffect
  <2>2. driver'.pc = "create" /\ driver'.request.ref = q.ref
    BY <1>4
  <2> SUFFICES ASSUME NEW r \in Refs, G!Held(ledger', r), r # q.ref
               PROVE  r \in live' \cup notes'.orphaned
    BY <2>2 DEF NoReservationLeaks
  <2>3. G!Held(ledger, r)
    BY <2>1 DEF OnlyOf, G!Held
  <2> QED BY <1>2, <2>3 DEF NoReservationLeaks
<1> QED BY <1>3, <1>4 DEF submit_create

LEMMA LeaksApplyCreate ==
  ASSUME CoreInv, NoReservationLeaks, ApplyCreate
  PROVE  NoReservationLeaks'
<1> USE CoreParts
<1>1. driver.pc = "create" /\ driver.request \in Request /\ notes' = notes
  BY DriverRequest DEF ApplyCreate
<1>2. PICK r, v : r = driver.request.ref /\ v = driver.request.volume
  OBVIOUS
<1>3. r \in Refs /\ v \in Nat
  BY <1>1, <1>2, RequestParts
<1>4. CASE create(r, v) /\ UNCHANGED ledger
  <2>1. live' = live \cup {r}
    BY <1>4 DEF create, Insert
  <2> QED BY <1>1, <1>2, <1>4, <2>1 DEF NoReservationLeaks
<1>5. CASE ledger' = G!release(ledger, r) /\ UNCHANGED omsVars
  <2>1. OnlyOf(r, ledger, ledger') /\ ~G!Held(ledger', r)
    BY <1>3, <1>5, ReleaseEffect
  <2>2. live' = live
    BY <1>5 DEF omsVars
  <2> SUFFICES ASSUME NEW x \in Refs, G!Held(ledger', x)
               PROVE  x \in live' \cup notes'.orphaned
    BY DEF NoReservationLeaks
  <2>3. x # r /\ G!Held(ledger, x)
    BY <2>1 DEF OnlyOf, G!Held
  <2> QED BY <1>1, <1>2, <2>2, <2>3 DEF NoReservationLeaks
<1> QED BY <1>2, <1>4, <1>5 DEF ApplyCreate

LEMMA LeaksSubmitCancel ==
  ASSUME CoreInv, NoReservationLeaks, NEW q, submit_cancel(q)
  PROVE  NoReservationLeaks'
<1> USE CoreParts
<1>1. Dispatches(q, "cancel") /\ q \in Request /\ q.ref \in Refs
  BY CoreSubmitCancel, RequestParts DEF submit_cancel
<1>2. notes'.orphaned = notes.orphaned /\ driver.pc # "create"
  BY <1>1, TakenRequest, IdleCreates DEF submit_cancel
<1>3. CASE UNCHANGED <<omsVars, ledger>>
  BY <1>2, <1>3, NothingLeaks DEF omsVars
<1>4. CASE transition(q.ref, "cancel_pending") /\ ledger' = CancelSeen(q.ref)
  <2>1. live' = live
    BY <1>4, TransitionBook DEF OrderStates, is_terminal, Terminal
  <2>2. PICK f, g, k : f = order[q.ref].filled_volume /\ g = FALSE /\ k = Sign[q.ref]
    OBVIOUS
  <2>3. f \in Nat /\ k \in Int /\ ledger' = G!reconcile(ledger, q.ref, f, g, k)
    BY <1>1, <1>4, <2>2, SignInt DEF BookInv, OmsTypeOK, Order, CancelSeen
  <2>4. OnlyOf(q.ref, ledger, ledger') /\ (~G!Held(ledger, q.ref) => ledger' = ledger)
    BY <1>1, <2>3, ReconcileEffect
  <2>5. \A r \in Refs : G!Held(ledger', r) => G!Held(ledger, r)
    BY <2>4 DEF OnlyOf, G!Held
  <2> QED BY <1>2, <2>1, <2>5, NothingLeaks
<1> QED BY <1>3, <1>4 DEF submit_cancel, route_cancel

LEMMA LeaksSubmitReplace ==
  ASSUME CoreInv, NoReservationLeaks, NEW q, submit_replace(q)
  PROVE  NoReservationLeaks'
<1> USE CoreParts
<1>1. Dispatches(q, "replace") /\ q \in Request /\ q.ref \in Refs /\ q.volume \in Nat
  BY CoreSubmitReplace, RequestParts DEF submit_replace
<1>2. notes'.orphaned = notes.orphaned /\ driver.pc # "create"
  <2>1. Took \in Notes /\ Took.orphaned = notes.orphaned /\ IsIdle
    BY <1>1, TakenRequest
  <2>2. notes'.orphaned = Took.orphaned
    BY <1>1, <2>1, UnbackedOnly DEF submit_replace
  <2> QED BY <2>1, <2>2, IdleCreates
<1>3. live' = live
  BY DEF submit_replace, route_replace, Replaces, omsVars
<1>4. PICK r, delta, old : r = q.ref /\ delta = q.volume - ledger.res[r].requested
                           /\ old = order[r].requested_volume
  OBVIOUS
<1>5. r \in Refs /\ delta \in Int /\ old \in Int /\ old - q.volume \in Int
  BY <1>1, <1>4, LedgerParts DEF BookInv, OmsTypeOK, Order
<1>6. PICK l : l = G!Resized(ledger, r, delta)
  OBVIOUS
<1>7. OnlyOf(r, ledger, l) /\ l \in Ledger /\ l.res[r].active = ledger.res[r].active
  BY <1>5, <1>6, ResizedEffect DEF OnlyOf
<1>8. PICK k : k = G!Resized(l, r, old - q.volume)
  OBVIOUS
<1>9. OnlyOf(r, l, k) /\ k.res[r].active = l.res[r].active
  BY <1>5, <1>7, <1>8, ResizedEffect
<1>10. ledger' \in {ledger, l, k}
  BY <1>4, <1>6, <1>8 DEF submit_replace
<1>11. \A x \in Refs : G!Held(ledger', x) => G!Held(ledger, x)
  BY <1>7, <1>9, <1>10 DEF OnlyOf, G!Held
<1> QED BY <1>2, <1>3, <1>11, NothingLeaks

\* What a report the router submits does: the order goes on, or it is gone and released, or it
\* is gone and the router reads back an image of it.
LEMMA LeaksSubmitReport ==
  ASSUME CoreInv, NoReservationLeaks, NEW r \in Refs, NEW n, submit_report(r, n)
  PROVE  NoReservationLeaks'
<1> USE CoreParts
<1>1. n \in 1 .. Len(venue[r].log) /\ process(r, n) /\ OrdersSound /\ driver' = driver
  BY CoreSubmitReport DEF CoreInv, submit_report
<1>3. CASE Outcome(r, n) = "applied"
  <2>1. /\ r \in live /\ Settle(r, Cascade(r, n).order) /\ After(order[r], Cascade(r, n).order)
    BY <1>1, <1>3, ProcessBook
  <2>0. PICK given \in Handed : ReportSeen(r, n, Seen(r, n, given))
    BY <1>3 DEF submit_report
  <2>2. PICK out, f, g, k : /\ out = Seen(r, n, given) /\ f = out.filled
                            /\ g = terminal_or_gone(r, out) /\ k = Sign[r]
    OBVIOUS
  <2>3. f \in Nat /\ k \in Int
    BY <1>1, <1>3, <2>2, SeenType, SignInt
  <2>4. ledger' = G!reconcile(ledger, r, f, g, k)
    BY <2>0, <2>2 DEF ReportSeen
  <2>5. /\ OnlyOf(r, ledger, ledger') /\ (~G!Held(ledger, r) => ledger' = ledger)
        /\ g => ~G!Held(ledger', r)
    BY <2>3, <2>4, ReconcileEffect
  <2>6. \A x \in Refs : G!Held(ledger', x) => G!Held(ledger, x)
    BY <2>5 DEF OnlyOf, G!Held
  <2>9. /\ notes.orphaned \subseteq notes'.orphaned
        /\ r \in out.of => live \ live' \subseteq notes'.orphaned
    BY <2>0, <2>2, SeenNotes
  <2>7. CASE ~is_terminal(Cascade(r, n).order.state)
    <3>1. live' = live
      BY <2>1, <2>7, SettleBook
    <3> QED BY <1>1, <2>6, <2>9, <3>1, NothingLeaks
  <2>8. CASE is_terminal(Cascade(r, n).order.state)
    <3>1. live' = live \ {r}
      BY <2>1, <2>8, SettleBook
    <3>2. g \/ r \in out.of
      BY <1>1, <1>3, <2>2, <2>8, SeenType
    <3>3. CASE r \in out.of
      <4>1. live \subseteq live' \cup notes'.orphaned
        BY <2>9, <3>1, <3>3
      <4> QED BY <1>1, <2>6, <2>9, <4>1, NothingLeaks
    <3>4. CASE g
      <4>1. ~G!Held(ledger', r)
        BY <2>5, <3>4
      <4> QED BY <1>1, <2>6, <2>9, <3>1, <4>1 DEF NoReservationLeaks
    <3> QED BY <3>2, <3>3, <3>4
  <2> QED BY <2>7, <2>8
<1>4. CASE Outcome(r, n) # "applied"
  <2>1. ledger' = ledger /\ notes' = notes
    BY <1>4 DEF submit_report
  <2>2. live' = live
    <3>1. CASE UNCHANGED omsVars
      BY <3>1 DEF omsVars
    <3>2. ASSUME NEW o, r \in live, Settle(r, o), After(order[r], o), Sound(o) PROVE live' = live
      BY <3>2, SettleBook DEF Sound, reserves_exposure
    <3> QED BY <1>1, <1>4, <3>1, <3>2, ProcessBook
  <2> QED BY <1>1, <2>1, <2>2, NothingLeaks
<1> QED BY <1>3, <1>4

LEMMA LeaksDrain ==
  ASSUME CoreInv, NoReservationLeaks, drain_pending
  PROVE  NoReservationLeaks'
<1> USE CoreParts
<1>1. PICK q : q = Head(limiter.pending)
  OBVIOUS
<1>2. q \in Request /\ q.ref \in Refs
  BY <1>1, CoreDrainPending, RequestParts
<1>3. notes'.orphaned = notes.orphaned /\ ledger' = ledger /\ driver' = driver
  BY <1>1, <1>2, UnbackedOnly DEF drain_pending
<1>4. live \subseteq live'
  <2>1. CASE create(q.ref, q.volume)
    BY <2>1 DEF create, Insert
  <2>2. CASE transition(q.ref, "cancel_pending")
    BY <2>2, TransitionBook DEF OrderStates, is_terminal, Terminal
  <2>3. CASE Replaces(q) \/ UNCHANGED omsVars
    BY <2>3 DEF Replaces, omsVars
  <2> QED BY <1>1, <2>1, <2>2, <2>3 DEF drain_pending
<1> QED BY <1>3, <1>4, NothingLeaks

LEMMA LeaksStep ==
  ASSUME CoreInv, TodoEmitted, NoReservationLeaks, [Next]_vars
  PROVE  NoReservationLeaks'
<1> USE CoreParts
<1>1. ASSUME NEW q \in Request, enqueue(q) PROVE NoReservationLeaks'
  BY <1>1, NothingLeaks DEF enqueue, omsVars
<1>2. ASSUME NEW r \in Refs, Send(r) PROVE NoReservationLeaks'
  <2>1. live' = live
    BY <1>2, TransitionBook DEF Send, OrderStates, is_terminal, Terminal
  <2> QED BY <1>2, <2>1, NothingLeaks DEF Send, Rest
<1>3. ASSUME NEW r \in Refs, VenueMoves(r) PROVE NoReservationLeaks'
  <2>1. UNCHANGED <<live, ledger, driver, notes>>
    BY <1>3 DEF VenueMoves, VenueDoes, Rest, omsVars
  <2> QED BY <2>1, NothingLeaks
<1>4. ASSUME NEW r \in Refs, ResolveUnknown(r) PROVE NoReservationLeaks'
  <2>1. live' = live \ {r} /\ notes'.orphaned = notes.orphaned \cup {r} /\ UNCHANGED <<ledger, driver>>
    BY <1>4, CoreResolveUnknown DEF ResolveUnknown
  <2> QED BY <2>1, NothingLeaks
<1>5. CASE refill \/ UNCHANGED vars
  BY <1>5, NothingLeaks DEF refill, vars, omsVars
<1>6. CASE halt_globally \/ set_session \/ disconnect \/ begin_recovery
  <2>1. UNCHANGED Others
    BY <1>6 DEF halt_globally, set_session, disconnect, begin_recovery
  <2> QED BY <2>1, NothingLeaks DEF Others, omsVars
<1>7. CASE restart_recover_venue
  <2>1. live' = live /\ ledger' = Rebuilt
    BY <1>7 DEF restart_recover_venue
  <2>2. \A r \in Refs : G!Held(ledger', r) => r \in live
    BY <2>1, RebuiltParts DEF G!Held, G!NoRes
  <2> QED BY <2>1, <2>2 DEF NoReservationLeaks
<1>8. CASE run_reconciliation
  BY <1>8, IdleCreates, NothingLeaks DEF run_reconciliation, omsVars
<1>9. CASE ReconcileReport
  <2>1. /\ driver.pc = "reports" /\ ledger' = ledger
        /\ notes'.orphaned = notes.orphaned \cup (live \ live')
    BY <1>9, CoreReconcileReport DEF ReconcileReport
  <2> QED BY <2>1, NothingLeaks
<1>10. CASE CompareOrders
  BY <1>10, NothingLeaks DEF CompareOrders, Compares, omsVars
<1>11. CASE SnapshotOrders \/ retry_after_resolution
  BY <1>11, CoreSnapshot, NothingLeaks DEF Compares, omsVars
<1>12. CASE FetchOpenOrders
  BY <1>12, FetchOpenTypes, NothingLeaks DEF FetchOpenOrders, Compares, omsVars
<1> QED BY <1>1, <1>2, <1>3, <1>4, <1>5, <1>6, <1>7, <1>8, <1>9, <1>10, <1>11, <1>12, LeaksSubmitCreate,
           LeaksSubmitCancel, LeaksSubmitReplace, LeaksApplyCreate, LeaksDrain, LeaksSubmitReport
        DEF Next

\* Nothing stays reserved in the ledger for an order that is gone, whatever was rejected,
\* deferred, halted half-way, cancelled, replaced, filled in a cascade of reports or restarted:
\* the only exceptions are an order on its way to the book and one of whose end the ledger was
\* not told - in a reconciliation, by an operator's word, or because RiskGatedRouter took the
\* image of the order that an earlier call had left in the caller's Completion for the present.
THEOREM ReservationsEnd == Spec => []NoReservationLeaks
<1>1. Init => CoreInv /\ TodoEmitted /\ NoReservationLeaks
  <2>1. ASSUME Init PROVE NoReservationLeaks
    <3>1. \A r \in Refs : ~G!Held(ledger, r)
      BY <2>1 DEF Init, Empty, G!Held, G!NoRes
    <3> QED BY <3>1 DEF NoReservationLeaks
  <2> QED BY <2>1, CoreInit
<1>2. CoreInv /\ TodoEmitted /\ NoReservationLeaks /\ [Next]_vars
      => CoreInv' /\ TodoEmitted' /\ NoReservationLeaks'
  BY CoreStep, LeaksStep
<1> QED BY <1>1, <1>2, PTL DEF Spec
-----------------------------------------------------------------------------
(* Open orders are covered. *)

\* The reservation of a live order has at least its volume and at most its fills.
Backed(r) == /\ G!Held(ledger, r)
             /\ ledger.res[r].requested >= order[r].requested_volume
             /\ ledger.res[r].filled <= order[r].filled_volume

\* A restart reserves nothing for an order with nothing left to execute. It stays unknown until
\* it is resolved, and what is reserved under its reference belongs to a create on its way.
Exhausted(r) == /\ order[r].state = "unknown" /\ remaining(order[r]) = 0
                /\ G!Held(ledger, r) => Creating(r)

CoveredAt(r) ==
  /\ G!Held(ledger, r) \/ ledger.res[r] = G!NoRes
  /\ r \notin notes.unbacked => ledger.res[r].filled <= ledger.res[r].requested
  /\ r \in live \ notes.unbacked => (Backed(r) /\ ~Creating(r)) \/ Exhausted(r)

\* A create on its way to the book has its reservation.
CreateReserved ==
  driver.pc = "create" => ledger.res[driver.request.ref] = G!Reservation(driver.request.volume, 0)

Cover == /\ \A r \in Refs : CoveredAt(r)
         /\ CreateReserved
         /\ notes.unbacked = {} => Exact(ledger)

LEMMA CoverImplies ==
  ASSUME CoreInv, Cover
  PROVE  ExposureCovered
<1> USE CoreParts
<1> DEFINE f == [r \in Refs |-> remaining(order[r])]
           g == [r \in Refs |-> Own(ledger, r)]
<1>1. \A r \in Refs : order[r].requested_volume \in Nat /\ order[r].filled_volume \in Nat /\ Own(ledger, r) \in Int
      /\ ledger.res[r].requested \in Int /\ ledger.res[r].filled \in Int
  BY OwnInt, LedgerParts DEF BookInv, OmsTypeOK, Order
<1>2. live \in SUBSET Refs /\ IsFiniteSet(Refs) /\ IsFiniteSet(live)
  BY RouterAssumption, FS_Subset DEF BookInv, OmsTypeOK
<1>3. ASSUME NEW r \in live \ notes.unbacked
      PROVE  Own(ledger, r) >= remaining(order[r])
  <2>1. r \in Refs /\ CoveredAt(r)
    BY <1>2, <1>3 DEF Cover
  <2>2. CASE Backed(r)
    BY <1>1, <2>1, <2>2 DEF Backed, Own, remaining
  <2>3. CASE Exhausted(r)
    BY <1>1, <1>3, <2>1, <2>3 DEF Exhausted, CoveredAt, Own
  <2> QED BY <1>3, <2>1, <2>2, <2>3 DEF CoveredAt
<1>4. ASSUME notes.unbacked = {} PROVE accumulate_venue_exposure <= ledger.open
  <2>1. \A r \in Refs : f[r] \in Int /\ g[r] \in Nat
    BY <1>1, <1>4 DEF remaining, Cover, CoveredAt, Own
  <2>2. \A r \in live : f[r] <= g[r] /\ r \in Refs
    BY <1>1, <1>2, <1>3, <1>4 DEF remaining
  <2>3. accumulate_venue_exposure = SumFunctionOnSet(f, live) /\ ledger.open = SumFunctionOnSet(g, Refs)
    BY <1>4 DEF accumulate_venue_exposure, Cover, Exact
  <2> HIDE DEF f, g
  <2>4. SumFunctionOnSet(f, live) <= SumFunctionOnSet(g, live)
    BY <1>2, <2>1, <2>2, SumLeq
  <2>5. SumFunctionOnSet(g, live) <= SumFunctionOnSet(g, Refs)
    BY <1>2, <2>1, SumSubset
  <2>6. SumFunctionOnSet(f, live) \in Int /\ SumFunctionOnSet(g, live) \in Int /\ SumFunctionOnSet(g, Refs) \in Int
    BY <1>2, <2>1, <2>2, SumInt
  <2> QED BY <2>3, <2>4, <2>5, <2>6
<1> QED BY <1>3, <1>4 DEF ExposureCovered, Own

\* A live order that a step leaves live: its fills only grow, and an unknown one stays as it is.
Kept(r) == /\ r \in live
           /\ order'[r].filled_volume >= order[r].filled_volume
           /\ order[r].state = "unknown" => /\ order'[r].state = "unknown"
                                            /\ order'[r].requested_volume = order[r].requested_volume

\* The volume of a live order is the one it had, or no more than is reserved for it.
WithinReserved(r) == \/ order'[r].requested_volume = order[r].requested_volume
                     \/ order'[r].requested_volume <= ledger.res[r].requested

\* An order whose reservation a step does not touch.
LEMMA CoverElsewhere ==
  ASSUME CoreInv, CoreInv', NEW r \in Refs, CoveredAt(r), ledger'.res[r] = ledger.res[r],
         notes.unbacked \subseteq notes'.unbacked, Creating(r)' <=> Creating(r),
         r \in live' \ notes'.unbacked => Kept(r) /\ WithinReserved(r)
  PROVE  CoveredAt(r)'
<1>1. /\ order[r].requested_volume \in Nat /\ order[r].filled_volume \in Nat
      /\ order'[r].requested_volume \in Nat /\ order'[r].filled_volume \in Nat
      /\ ledger.res[r].requested \in Int /\ ledger.res[r].filled \in Int
  BY LedgerParts, CoreParts DEF CoreInv, TypeOK, OmsTypeOK, Order
<1>2. r \in live' => order'[r].filled_volume <= order'[r].requested_volume
  BY DEF CoreInv, OrdersSound
<1>3. ASSUME r \in live' \ notes'.unbacked
      PROVE  (Backed(r)' /\ ~Creating(r)') \/ Exhausted(r)'
  <2>1. Kept(r) /\ WithinReserved(r) /\ r \in live \ notes.unbacked
    BY <1>3 DEF Kept
  <2>2. CASE Backed(r) /\ ~Creating(r)
    BY <1>1, <2>1, <2>2 DEF Backed, Kept, WithinReserved, G!Held
  <2>3. CASE Exhausted(r)
    BY <1>1, <1>2, <1>3, <2>1, <2>3 DEF Exhausted, Kept, remaining, G!Held
  <2> QED BY <2>1, <2>2, <2>3 DEF CoveredAt
<1> QED BY <1>3 DEF CoveredAt, G!Held

\* A step the ledger does not hear of.
LEMMA CoverSame ==
  ASSUME CoreInv, CoreInv', Cover, ledger' = ledger, notes.unbacked \subseteq notes'.unbacked,
         driver' = driver \/ (driver.pc # "create" /\ driver'.pc # "create"),
         \A r \in live' \ notes'.unbacked : Kept(r) /\ WithinReserved(r)
  PROVE  Cover'
<1>1. ASSUME NEW r \in Refs PROVE CoveredAt(r)'
  <2>1. Creating(r)' <=> Creating(r)
    BY DEF Creating
  <2> QED BY <2>1, CoverElsewhere DEF Cover
<1>2. CreateReserved'
  BY DEF Cover, CreateReserved
<1>3. notes'.unbacked = {} => Exact(ledger')
  BY DEF Cover
<1> QED BY <1>1, <1>2, <1>3 DEF Cover

\* A step about the reservation of one order.
LEMMA CoverOne ==
  ASSUME CoreInv, CoreInv', Cover, NEW r \in Refs, OnlyOf(r, ledger, ledger'), CoveredAt(r)',
         notes.unbacked \subseteq notes'.unbacked,
         \A x \in Refs \ {r} : Creating(x)' <=> Creating(x), CreateReserved',
         \A x \in live' \ notes'.unbacked : x # r => Kept(x) /\ WithinReserved(x),
         notes'.unbacked = {} => ledger'.open = ledger.open + Own(ledger', r) - Own(ledger, r)
  PROVE  Cover'
<1>1. ASSUME NEW x \in Refs PROVE CoveredAt(x)'
  <2>1. CASE x = r
    BY <2>1
  <2>2. CASE x # r
    BY <2>2, CoverElsewhere DEF Cover, OnlyOf
  <2> QED BY <2>1, <2>2
<1>2. ASSUME notes'.unbacked = {} PROVE Exact(ledger')
  <2>1. Exact(ledger)
    BY <1>2 DEF Cover
  <2> QED BY <1>2, <2>1, CoreParts, StaysExact
<1> QED BY <1>1, <1>2 DEF Cover

\* An order a step does not touch is kept.
LEMMA KeptSame ==
  ASSUME CoreInv, NEW r \in live, order'[r] = order[r]
  PROVE  Kept(r) /\ WithinReserved(r)
<1>1. order[r].filled_volume \in Nat
  BY CoreParts, SoundOrders DEF Sound, Order
<1> QED BY <1>1 DEF Kept, WithinReserved

LEMMA CoverQuiet ==
  ASSUME CoreInv, CoreInv', Cover, ledger' = ledger, notes'.unbacked = notes.unbacked,
         driver' = driver \/ (driver.pc # "create" /\ driver'.pc # "create"), UNCHANGED omsVars
  PROVE  Cover'
<1>1. \A r \in live' : r \in live /\ order'[r] = order[r]
  BY DEF omsVars
<1> QED BY <1>1, KeptSame, CoverSame

LEMMA CoverSubmitCreate ==
  ASSUME CoreInv, CoreInv', Cover, NEW q, submit_create(q)
  PROVE  Cover'
<1> USE CoreParts
<1>1. Dispatches(q, "order") /\ q \in Request /\ q.ref \in Refs /\ q.volume \in Nat
  BY CoreSubmitCreate, RequestParts DEF submit_create
<1>2. notes'.unbacked = notes.unbacked /\ UNCHANGED omsVars /\ driver.pc # "create"
  BY <1>1, TakenRequest, IdleCreates DEF submit_create
<1>3. CASE UNCHANGED ledger /\ driver' = Idle
  BY <1>2, <1>3, IdlePc, CoverQuiet
<1>4. CASE /\ ledger' = G!reserve(ledger, q.ref, q.volume)
           /\ driver' = [pc |-> "create", request |-> q] /\ ~G!Held(ledger, q.ref)
  <2>1. PICK r, v : r = q.ref /\ v = q.volume
    OBVIOUS
  <2>2. /\ OnlyOf(r, ledger, ledger') /\ ledger'.res[r] = G!Reservation(v, 0)
        /\ ledger'.open = ledger.open + v
    BY <1>1, <1>4, <2>1, ReserveEffect
  <2>3. driver'.pc = "create" /\ driver'.request.ref = r /\ driver'.request.volume = v
    BY <1>4, <2>1
  <2>4. /\ G!Reservation(v, 0).active /\ G!Reservation(v, 0).requested = v
        /\ G!Reservation(v, 0).filled = 0 /\ r \in Refs /\ v \in Nat
    BY <1>1, <2>1 DEF G!Reservation
  <2>5. CoveredAt(r) /\ ledger.res[r] = G!NoRes
    BY <1>4, <2>1, <2>4 DEF Cover, CoveredAt
  <2>6. live' = live /\ order' = order
    BY <1>2 DEF omsVars
  <2>7. CoveredAt(r)'
    <3>1. G!Held(ledger', r) /\ ledger'.res[r].filled <= ledger'.res[r].requested
      BY <2>2, <2>4 DEF G!Held
    <3>2. ASSUME r \in live' \ notes'.unbacked PROVE Exhausted(r)'
      <4>1. ~Backed(r)
        BY <1>4, <2>1 DEF Backed
      <4>2. Exhausted(r)
        BY <1>2, <2>5, <2>6, <3>2, <4>1 DEF CoveredAt
      <4> QED BY <2>3, <2>6, <4>2 DEF Exhausted, Creating
    <3> QED BY <3>1, <3>2 DEF CoveredAt
  <2>8. \A x \in Refs \ {r} : Creating(x)' <=> Creating(x)
    BY <1>2, <2>3 DEF Creating
  <2>9. CreateReserved'
    BY <2>2, <2>3 DEF CreateReserved
  <2>10. ledger'.open = ledger.open + Own(ledger', r) - Own(ledger, r)
    <3>1. Own(ledger', r) = v /\ Own(ledger, r) = 0
      BY <2>2, <2>4, <2>5 DEF Own, G!NoRes
    <3>2. ledger.open \in Int
      BY <2>4, LedgerParts
    <3> QED BY <2>2, <2>4, <3>1, <3>2
  <2> QED BY <1>2, <2>2, <2>4, <2>6, <2>7, <2>8, <2>9, <2>10, KeptSame, CoverOne
<1> QED BY <1>3, <1>4 DEF submit_create, Reservable

LEMMA CoverApplyCreate ==
  ASSUME CoreInv, CoreInv', Cover, ApplyCreate
  PROVE  Cover'
<1> USE CoreParts
<1>1. driver.pc = "create" /\ driver.request \in Request /\ notes' = notes /\ driver'.pc = "idle"
  BY DriverRequest, IdlePc DEF ApplyCreate
<1>2. PICK r, v : r = driver.request.ref /\ v = driver.request.volume
  OBVIOUS
<1>3. r \in Refs /\ v \in Nat \ {0}
  BY <1>1, <1>2, RequestParts, DriverRequest
<1>4. ledger.res[r] = G!Reservation(v, 0)
  BY <1>1, <1>2 DEF Cover, CreateReserved
<1>5. /\ ledger.res[r].active /\ ledger.res[r].requested = v /\ ledger.res[r].filled = 0
  BY <1>4 DEF G!Reservation
<1>6. (\A x \in Refs \ {r} : Creating(x)' <=> Creating(x)) /\ CreateReserved'
  BY <1>1, <1>2 DEF Creating, CreateReserved
<1>7. CASE create(r, v) /\ UNCHANGED ledger
  <2>1. live' = live \cup {r} /\ order' = [order EXCEPT ![r] = NewOrder("pending_send", v, 0)]
    BY <1>3, <1>7, CreateBook
  <2>2. order'[r].requested_volume = v /\ order'[r].filled_volume = 0
    BY <1>3, <2>1 DEF BookInv, OmsTypeOK, NewOrder
  <2>3. CoveredAt(r)'
    <3>1. Backed(r)' /\ ~Creating(r)'
      BY <1>1, <1>3, <1>5, <1>7, <2>2 DEF Backed, Creating, G!Held
    <3>2. ledger'.res[r].filled <= ledger'.res[r].requested
      BY <1>3, <1>5, <1>7
    <3> QED BY <3>1, <3>2 DEF CoveredAt, Backed
  <2>4. \A x \in live' : x # r => x \in live /\ order'[x] = order[x]
    BY <2>1 DEF BookInv, OmsTypeOK
  <2>5. OnlyOf(r, ledger, ledger') /\ ledger'.open = ledger.open + Own(ledger', r) - Own(ledger, r)
    <3>1. ledger.open \in Int /\ Own(ledger, r) \in Int
      BY <1>3, LedgerParts, OwnInt
    <3> QED BY <1>7, <3>1 DEF OnlyOf
  <2> QED BY <1>1, <1>3, <1>6, <2>3, <2>4, <2>5, KeptSame, CoverOne
<1>8. CASE ledger' = G!release(ledger, r) /\ UNCHANGED omsVars
  <2>1. Own(ledger, r) = v /\ G!Held(ledger, r)
    BY <1>3, <1>5 DEF Own, G!Held
  <2>2. /\ OnlyOf(r, ledger, ledger') /\ ~G!Held(ledger', r)
        /\ ledger'.res[r] = G!NoRes /\ ledger'.open = ledger.open - Own(ledger, r)
    BY <1>3, <1>8, <2>1, ReleaseEffect
  <2>3. live' = live /\ order' = order
    BY <1>8 DEF omsVars
  <2>4. CoveredAt(r)'
    <3>1. ledger'.res[r].filled <= ledger'.res[r].requested
      BY <2>2 DEF G!NoRes
    <3>2. ASSUME r \in live' \ notes'.unbacked PROVE Exhausted(r)'
      <4>1. Creating(r) /\ CoveredAt(r)
        BY <1>1, <1>2, <1>3 DEF Creating, Cover
      <4>2. Exhausted(r)
        BY <1>1, <2>3, <3>2, <4>1 DEF CoveredAt
      <4> QED BY <2>2, <2>3, <4>2 DEF Exhausted
    <3> QED BY <2>2, <3>1, <3>2 DEF CoveredAt
  <2>5. ledger'.open = ledger.open + Own(ledger', r) - Own(ledger, r)
    <3>1. ledger.open \in Int /\ Own(ledger', r) = 0
      BY <1>3, <2>2, LedgerParts DEF Own, G!NoRes
    <3> QED BY <1>3, <2>1, <2>2, <3>1
  <2> QED BY <1>1, <1>3, <1>6, <2>2, <2>3, <2>4, <2>5, KeptSame, CoverOne
<1> QED BY <1>2, <1>7, <1>8 DEF ApplyCreate

\* A transition that does not end the order leaves its volumes alone.
LEMMA KeptTransition ==
  ASSUME CoreInv, NEW r \in Refs, NEW s \in OrderStates, transition(r, s), ~is_terminal(s)
  PROVE  /\ r \in live /\ live' = live /\ order[r].state # "unknown"
         /\ order'[r].requested_volume = order[r].requested_volume
         /\ order'[r].filled_volume = order[r].filled_volume
         /\ \A x \in live : Kept(x) /\ WithinReserved(x)
<1>1. /\ r \in live /\ live' = live /\ order'[r] = [order[r] EXCEPT !.state = s]
      /\ \A x \in Refs \ {r} : order'[x] = order[x]
  BY CoreParts, TransitionBook
<1>2. Sound(order[r]) /\ live \subseteq Refs
  BY <1>1, CoreParts, SoundOrders
<1>3. order[r].state # "unknown"
  BY DEF transition, legal, Successors, is_terminal
<1>4. /\ order'[r].requested_volume = order[r].requested_volume
      /\ order'[r].filled_volume = order[r].filled_volume /\ order[r].filled_volume \in Nat
  BY <1>1, <1>2 DEF Sound, Order
<1>5. ASSUME NEW x \in live PROVE Kept(x) /\ WithinReserved(x)
  <2>1. CASE x = r
    BY <1>3, <1>4, <2>1 DEF Kept, WithinReserved
  <2>2. CASE x # r
    BY <1>1, <1>2, <2>2, KeptSame
  <2> QED BY <2>1, <2>2
<1> QED BY <1>1, <1>3, <1>4, <1>5

LEMMA CoverSubmitCancel ==
  ASSUME CoreInv, CoreInv', Cover, NEW q, submit_cancel(q)
  PROVE  Cover'
<1> USE CoreParts
<1>1. Dispatches(q, "cancel") /\ q \in Request /\ q.ref \in Refs
  BY CoreSubmitCancel, RequestParts DEF submit_cancel
<1>2. notes'.unbacked = notes.unbacked /\ driver' = driver /\ driver.pc # "create"
  BY <1>1, TakenRequest, IdleCreates DEF submit_cancel
<1>3. CASE UNCHANGED <<omsVars, ledger>>
  BY <1>2, <1>3, CoverQuiet
<1>4. CASE transition(q.ref, "cancel_pending") /\ ledger' = CancelSeen(q.ref)
  <2>1. PICK r, f, g, k : r = q.ref /\ f = order[r].filled_volume /\ g = FALSE /\ k = Sign[r]
    OBVIOUS
  <2>2. /\ r \in live /\ live' = live /\ order[r].state # "unknown"
        /\ order'[r].requested_volume = order[r].requested_volume
        /\ order'[r].filled_volume = order[r].filled_volume
        /\ \A x \in live : Kept(x) /\ WithinReserved(x)
    BY <1>1, <1>4, <2>1, KeptTransition DEF OrderStates, is_terminal, Terminal
  <2>3. /\ r \in Refs /\ f \in Nat /\ k \in Int /\ Sound(order[r])
        /\ order[r].requested_volume \in Nat /\ ledger.res[r].filled \in Int /\ ledger.res[r].requested \in Int
    BY <1>1, <2>1, <2>2, SignInt, SoundOrders, LedgerParts DEF Sound, Order
  <2>4. ledger' = G!reconcile(ledger, r, f, g, k)
    BY <1>4, <2>1 DEF CancelSeen
  <2>5. CoveredAt(r)
    BY <2>3 DEF Cover
  <2>6. CASE ~G!Held(ledger, r)
    <3>1. ledger' = ledger
      BY <2>3, <2>4, <2>6, ReconcileEffect
    <3> QED BY <1>2, <2>2, <3>1, CoverSame
  <2>7. CASE G!Held(ledger, r)
    <3>1. /\ OnlyOf(r, ledger, ledger') /\ ledger'.res[r].active = ledger.res[r].active
          /\ ledger'.res[r].requested = ledger.res[r].requested
          /\ ledger'.res[r].filled = IF f > ledger.res[r].filled THEN f ELSE ledger.res[r].filled
          /\ ledger'.open = ledger.open + Own(ledger', r) - Own(ledger, r)
      BY <2>1, <2>3, <2>4, <2>7, ReconcileEffect
    <3>2. G!Held(ledger', r)
      BY <2>7, <3>1 DEF G!Held
    <3>3. ASSUME r \notin notes.unbacked
          PROVE  /\ ledger'.res[r].filled <= ledger'.res[r].requested
                 /\ Backed(r)' /\ ~Creating(r)'
      <4>1. Backed(r)
        BY <2>2, <2>5, <3>3 DEF CoveredAt, Exhausted
      <4>2. ledger'.res[r].filled = f /\ f <= order[r].requested_volume
        BY <2>1, <2>3, <3>1, <4>1 DEF Backed, Sound
      <4> QED BY <1>2, <2>1, <2>2, <2>3, <3>1, <3>2, <4>1, <4>2 DEF Backed, Creating
    <3>4. CoveredAt(r)'
      BY <1>2, <3>2, <3>3 DEF CoveredAt
    <3>5. (\A x \in Refs \ {r} : Creating(x)' <=> Creating(x)) /\ CreateReserved'
      BY <1>2 DEF Creating, CreateReserved
    <3> QED BY <1>2, <2>2, <2>3, <3>1, <3>4, <3>5, CoverOne
  <2> QED BY <2>6, <2>7
<1> QED BY <1>3, <1>4 DEF submit_cancel, route_cancel

LEMMA CoverSubmitReplace ==
  ASSUME CoreInv, CoreInv', Cover, NEW q, submit_replace(q)
  PROVE  Cover'
<1> USE CoreParts
<1> DEFINE r == q.ref
           v == q.volume
           old == order[r].requested_volume
           delta == v - ledger.res[r].requested
           adjusted == ~gates.halted /\ G!Held(ledger, r) /\ (delta > 0 => G!Fits(ledger, delta, OpenLimit))
           refused == adjusted /\ ~Replacing(q)
           l == G!Resized(ledger, r, delta)
           k == G!Resized(l, r, old - v)
<1>1. Dispatches(q, "replace") /\ q \in Request /\ r \in Refs /\ v \in Nat
  BY CoreSubmitReplace, RequestParts DEF submit_replace
<1>2. /\ driver' = driver /\ driver.pc # "create"
      /\ notes'.unbacked = IF refused /\ (v < old \/ r \notin live) THEN notes.unbacked \cup {r}
                           ELSE notes.unbacked
  <2>1. Took \in Notes /\ Took.unbacked = notes.unbacked /\ IsIdle
    BY <1>1, TakenRequest
  <2>2. PICK b : b = (refused /\ (v < old \/ r \notin live))
    OBVIOUS
  <2>3. notes' = [Took EXCEPT !.unbacked = IF b THEN @ \cup {r} ELSE @]
    BY <2>2 DEF submit_replace
  <2>4. notes'.unbacked = IF b THEN Took.unbacked \cup {r} ELSE Took.unbacked
    BY <1>1, <2>1, <2>3, UnbackedOnly
  <2>5. driver' = driver
    BY DEF submit_replace
  <2> QED BY <2>1, <2>2, <2>4, <2>5, IdleCreates
<1>3. /\ ledger.res[r].requested \in Int /\ ledger.res[r].filled \in Int /\ delta \in Int
      /\ old \in Nat /\ old - v \in Int /\ order[r].filled_volume \in Nat
  BY <1>1, LedgerParts DEF BookInv, OmsTypeOK, Order
<1>4. /\ OnlyOf(r, ledger, l) /\ l \in Ledger /\ l.res[r].active = ledger.res[r].active
      /\ l.res[r].requested = v /\ l.res[r].filled = ledger.res[r].filled
      /\ l.open = ledger.open + Own(l, r) - Own(ledger, r)
  <2> HIDE DEF r, v, delta
  <2>1. /\ OnlyOf(r, ledger, l) /\ l.res[r].active = ledger.res[r].active
        /\ l.res[r].requested = ledger.res[r].requested + delta /\ l.res[r].filled = ledger.res[r].filled
        /\ l.open = ledger.open + Own(l, r) - Own(ledger, r)
    BY <1>1, <1>3, ResizedEffect
  <2> QED BY <1>1, <1>3, <2>1 DEF OnlyOf, delta
<1>5. /\ OnlyOf(r, ledger, k) /\ k.res[r].active = ledger.res[r].active
      /\ k.res[r].requested = old /\ k.res[r].filled = ledger.res[r].filled
      /\ k.open = ledger.open + Own(k, r) - Own(ledger, r)
  <2> HIDE DEF r, v, delta, old, l
  <2>1. /\ OnlyOf(r, l, k) /\ k.res[r].active = l.res[r].active
        /\ k.res[r].requested = l.res[r].requested + (old - v) /\ k.res[r].filled = l.res[r].filled
        /\ k.open = l.open + Own(k, r) - Own(l, r)
    BY <1>1, <1>3, <1>4, ResizedEffect
  <2>2. OnlyOf(r, ledger, k)
    BY <1>4, <2>1, OnlyOfTwice
  <2>3. ledger.open \in Int /\ Own(l, r) \in Int /\ Own(ledger, r) \in Int /\ Own(k, r) \in Int
    BY <1>1, <1>4, <2>2, LedgerParts, OwnInt DEF OnlyOf
  <2> QED BY <1>1, <1>3, <1>4, <2>1, <2>2, <2>3
<1>6. (\A x \in Refs : Creating(x)' <=> Creating(x)) /\ CreateReserved'
  BY <1>2 DEF Creating, CreateReserved
<1>7. ledger' = IF ~adjusted THEN ledger ELSE IF refused /\ v > old THEN k ELSE l
  BY DEF submit_replace
<1>8. CoveredAt(r)
  BY <1>1 DEF Cover
<1>9. CASE ~adjusted
  <2>1. UNCHANGED omsVars /\ ledger' = ledger /\ notes'.unbacked = notes.unbacked
    BY <1>2, <1>7, <1>9 DEF submit_replace
  <2> HIDE DEF adjusted
  <2> QED BY <1>2, <2>1, CoverQuiet
<1>10. CASE adjusted /\ Replacing(q)
  <2>1. CanReplace(q) /\ Replaces(q)
    BY <1>10 DEF Replacing, submit_replace, route_replace
  <2>2. /\ live' = live /\ order'[r].requested_volume = v
        /\ order'[r].filled_volume = order[r].filled_volume
        /\ \A x \in Refs \ {r} : order'[x] = order[x]
    BY <1>1, <2>1, ReplaceBook
  <2>3. r \in live /\ order[r].state # "unknown" /\ v > order[r].filled_volume
    BY <2>1 DEF CanReplace, Replaceable
  <2>4. ledger' = l /\ notes'.unbacked = notes.unbacked /\ G!Held(ledger, r)
    BY <1>2, <1>7, <1>10
  <2>5. \A x \in live' \ notes'.unbacked : x # r => Kept(x) /\ WithinReserved(x)
    BY <2>2, KeptSame DEF BookInv, OmsTypeOK
  <2> HIDE DEF r, v, old, l, k, adjusted, refused, delta
  <2>6. CoveredAt(r)'
    <3>1. G!Held(ledger', r)
      BY <1>4, <2>4 DEF G!Held
    <3>2. ASSUME r \notin notes.unbacked
          PROVE  ledger'.res[r].filled <= ledger'.res[r].requested /\ Backed(r)' /\ ~Creating(r)'
      <4>1. Backed(r)
        BY <1>8, <2>3, <3>2 DEF CoveredAt, Exhausted
      <4>2. ledger.res[r].filled <= order[r].filled_volume
        BY <4>1 DEF Backed
      <4> QED BY <1>1, <1>2, <1>3, <1>4, <2>2, <2>3, <2>4, <3>1, <4>2 DEF Backed, Creating
    <3> QED BY <2>4, <3>1, <3>2 DEF CoveredAt
  <2> QED BY <1>1, <1>4, <1>6, <2>4, <2>5, <2>6, CoverOne
<1>11. CASE refused
  <2>1. UNCHANGED omsVars
    BY <1>11 DEF submit_replace, route_replace
  <2>2. live' = live /\ order' = order /\ \A x \in live : Kept(x) /\ WithinReserved(x)
    BY <2>1, KeptSame DEF omsVars
  <2>3. G!Held(ledger, r) /\ ledger' = (IF v > old THEN k ELSE l)
    BY <1>7, <1>11
  <2>4. notes'.unbacked = IF v < old \/ r \notin live THEN notes.unbacked \cup {r} ELSE notes.unbacked
    BY <1>2, <1>11
  <2> HIDE DEF r, v, old, l, k, adjusted, refused, delta
  <2>5. /\ OnlyOf(r, ledger, ledger') /\ ledger'.res[r].active = ledger.res[r].active
        /\ ledger'.res[r].filled = ledger.res[r].filled
        /\ ledger'.open = ledger.open + Own(ledger', r) - Own(ledger, r)
    BY <1>4, <1>5, <2>3
  <2>6. G!Held(ledger', r)
    BY <2>3, <2>5 DEF G!Held
  <2>7. ASSUME r \notin notes'.unbacked
        PROVE  ledger'.res[r].filled <= ledger'.res[r].requested /\ Backed(r)' /\ ~Creating(r)'
    <3>1. r \in live /\ r \notin notes.unbacked /\ ~(v < old)
      BY <2>4, <2>7
    <3>2. ledger'.res[r].requested = old
      BY <1>1, <1>3, <1>4, <1>5, <2>3, <3>1
    <3>3. ~Creating(r)
      BY <1>2 DEF Creating
    <3>4. Backed(r)
      BY <1>8, <2>3, <3>1, <3>3 DEF CoveredAt, Exhausted
    <3>5. order[r].filled_volume <= old /\ ledger.res[r].filled <= order[r].filled_volume
      BY <3>1, <3>4, SoundOrders DEF Sound, Backed, old
    <3>6. order'[r].requested_volume = old /\ order'[r].filled_volume = order[r].filled_volume
      BY <2>2 DEF old
    <3> QED BY <1>1, <1>3, <1>6, <2>5, <2>6, <3>2, <3>3, <3>5, <3>6 DEF Backed
  <2>8. CoveredAt(r)'
    BY <2>6, <2>7 DEF CoveredAt
  <2>9. notes.unbacked \subseteq notes'.unbacked
    BY <2>4
  <2> QED BY <1>1, <1>6, <2>2, <2>5, <2>8, <2>9, CoverOne
<1> QED BY <1>9, <1>10, <1>11

\* A deferred request that grows an order makes it one the ledger was not asked for.
LEMMA CoverDrain ==
  ASSUME CoreInv, CoreInv', Cover, drain_pending
  PROVE  Cover'
<1> USE CoreParts
<1>1. PICK q : q = Head(limiter.pending)
  OBVIOUS
<1>2. q \in Request /\ q.ref \in Refs /\ q.volume \in Nat /\ (q.kind # "cancel" => q.volume \in Nat \ {0})
  BY <1>1, CoreDrainPending, RequestParts
<1>3. PICK b : b = LET creates == q.kind = "order" /\ Approved /\ q.ref \notin live /\ HasRoom
                       replaces == q.kind = "replace" /\ CanReplace(q)
                   IN creates \/ (replaces /\ q.volume > ledger.res[q.ref].requested)
  OBVIOUS
<1>4. notes' = [notes EXCEPT !.unbacked = IF b THEN @ \cup {q.ref} ELSE @]
  BY <1>1, <1>3 DEF drain_pending
<1>5. notes'.unbacked = IF b THEN notes.unbacked \cup {q.ref} ELSE notes.unbacked
  BY <1>2, <1>4, UnbackedOnly
<1>6. ledger' = ledger /\ driver' = driver /\ notes.unbacked \subseteq notes'.unbacked
  BY <1>5 DEF drain_pending
<1>7. \A x \in live' \ notes'.unbacked : Kept(x) /\ WithinReserved(x)
  <2>1. CASE /\ q.kind = "order" /\ Approved /\ q.ref \notin live /\ HasRoom
             /\ create(q.ref, q.volume)
    <3>1. q.ref \in notes'.unbacked
      BY <1>3, <1>5, <2>1
    <3>2. live' = live \cup {q.ref} /\ order' = [order EXCEPT ![q.ref] = NewOrder("pending_send", q.volume, 0)]
      BY <1>2, <2>1, CreateBook
    <3>3. \A x \in live' \ notes'.unbacked : x \in live /\ order'[x] = order[x]
      BY <3>1, <3>2 DEF BookInv, OmsTypeOK
    <3> QED BY <3>3, KeptSame
  <2>2. CASE transition(q.ref, "cancel_pending")
    BY <1>2, <2>2, KeptTransition DEF OrderStates, is_terminal, Terminal
  <2>3. CASE q.kind = "replace" /\ CanReplace(q) /\ Replaces(q)
    <3>1. /\ live' = live /\ order'[q.ref].requested_volume = q.volume
          /\ order'[q.ref].filled_volume = order[q.ref].filled_volume
          /\ \A x \in Refs \ {q.ref} : order'[x] = order[x]
      BY <1>2, <2>3, ReplaceBook
    <3>2. q.ref \in live /\ order[q.ref].state # "unknown" /\ Sound(order[q.ref])
          /\ ledger.res[q.ref].requested \in Int /\ order[q.ref].filled_volume \in Nat
      BY <1>2, <2>3, SoundOrders, LedgerParts DEF CanReplace, Replaceable, Sound, Order
    <3>3. ASSUME NEW x \in live' \ notes'.unbacked, x = q.ref PROVE Kept(x) /\ WithinReserved(x)
      <4>1. ~b
        BY <1>5, <3>3
      <4>2. q.volume <= ledger.res[q.ref].requested
        <5>1. ~(q.volume > ledger.res[q.ref].requested)
          BY <1>3, <2>3, <4>1, Zenon
        <5> QED BY <1>2, <3>2, <5>1
      <4> QED BY <3>1, <3>2, <3>3, <4>2 DEF Kept, WithinReserved
    <3>4. ASSUME NEW x \in live' \ notes'.unbacked, x # q.ref PROVE Kept(x) /\ WithinReserved(x)
      BY <3>1, <3>4, KeptSame DEF BookInv, OmsTypeOK
    <3> QED BY <3>3, <3>4
  <2>4. CASE UNCHANGED omsVars
    BY <2>4, KeptSame DEF omsVars
  <2> QED BY <1>1, <2>1, <2>2, <2>3, <2>4 DEF drain_pending
<1> QED BY <1>6, <1>7, CoverSame

\* What process() does to the orders that stay in the book.
LEMMA ProcessKeeps ==
  ASSUME CoreInv, NEW r \in Refs, NEW n \in 1 .. Len(venue[r].log), process(r, n)
  PROVE  /\ \A x \in live' : Kept(x)
         /\ \A x \in live' : \/ order'[x].requested_volume = order[x].requested_volume
                             \/ /\ x = r /\ Outcome(r, n) = "applied"
                                /\ order'[x] = Cascade(r, n).order /\ ~is_terminal(order'[x].state)
<1> USE CoreParts
<1>1. venue[r].log \in Seq(Report) /\ OrdersSound /\ live \subseteq Refs
  BY VenueParts DEF CoreInv, BookInv, OmsTypeOK
<1>2. /\ live' \subseteq live
      /\ \A x \in Refs \ {r} : order'[x] = order[x] /\ (x \in live' <=> x \in live)
  BY ProcessTypes
<1>3. \A x \in live' : x # r => Kept(x) /\ order'[x].requested_volume = order[x].requested_volume
  BY <1>1, <1>2, KeptSame
<1>4. ASSUME r \in live', Outcome(r, n) = "applied"
      PROVE  Kept(r) /\ order'[r] = Cascade(r, n).order /\ ~is_terminal(order'[r].state)
  <2>1. /\ r \in live /\ Settle(r, Cascade(r, n).order) /\ After(order[r], Cascade(r, n).order)
    BY <1>1, <1>4, ProcessBook
  <2>2. PICK o : o = Cascade(r, n).order
    OBVIOUS
  <2>3. ~is_terminal(o.state) /\ order'[r] = o
    BY <1>4, <2>1, <2>2, SettleBook
  <2>4. order[r].state # "unknown"
    <3>1. Accepts(order[r], venue[r].log[n]) /\ Sound(order[r])
      BY <1>4, <2>1, SoundOrders DEF Outcome
    <3> QED BY <1>1, <2>2, <2>3, <3>1, UnknownEnds
  <2> QED BY <2>1, <2>2, <2>3, <2>4 DEF Kept, After
<1>5. ASSUME r \in live', Outcome(r, n) = "illegal"
      PROVE  Kept(r) /\ order'[r].requested_volume = order[r].requested_volume
  <2>1. PICK o : o = Result(order[r], venue[r].log[n])
    OBVIOUS
  <2>2. /\ r \in live /\ Settle(r, o) /\ After(order[r], o) /\ Sound(o)
        /\ o.requested_volume = order[r].requested_volume /\ o.state = order[r].state
    BY <1>1, <1>5, <2>1, ProcessBook
  <2>3. order'[r] = o
    BY <2>2, SettleBook DEF Sound, reserves_exposure
  <2> QED BY <2>2, <2>3 DEF Kept, After
<1>6. ASSUME r \in live', Outcome(r, n) \notin {"applied", "illegal"}
      PROVE  Kept(r) /\ order'[r].requested_volume = order[r].requested_volume
  <2>1. UNCHANGED omsVars
    BY <1>1, <1>6, ProcessBook
  <2> QED BY <1>6, <2>1, KeptSame DEF omsVars
<1> QED BY <1>3, <1>4, <1>5, <1>6

\* A report of which the ledger is not told, or which the book does not apply.
LEMMA CoverProcess ==
  ASSUME CoreInv, CoreInv', Cover, NEW r \in Refs, NEW n \in 1 .. Len(venue[r].log), process(r, n),
         ledger' = ledger, driver' = driver \/ (driver.pc # "create" /\ driver'.pc # "create"),
         notes'.unbacked = IF Outgrown(r, n) THEN notes.unbacked \cup {r} ELSE notes.unbacked
  PROVE  Cover'
<1>1. notes.unbacked \subseteq notes'.unbacked
  OBVIOUS
<1>2. ASSUME NEW x \in live' \ notes'.unbacked PROVE Kept(x) /\ WithinReserved(x)
  <2>1. Kept(x) /\ (\/ order'[x].requested_volume = order[x].requested_volume
                    \/ /\ x = r /\ Outcome(r, n) = "applied"
                       /\ order'[x] = Cascade(r, n).order /\ ~is_terminal(order'[x].state))
    BY <1>2, ProcessKeeps
  <2>2. CASE /\ x = r /\ Outcome(r, n) = "applied"
             /\ order'[x] = Cascade(r, n).order /\ ~is_terminal(order'[x].state)
    <3>1. ~Outgrown(r, n)
      BY <1>2, <2>2
    <3>2. order'[x].requested_volume \in Nat /\ ledger.res[x].requested \in Int
      BY <1>2, <2>2, CoreParts, LedgerParts DEF CoreInv, TypeOK, OmsTypeOK, Order
    <3> QED BY <2>1, <2>2, <3>1, <3>2 DEF Outgrown, WithinReserved
  <2> QED BY <2>1, <2>2 DEF WithinReserved
<1> QED BY <1>1, <1>2, CoverSame

LEMMA CoverSubmitReport ==
  ASSUME CoreInv, CoreInv', Cover, NEW r \in Refs, NEW n, submit_report(r, n)
  PROVE  Cover'
<1> USE CoreParts
<1>1. n \in 1 .. Len(venue[r].log) /\ process(r, n) /\ OrdersSound
  BY CoreSubmitReport DEF CoreInv
<1>2. driver' = driver /\ driver.pc # "create"
  BY IdleCreates DEF submit_report
<1>3. CASE Outcome(r, n) # "applied"
  BY <1>1, <1>2, <1>3, CoverProcess DEF submit_report, Outgrown
<1>4. CASE Outcome(r, n) = "applied"
  <2>0. PICK given \in Handed : ReportSeen(r, n, Seen(r, n, given))
    BY <1>4 DEF submit_report
  <2>1. PICK o, s, f, g, k : /\ o = Cascade(r, n).order /\ s = Seen(r, n, given) /\ f = s.filled
                             /\ g = terminal_or_gone(r, s) /\ k = Sign[r]
    OBVIOUS
  <2>13. notes'.unbacked = IF Outgrown(r, n) \/ Overcut(r, s) THEN notes.unbacked \cup {r} ELSE notes.unbacked
    BY <2>0, <2>1, SeenNotes
  <2>2. r \in live /\ Settle(r, o) /\ After(order[r], o) /\ Sound(order[r])
    BY <1>1, <1>4, <2>1, ProcessBook, SoundOrders
  <2>3. f \in Nat /\ k \in Int /\ ledger' = G!reconcile(ledger, r, f, g, k)
    BY <1>1, <1>4, <2>0, <2>1, SeenType, SignInt DEF ReportSeen
  <2>4. /\ OnlyOf(r, ledger, ledger') /\ (~G!Held(ledger, r) => ledger' = ledger)
        /\ G!Held(ledger, r) /\ g =>
                /\ ledger'.res[r] = G!NoRes
                /\ ledger.res[r].filled <= ledger.res[r].requested /\ f <= ledger.res[r].requested
                   => ledger'.open = ledger.open + Own(ledger', r) - Own(ledger, r)
    BY <2>3, ReconcileEffect
  <2>5. /\ \A x \in live' : Kept(x)
        /\ \A x \in live' : \/ order'[x].requested_volume = order[x].requested_volume
                            \/ x = r /\ order'[x] = o
    BY <1>1, <2>1, ProcessKeeps
  <2>6. \A x \in live' : x # r => Kept(x) /\ WithinReserved(x)
    BY <2>5 DEF WithinReserved
  <2>7. (\A x \in Refs : ~Creating(x) /\ ~Creating(x)') /\ CreateReserved' /\ CoveredAt(r)
    BY <1>2 DEF Creating, CreateReserved, Cover
  <2>8. /\ ledger.res[r].requested \in Int /\ ledger.res[r].filled \in Int
        /\ order[r].requested_volume \in Nat /\ order[r].filled_volume \in Nat
    BY <2>2, LedgerParts DEF Sound, Order
  \* The reservation is the order's own.
  <2>9. G!Held(ledger, r) /\ r \notin notes.unbacked => Backed(r)
    BY <2>2, <2>7 DEF CoveredAt, Exhausted
  <2>10. notes.unbacked \subseteq notes'.unbacked
    BY <2>13
  <2>14. CASE ~G!Held(ledger, r)
    <3>1. ledger' = ledger
      BY <2>4, <2>14
    <3>2. ASSUME NEW x \in live' \ notes'.unbacked PROVE Kept(x) /\ WithinReserved(x)
      <4>1. CASE x # r
        BY <2>6, <3>2, <4>1
      <4>2. CASE x = r
        <5>1. r \in live' /\ ~Outgrown(r, n)
          BY <2>13, <3>2, <4>2
        <5>2. order'[r] = o /\ ~is_terminal(o.state) /\ Sound(o)
          BY <2>2, <5>1, SettleBook
        <5>3. o.requested_volume <= ledger.res[r].requested
          BY <1>4, <2>1, <2>8, <5>1, <5>2 DEF Outgrown, Sound, Order
        <5> QED BY <2>5, <4>2, <5>1, <5>2, <5>3 DEF WithinReserved
      <4> QED BY <4>1, <4>2
    <3> QED BY <1>2, <2>10, <3>1, <3>2, CoverSame
  <2>11. CASE G!Held(ledger, r) /\ is_terminal(o.state)
    <3>1. live' = live \ {r} /\ s = given /\ (g <=> r \notin s.of) /\ (r \in s.of => f = order[r].filled_volume)
      BY <1>1, <1>4, <2>1, <2>2, <2>11, SettleBook, SeenType
    <3>2. CASE g
      <4>1. ledger'.res[r] = G!NoRes
        BY <2>4, <2>11, <3>2
      <4>2. CoveredAt(r)'
        BY <3>1, <4>1 DEF CoveredAt, G!NoRes
      <4>3. ASSUME notes'.unbacked = {}
            PROVE  ledger'.open = ledger.open + Own(ledger', r) - Own(ledger, r)
        <5>1. ledger.res[r].filled <= ledger.res[r].requested
          BY <2>7, <2>10, <4>3 DEF CoveredAt
        <5>2. ~Overcut(r, s)
          BY <2>13, <4>3
        <5>3. f <= ledger.res[r].requested
          BY <2>1, <2>3, <2>8, <3>1, <3>2, <5>2 DEF Overcut
        <5> QED BY <2>4, <2>11, <3>2, <5>1, <5>3
      <4> QED BY <2>4, <2>6, <2>7, <2>10, <4>2, <4>3, CoverOne
    \* The router takes the old image for the present order: the reservation stays.
    <3>3. CASE ~g
      <4>1. f = order[r].filled_volume
        BY <3>1, <3>3
      <4>2. /\ ledger'.res[r].active = ledger.res[r].active
            /\ ledger'.res[r].requested = ledger.res[r].requested
            /\ ledger'.res[r].filled = IF f > ledger.res[r].filled THEN f ELSE ledger.res[r].filled
            /\ ledger'.open = ledger.open + Own(ledger', r) - Own(ledger, r)
        BY <2>3, <2>11, <3>3, ReconcileEffect
      <4>3. G!Held(ledger', r)
        BY <2>11, <4>2 DEF G!Held
      <4>4. ASSUME r \notin notes'.unbacked PROVE ledger'.res[r].filled <= ledger'.res[r].requested
        <5>1. Backed(r) /\ ledger.res[r].filled <= ledger.res[r].requested
          BY <2>7, <2>9, <2>10, <2>11, <4>4 DEF CoveredAt
        <5>2. f <= ledger.res[r].requested
          BY <2>2, <2>8, <4>1, <5>1 DEF Backed, Sound
        <5> QED BY <2>3, <2>8, <4>2, <5>1, <5>2
      <4>5. CoveredAt(r)'
        BY <3>1, <4>3, <4>4 DEF CoveredAt
      <4> QED BY <2>4, <2>6, <2>7, <2>10, <4>2, <4>5, CoverOne
    <3> QED BY <3>2, <3>3
  <2>12. CASE G!Held(ledger, r) /\ ~is_terminal(o.state)
    <3>1. live' = live /\ order'[r] = o /\ Sound(o) /\ s = Image(r, o)
      BY <1>1, <1>4, <2>1, <2>2, <2>12, SettleBook, SeenType
    <3>2. ~g
      BY <1>1, <1>4, <2>1, <2>12, SeenType
    <3>3. /\ ledger'.res[r].active = ledger.res[r].active
          /\ ledger'.res[r].requested = ledger.res[r].requested
          /\ ledger'.res[r].filled = IF f > ledger.res[r].filled THEN f ELSE ledger.res[r].filled
          /\ ledger'.open = ledger.open + Own(ledger', r) - Own(ledger, r)
      BY <2>3, <2>12, <3>2, ReconcileEffect
    <3>4. G!Held(ledger', r)
      BY <2>12, <3>3 DEF G!Held
    <3>5. ASSUME r \notin notes'.unbacked
          PROVE  ledger'.res[r].filled <= ledger'.res[r].requested /\ Backed(r)'
      <4>1. Backed(r) /\ ~Outgrown(r, n)
        BY <2>9, <2>10, <2>12, <2>13, <3>5
      <4>2. o.requested_volume <= ledger.res[r].requested
        BY <1>4, <2>1, <2>8, <2>12, <3>1, <4>1 DEF Outgrown, Sound, Order
      <4>3. f = o.filled_volume /\ f >= order[r].filled_volume /\ f <= o.requested_volume
            /\ o.requested_volume \in Nat
        BY <2>1, <2>2, <3>1 DEF After, Sound, Order, Image
      <4>4. ledger'.res[r].filled = f
        BY <2>3, <2>8, <3>3, <4>1, <4>3 DEF Backed
      <4> QED BY <2>3, <2>8, <3>1, <3>3, <3>4, <4>2, <4>3, <4>4 DEF Backed
    <3>6. CoveredAt(r)'
      BY <2>7, <3>4, <3>5 DEF CoveredAt
    <3> QED BY <2>4, <2>6, <2>7, <2>10, <3>3, <3>6, CoverOne
  <2> QED BY <2>11, <2>12, <2>14
<1> QED BY <1>3, <1>4

LEMMA CoverRestart ==
  ASSUME CoreInv, CoreInv', restart_recover_venue
  PROVE  Cover'
<1> USE CoreParts
<1>1. /\ live' = live /\ ledger' = Rebuilt /\ driver'.pc = "reports"
      /\ order' = [r \in Refs |-> IF r \in live THEN NewOrder("unknown", order[r].requested_volume, order[r].filled_volume)
                                  ELSE NoOrder]
  BY FetchTypes DEF restart_recover_venue
<1>2. /\ \A r \in Refs : ledger'.res[r] =
              IF r \in live /\ remaining(order[r]) > 0
              THEN G!Reservation(order[r].requested_volume, order[r].filled_volume) ELSE G!NoRes
      /\ Exact(ledger')
  BY <1>1, RebuiltParts
<1>3. ASSUME NEW r \in Refs PROVE CoveredAt(r)'
  <2>1. ~Creating(r)' /\ ~G!NoRes.active /\ G!NoRes.filled = 0 /\ G!NoRes.requested = 0
    BY <1>1 DEF Creating, G!NoRes
  <2>2. CASE r \in live /\ remaining(order[r]) > 0
    <3>1. PICK v, f : v = order[r].requested_volume /\ f = order[r].filled_volume
      OBVIOUS
    <3>2. v \in Nat /\ f \in Nat /\ f <= v
      BY <2>2, <3>1, SoundOrders DEF Sound, Order
    <3>3. ledger'.res[r] = G!Reservation(v, f) /\ order'[r] = NewOrder("unknown", v, f)
      BY <1>1, <1>2, <2>2, <3>1
    <3>4. Backed(r)' /\ ledger'.res[r].filled <= ledger'.res[r].requested
      BY <3>2, <3>3 DEF Backed, G!Held, G!Reservation, NewOrder
    <3> QED BY <2>1, <3>4 DEF CoveredAt, Backed
  <2>3. CASE r \in live /\ ~(remaining(order[r]) > 0)
    <3>1. order'[r].state = "unknown" /\ remaining(order'[r]) = remaining(order[r])
      BY <1>1, <2>3 DEF NewOrder, remaining
    <3>2. remaining(order[r]) = 0
      BY <2>3, SoundOrders DEF Sound, Order, remaining
    <3> QED BY <1>2, <2>1, <2>3, <3>1, <3>2 DEF CoveredAt, Exhausted, G!Held
  <2>4. CASE r \notin live
    BY <1>1, <1>2, <2>1, <2>4 DEF CoveredAt
  <2> QED BY <2>2, <2>3, <2>4
<1> QED BY <1>1, <1>2, <1>3 DEF Cover, CreateReserved

LEMMA CoverInit ==
  ASSUME Init
  PROVE  Cover
<1>1. live = {} /\ ledger = Empty /\ driver = Idle
  BY DEF Init, OmsInit
<1>2. ledger.open = 0 /\ \A r \in Refs : ledger.res[r] = G!NoRes
  BY <1>1 DEF Empty
<1>3. \A r \in Refs : CoveredAt(r)
  BY <1>1, <1>2 DEF CoveredAt, G!NoRes
<1>4. CreateReserved
  BY <1>1, IdlePc DEF CreateReserved
<1>5. Exact(ledger)
  <2> DEFINE own == [r \in Refs |-> Own(ledger, r)]
  <2>1. \A r \in Refs : own[r] = 0
    BY <1>2 DEF Own, G!NoRes
  <2> HIDE DEF own
  <2>2. SumFunctionOnSet(own, {}) = SumFunctionOnSet(own, Refs)
    BY <2>1, RouterAssumption, SumSupport
  <2> QED BY <1>2, <2>2, SumEmpty DEF Exact, own
<1> QED BY <1>3, <1>4, <1>5 DEF Cover

LEMMA CoverStep ==
  ASSUME CoreInv, TodoEmitted, Cover, [Next]_vars
  PROVE  Cover'
<1> USE CoreParts
<1>0. CoreInv'
  BY CoreStep
<1>1. ASSUME NEW q \in Request, enqueue(q) PROVE Cover'
  BY <1>0, <1>1, CoverQuiet DEF enqueue
<1>2. ASSUME NEW r \in Refs, Send(r) PROVE Cover'
  <2>1. live' = live /\ \A x \in live : Kept(x) /\ WithinReserved(x)
    BY <1>2, KeptTransition DEF Send, OrderStates, is_terminal, Terminal
  <2> QED BY <1>0, <1>2, <2>1, CoverSame DEF Send, Rest
<1>3. ASSUME NEW r \in Refs, VenueMoves(r) PROVE Cover'
  <2>1. UNCHANGED <<omsVars, ledger, driver, notes>>
    BY <1>3 DEF VenueMoves, VenueDoes, Rest
  <2> QED BY <1>0, <2>1, CoverQuiet
<1>4. ASSUME NEW r \in Refs, ResolveUnknown(r) PROVE Cover'
  <2>1. /\ live' = live \ {r} /\ notes'.unbacked = notes.unbacked /\ UNCHANGED <<ledger, driver>>
        /\ \A x \in Refs \ {r} : order'[x] = order[x]
    BY <1>4, CoreResolveUnknown DEF ResolveUnknown
  <2>2. \A x \in live' : x \in live /\ order'[x] = order[x]
    BY <2>1 DEF BookInv, OmsTypeOK
  <2> QED BY <1>0, <2>1, <2>2, KeptSame, CoverSame
<1>5. CASE refill \/ UNCHANGED vars
  <2>1. UNCHANGED <<omsVars, ledger, driver, notes>>
    BY <1>5 DEF refill, vars
  <2> QED BY <1>0, <2>1, CoverQuiet
<1>6. CASE halt_globally \/ set_session \/ disconnect \/ begin_recovery
  <2>1. UNCHANGED Others
    BY <1>6 DEF halt_globally, set_session, disconnect, begin_recovery
  <2> QED BY <1>0, <2>1, CoverQuiet DEF Others
<1>7. CASE restart_recover_venue
  BY <1>0, <1>7, CoverRestart
<1>8. CASE run_reconciliation
  <2>1. driver.pc # "create" /\ driver'.pc # "create"
    BY <1>8, IdleCreates, FetchTypes DEF run_reconciliation
  <2> QED BY <1>0, <1>8, <2>1, CoverQuiet DEF run_reconciliation
<1>9. CASE ReconcileReport
  <2>1. driver.pc = "reports" /\ driver'.pc = "reports" /\ ledger' = ledger
    BY <1>9, CoreReconcileReport DEF ReconcileReport
  <2>2. PICK r \in Refs, n \in 1 .. MaxReports :
          /\ n \in 1 .. Len(venue[r].log) /\ process(r, n)
          /\ notes'.unbacked = IF Outgrown(r, n) THEN notes.unbacked \cup {r} ELSE notes.unbacked
    BY <1>9, CoreReconcileReport
  <2> QED BY <1>0, <2>1, <2>2, CoverProcess
<1>10. CASE CompareOrders
  <2>1. driver.pc # "create" /\ driver'.pc # "create"
    BY <1>10, IdlePc DEF CompareOrders
  <2> QED BY <1>0, <1>10, <2>1, CoverQuiet DEF CompareOrders, Compares
<1>11. CASE SnapshotOrders \/ retry_after_resolution
  <2>1. driver.pc # "create" /\ driver'.pc # "create" /\ Compares
    BY <1>11, CoreSnapshot
  <2> QED BY <1>0, <2>1, CoverQuiet DEF Compares
<1>12. CASE FetchOpenOrders
  <2>1. driver.pc # "create" /\ driver'.pc # "create" /\ Compares
    BY <1>12, FetchOpenTypes DEF FetchOpenOrders
  <2> QED BY <1>0, <2>1, CoverQuiet DEF Compares
<1> QED BY <1>0, <1>1, <1>2, <1>3, <1>4, <1>5, <1>6, <1>7, <1>8, <1>9, <1>10, <1>11, <1>12, CoverSubmitCreate,
           CoverSubmitCancel, CoverSubmitReplace, CoverApplyCreate, CoverDrain, CoverSubmitReport
        DEF Next

\* The ledger reserves at least what every open order may yet execute, and its counter is at
\* least the exposure report's sum, through creates, cancels, replacements, fills in any order,
\* lost connections, reconciliation and restarts - for every order whose volume went through
\* RiskGatedRouter. The orders for which it does not are named by notes.unbacked.
THEOREM OpenOrdersCovered == Spec => []ExposureCovered
<1>1. Init => CoreInv /\ TodoEmitted /\ Cover
  BY CoreInit, CoverInit
<1>2. CoreInv /\ TodoEmitted /\ Cover /\ [Next]_vars => CoreInv' /\ TodoEmitted' /\ Cover'
  BY CoreStep, CoverStep
<1>3. CoreInv /\ Cover => ExposureCovered
  BY CoverImplies
<1> QED BY <1>1, <1>2, <1>3, PTL DEF Spec
-----------------------------------------------------------------------------
(* No strategy waits longer than the others' quanta. *)

\* The strategies after s and before c, going round.
Between(s, c) == IF s < c THEN {t \in Strategies : s < t /\ t < c}
                 ELSE {t \in Strategies : s < t \/ t < c}

\* What the visit at the cursor has used up of its quantum, as long as it is not s's own.
Spent(s) == IF sched.visit > 0 /\ sched.cursor # s THEN Quantum[sched.cursor] - sched.visit ELSE 0

\* A visit that goes on has something to serve and some of its quantum left; and who waits has
\* seen no more served than the quanta of those the cursor passed since, and the visit's part.
VisitSound == sched.visit > 0 => /\ sched.queue[sched.cursor] # <<>>
                                 /\ sched.visit < Quantum[sched.cursor]
PassedOnly == \A s \in Strategies :
                notes.waited[s] <= SumFunctionOnSet(Quantum, Between(s, sched.cursor)) + Spent(s)
Turns == VisitSound /\ PassedOnly

LEMMA StrategyFacts ==
  /\ StrategyCount \in Nat \ {0} /\ Strategies = 0 .. StrategyCount - 1 /\ IsFiniteSet(Strategies)
  /\ \A s \in Strategies : s \in Int /\ s >= 0 /\ s < StrategyCount /\ Quantum[s] \in Nat \ {0}
<1>1. StrategyCount \in Nat \ {0} /\ Strategies = 0 .. StrategyCount - 1
  BY RouterAssumption DEF Strategies
<1>2. IsFiniteSet(0 .. StrategyCount - 1)
  BY <1>1, FS_Interval
<1> QED BY <1>1, <1>2, RouterAssumption

LEMMA QuantaSum ==
  ASSUME NEW A \in SUBSET Strategies, NEW B \in SUBSET A
  PROVE  /\ SumFunctionOnSet(Quantum, A) \in Int /\ SumFunctionOnSet(Quantum, B) \in Int
         /\ SumFunctionOnSet(Quantum, B) <= SumFunctionOnSet(Quantum, A)
         /\ SumFunctionOnSet(Quantum, B) >= 0
<1>1. IsFiniteSet(A) /\ IsFiniteSet(B) /\ \A x \in A : Quantum[x] \in Nat
  BY StrategyFacts, FS_Subset
<1>2. SumFunctionOnSet(Quantum, A) \in Int /\ SumFunctionOnSet(Quantum, B) \in Int
  BY <1>1, SumInt
<1>3. SumFunctionOnSet(Quantum, B) <= SumFunctionOnSet(Quantum, A)
  BY <1>1, SumSubset
<1>4. SumFunctionOnSet(Quantum, {}) <= SumFunctionOnSet(Quantum, B)
  BY <1>1, {} \in SUBSET B, SumSubset
<1> QED BY <1>2, <1>3, <1>4, SumEmpty

LEMMA QuantaWith ==
  ASSUME NEW A \in SUBSET Strategies, NEW s \in Strategies, s \notin A
  PROVE  SumFunctionOnSet(Quantum, A \cup {s}) = Quantum[s] + SumFunctionOnSet(Quantum, A)
<1>1. IsFiniteSet(A)
  BY StrategyFacts, FS_Subset
<1>2. (\A x \in A : Quantum[x] \in Int) /\ Quantum[s] \in Int
  BY StrategyFacts
<1> QED BY <1>1, <1>2, SumAdd

\* The cursor moves on by one.
LEMMA BetweenNext ==
  ASSUME NEW t \in Strategies, NEW s \in Strategies, t # s
  PROVE  /\ Between(t, (s + 1) % StrategyCount) = Between(t, s) \cup {s}
         /\ s \notin Between(t, s) /\ Between(t, s) \in SUBSET Strategies
<1> DEFINE n == StrategyCount
<1>1. n \in Nat \ {0} /\ Strategies = 0 .. n - 1 /\ t \in 0 .. n - 1 /\ s \in 0 .. n - 1
  BY StrategyFacts
<1>2. (s + 1) % n = IF s + 1 < n THEN s + 1 ELSE 0
  <2>1. 1 \in Strategies
    BY <1>1
  <2>2. (s + 1) % n = IF s + 1 < n THEN s + 1 ELSE s + 1 - n
    BY <2>1, Ring
  <2> QED BY <1>1, <2>2
<1>3. CASE s + 1 < n
  <2>1. Between(t, s + 1) = Between(t, s) \cup {s}
    BY <1>1, <1>3 DEF Between
  <2> QED BY <1>1, <1>2, <1>3, <2>1 DEF Between
<1>4. CASE ~(s + 1 < n)
  <2>1. s = n - 1 /\ t < s
    BY <1>1, <1>4
  <2>2. Between(t, 0) = Between(t, s) \cup {s}
    BY <1>1, <2>1 DEF Between
  <2> QED BY <1>1, <1>2, <1>4, <2>1, <2>2 DEF Between
<1> QED BY <1>3, <1>4

\* The slots the cursor passes over are empty: nobody who waits is among them.
LEMMA BetweenServed ==
  ASSUME sched \in Scheduler, NEW t \in Waiting, t # Served
  PROVE  Between(t, sched.cursor) \subseteq Between(t, Served) /\ Served \in Waiting
<1> DEFINE n == StrategyCount
           c == sched.cursor
<1>1. n \in Nat \ {0} /\ Strategies = 0 .. n - 1 /\ t \in 0 .. n - 1 /\ c \in 0 .. n - 1
  BY StrategyFacts DEF Waiting, Scheduler
<1>2. PICK k \in Strategies : /\ Served = (c + k) % n /\ Served \in Waiting
                              /\ \A j \in 0 .. k - 1 : (c + j) % n \notin Waiting
  BY ServedFirst
<1>3. PICK s : s = Served
  OBVIOUS
<1>4. s = (IF c + k < n THEN c + k ELSE c + k - n) /\ k \in 0 .. n - 1 /\ s \in 0 .. n - 1
  BY <1>1, <1>2, <1>3, Ring
<1>5. \A j \in 0 .. k - 1 : t # (IF c + j < n THEN c + j ELSE c + j - n)
  <2> SUFFICES ASSUME NEW j \in 0 .. k - 1
               PROVE  t # (IF c + j < n THEN c + j ELSE c + j - n)
    OBVIOUS
  <2>1. j \in Strategies /\ c \in Strategies
    BY <1>1, <1>4
  <2>2. (c + j) % n = IF c + j < n THEN c + j ELSE c + j - n
    BY <2>1, Ring
  <2> QED BY <1>2, <2>2
<1> HIDE DEF c, n
<1>6. CASE c + k < n
  <2>1. ~(c <= t /\ t < s)
    <3> SUFFICES ASSUME c <= t /\ t < s PROVE FALSE
      OBVIOUS
    <3>1. t - c \in 0 .. k - 1 /\ c + (t - c) = t /\ c + (t - c) < n
      BY <1>1, <1>4, <1>6
    <3> QED BY <1>5, <3>1
  <2>2. Between(t, c) \subseteq Between(t, s)
    BY <1>1, <1>3, <1>4, <1>6, <2>1 DEF Between
  <2> QED BY <1>2, <1>3, <2>2 DEF c
<1>7. CASE ~(c + k < n)
  <2>1. ~(c <= t)
    <3> SUFFICES ASSUME c <= t PROVE FALSE
      OBVIOUS
    <3>1. t - c \in 0 .. k - 1 /\ c + (t - c) = t /\ c + (t - c) < n
      BY <1>1, <1>4, <1>7
    <3> QED BY <1>5, <3>1
  <2>2. ~(t < s)
    <3> SUFFICES ASSUME t < s PROVE FALSE
      OBVIOUS
    <3>1. t - c + n \in 0 .. k - 1 /\ ~(c + (t - c + n) < n) /\ c + (t - c + n) - n = t
      BY <1>1, <1>4, <1>7
    <3> QED BY <1>5, <3>1
  <2>3. Between(t, c) \subseteq Between(t, s)
    BY <1>1, <1>3, <1>4, <1>7, <2>1, <2>2 DEF Between
  <2> QED BY <1>2, <1>3, <2>3 DEF c
<1> QED BY <1>6, <1>7

LEMMA TurnsImply ==
  ASSUME TypeOK, Turns
  PROVE  WaitBounded
<1> SUFFICES ASSUME NEW s \in Strategies
             PROVE  notes.waited[s] <= SumFunctionOnSet(Quantum, Strategies \ {s})
  BY DEF WaitBounded
<1>1. PICK c : c = sched.cursor
  OBVIOUS
<1>2. c \in Strategies /\ sched.visit \in Nat /\ notes.waited[s] \in Nat
  BY <1>1 DEF TypeOK, Scheduler, Notes
<1>3. PICK B, R : B = Between(s, c) /\ R = Strategies \ {s}
  OBVIOUS
<1>4. B \in SUBSET R /\ R \in SUBSET Strategies /\ c \notin B
  BY <1>2, <1>3, StrategyFacts DEF Between
<1>5. notes.waited[s] <= SumFunctionOnSet(Quantum, B) + Spent(s)
  BY <1>1, <1>3 DEF Turns, PassedOnly
<1>6. CASE Spent(s) = 0
  BY <1>2, <1>3, <1>4, <1>5, <1>6, QuantaSum
<1>7. CASE sched.visit > 0 /\ c # s
  <2>1. B \cup {c} \in SUBSET R /\ B \in SUBSET Strategies
    BY <1>2, <1>3, <1>4, <1>7
  <2>2. SumFunctionOnSet(Quantum, B \cup {c}) = Quantum[c] + SumFunctionOnSet(Quantum, B)
    BY <1>2, <1>4, <2>1, QuantaWith
  <2>3. SumFunctionOnSet(Quantum, B \cup {c}) <= SumFunctionOnSet(Quantum, R)
        /\ SumFunctionOnSet(Quantum, R) \in Int /\ SumFunctionOnSet(Quantum, B) \in Int
    BY <1>4, <2>1, QuantaSum
  <2>4. Spent(s) = Quantum[c] - sched.visit /\ Quantum[c] \in Nat
    BY <1>1, <1>2, <1>7, StrategyFacts DEF Spent
  <2> QED BY <1>2, <1>3, <1>5, <1>7, <2>2, <2>3, <2>4
<1> QED BY <1>1, <1>6, <1>7 DEF Spent

\* One request served.
LEMMA TurnsServe ==
  ASSUME TypeOK, Turns, Waiting # {}, Serve, notes'.waited = Waited(Served)
  PROVE  Turns'
<1> DEFINE n == StrategyCount
           c == sched.cursor
           s == Served
           left == G!VisitBudget(s, c, sched.visit, Quantum)
           rest == Tail(sched.queue[s])
           over == G!VisitEnds(rest, left)
<1>1. /\ sched \in Scheduler /\ c \in Strategies /\ sched.visit \in Nat
      /\ sched.queue \in [Strategies -> Seq(Request)] /\ notes.waited \in [Strategies -> Nat]
  BY DEF TypeOK, Scheduler, Notes
<1>2. s \in Strategies /\ s \in Waiting
  BY <1>1, ServedFirst DEF Waiting
<1>3. /\ sched'.queue = [sched.queue EXCEPT ![s] = rest]
      /\ sched'.cursor = IF over THEN (s + 1) % n ELSE s
      /\ sched'.visit = IF over THEN 0 ELSE left - 1
  <2>1. sched' = [queue  |-> [sched.queue EXCEPT ![s] = rest],
                  cursor |-> IF over THEN (s + 1) % n ELSE s,
                  visit  |-> IF over THEN 0 ELSE left - 1]
    BY DEF Serve
  <2> HIDE DEF s, left, rest, over, n
  <2> QED BY <2>1
<1>4. \/ s = c /\ sched.visit > 0 /\ left = sched.visit /\ left < Quantum[s]
      \/ left = Quantum[s] /\ (sched.visit = 0 \/ s # c)
  BY <1>1 DEF Turns, VisitSound, G!VisitBudget
<1>5. s # c => sched.visit = 0
  <2> SUFFICES ASSUME s # c, sched.visit > 0 PROVE FALSE
    BY <1>1
  <2>1. c \in Waiting
    BY <1>1 DEF Turns, VisitSound, Waiting
  <2>2. PICK k \in Strategies : /\ Served = (c + k) % n
                                /\ \A j \in 0 .. k - 1 : (c + j) % n \notin Waiting
    BY <1>1, <1>2, ServedFirst
  <2>3. 0 \in Strategies /\ (c + 0) % n = c
    <3>1. 0 \in Strategies /\ c + 0 < n /\ c + 0 = c
      BY <1>1, StrategyFacts
    <3>2. (c + 0) % n = IF c + 0 < n THEN c + 0 ELSE c + 0 - n
      BY <1>1, <3>1, Ring
    <3> QED BY <3>1, <3>2
  <2>4. CASE k = 0
    BY <2>2, <2>3, <2>4
  <2>5. CASE k # 0
    <3>1. 0 \in 0 .. k - 1
      BY <2>5, StrategyFacts
    <3> QED BY <2>1, <2>2, <2>3, <3>1
  <2> QED BY <2>4, <2>5
<1>6. left \in Nat \ {0} /\ left <= Quantum[s] /\ Quantum[s] \in Nat
  BY <1>1, <1>2, <1>4, StrategyFacts
<1>7. ~over => rest # <<>> /\ left > 1
  BY <1>6 DEF G!VisitEnds
<1> HIDE DEF n, c, s, left, rest, over
<1>8. VisitSound'
  BY <1>1, <1>2, <1>3, <1>6, <1>7 DEF VisitSound
<1>9. ASSUME NEW t \in Strategies
      PROVE  notes'.waited[t] <= SumFunctionOnSet(Quantum, Between(t, sched'.cursor)) + Spent(t)'
  <2>1. sched'.cursor \in Strategies
    BY <1>2, <1>3, StrategyFacts, BetweenNext DEF n
  <2>2. Between(t, sched'.cursor) \in SUBSET Strategies
    BY DEF Between
  <2>3. SumFunctionOnSet(Quantum, Between(t, sched'.cursor)) \in Int
        /\ SumFunctionOnSet(Quantum, Between(t, sched'.cursor)) >= 0
    BY <2>2, QuantaSum
  <2>4. Spent(t)' \in Nat
    BY <1>2, <1>3, <1>6, <1>7 DEF Spent
  <2>5. CASE t = s \/ sched.queue[t] = <<>>
    <3>1. notes'.waited[t] = 0
      BY <2>5 DEF Waited, s
    <3> QED BY <2>3, <2>4, <3>1
  <2>6. CASE t # s /\ sched.queue[t] # <<>>
    <3>1. notes'.waited[t] = notes.waited[t] + 1 /\ notes.waited[t] \in Nat
      BY <1>1, <2>6 DEF Waited, s
    <3>2. PICK b, d : b = SumFunctionOnSet(Quantum, Between(t, c)) /\ d = SumFunctionOnSet(Quantum, Between(t, s))
      OBVIOUS
    <3>3. b \in Int /\ d \in Int /\ b <= d
      <4>1. Between(t, c) \subseteq Between(t, s)
        BY <1>1, <2>6, BetweenServed DEF Waiting, s, c
      <4>2. Between(t, s) \in SUBSET Strategies
        BY DEF Between
      <4> QED BY <3>2, <4>1, <4>2, QuantaSum
    <3>4. Spent(t) = Quantum[s] - left
      BY <1>1, <1>4, <1>5, <1>6, <2>6 DEF Spent, c
    <3>5. notes.waited[t] <= b + Spent(t)
      BY <3>2 DEF Turns, PassedOnly, c
    <3>6. CASE over
      <4>1. Between(t, sched'.cursor) = Between(t, s) \cup {s} /\ s \notin Between(t, s)
            /\ Between(t, s) \in SUBSET Strategies
        BY <1>2, <1>3, <2>6, <3>6, BetweenNext DEF n
      <4>2. SumFunctionOnSet(Quantum, Between(t, sched'.cursor)) = Quantum[s] + d
        BY <1>2, <3>2, <4>1, QuantaWith
      <4> QED BY <1>6, <2>4, <3>1, <3>3, <3>4, <3>5, <4>2
    <3>7. CASE ~over
      <4>1. sched'.cursor = s /\ sched'.visit = left - 1
        BY <1>3, <3>7
      <4>2. Spent(t)' = Quantum[s] - (left - 1)
        BY <1>6, <1>7, <2>6, <3>7, <4>1 DEF Spent
      <4> QED BY <1>6, <3>1, <3>2, <3>3, <3>4, <3>5, <4>1, <4>2
    <3> QED BY <3>6, <3>7
  <2> QED BY <2>5, <2>6
<1> QED BY <1>8, <1>9 DEF Turns, PassedOnly

LEMMA TurnsSame ==
  ASSUME Turns, sched' = sched, notes'.waited = notes.waited
  PROVE  Turns'
BY DEF Turns, VisitSound, PassedOnly, Spent

LEMMA TurnsEnqueue ==
  ASSUME CoreInv, Turns, NEW q \in Request, enqueue(q)
  PROVE  Turns'
<1>1. PICK s, w : s = Owner[q.ref] /\ w = Append(sched.queue[s], q)
  OBVIOUS
<1>2. s \in Strategies /\ sched.queue \in [Strategies -> Seq(Request)] /\ sched \in Scheduler
  BY <1>1, RequestParts, CoreParts DEF SchedOK, Scheduler
<1>3. sched' = [sched EXCEPT !.queue[s] = w] /\ notes' = notes
  BY <1>1 DEF enqueue
<1>4. w # <<>>
  <2>1. Len(w) = Len(sched.queue[s]) + 1 /\ Len(sched.queue[s]) \in Nat
    BY <1>1, <1>2, Appended
  <2>2. Len(<<>>) = 0
    BY EmptySeq
  <2> QED BY <2>1, <2>2
<1>5. /\ sched'.cursor = sched.cursor /\ sched'.visit = sched.visit
      /\ \A t \in Strategies : sched'.queue[t] = IF t = s THEN w ELSE sched.queue[t]
  BY <1>2, <1>3 DEF Scheduler
<1>6. sched.cursor \in Strategies
  BY <1>2 DEF Scheduler
<1> QED BY <1>3, <1>4, <1>5, <1>6 DEF Turns, VisitSound, PassedOnly, Spent

LEMMA PassedSum ==
  ASSUME NEW c
  PROVE  \A s : SumFunctionOnSet(Quantum, Between(s, c)) \in Int /\ SumFunctionOnSet(Quantum, Between(s, c)) >= 0
<1> SUFFICES ASSUME NEW s
             PROVE  SumFunctionOnSet(Quantum, Between(s, c)) \in Int /\ SumFunctionOnSet(Quantum, Between(s, c)) >= 0
  OBVIOUS
<1>1. Between(s, c) \in SUBSET Strategies
  BY DEF Between
<1> QED BY <1>1, QuantaSum

LEMMA TurnsStep ==
  ASSUME CoreInv, TodoEmitted, Turns, [Next]_vars
  PROVE  Turns'
<1> USE CoreParts
<1>1. ASSUME NEW q, NEW kind, Dispatches(q, kind), notes'.waited = Took.waited PROVE Turns'
  <2>1. Waiting # {} /\ Serve /\ TypeOK /\ Took.waited = Waited(Served)
    BY <1>1, TakenRequest DEF Took, Notes
  <2> QED BY <1>1, <2>1, TurnsServe
<1>2. ASSUME NEW q \in Request, submit_create(q) \/ submit_cancel(q) PROVE Turns'
  BY <1>1, <1>2 DEF submit_create, submit_cancel
<1>3. ASSUME NEW q \in Request, submit_replace(q) PROVE Turns'
  <2>1. Dispatches(q, "replace") /\ q.ref \in Refs
    BY <1>3, RequestParts DEF submit_replace
  <2>2. Took \in Notes
    BY <2>1, TakenRequest
  <2>3. notes'.waited = Took.waited
    BY <1>3, <2>1, <2>2, UnbackedOnly DEF submit_replace
  <2> QED BY <1>1, <2>1, <2>3
<1>4. CASE ApplyCreate \/ refill \/ UNCHANGED vars
  BY <1>4, TurnsSame DEF ApplyCreate, refill, vars
<1>5. CASE drain_pending
  <2>1. Head(limiter.pending).ref \in Refs
    BY <1>5, CoreDrainPending, RequestParts
  <2>2. notes'.waited = notes.waited /\ sched' = sched
    BY <1>5, <2>1, UnbackedOnly DEF drain_pending
  <2> QED BY <2>2, TurnsSame
<1>6. ASSUME NEW r \in Refs, NEW n \in 1 .. MaxReports, submit_report(r, n) PROVE Turns'
  <2>1. notes'.waited = notes.waited /\ sched' = sched
    BY <1>6, CoreSubmitReport DEF submit_report
  <2> QED BY <2>1, TurnsSame
<1>7. ASSUME NEW r \in Refs, Send(r) \/ VenueMoves(r) PROVE Turns'
  <2>1. UNCHANGED Rest
    BY <1>7 DEF Send, VenueMoves, VenueDoes
  <2> QED BY <2>1, TurnsSame DEF Rest
<1>8. ASSUME NEW r \in Refs, ResolveUnknown(r) PROVE Turns'
  BY <1>8, CoreResolveUnknown, TurnsSame DEF ResolveUnknown
<1>9. CASE halt_globally \/ set_session \/ disconnect \/ begin_recovery
  <2>1. UNCHANGED Others
    BY <1>9 DEF halt_globally, set_session, disconnect, begin_recovery
  <2> QED BY <2>1, TurnsSame DEF Others
<1>10. CASE restart_recover_venue
  <2>1. sched'.visit = 0 /\ sched'.cursor = 0
    BY <1>10 DEF restart_recover_venue, EmptyQueues
  <2>2. notes'.waited = [s \in Strategies |-> 0]
    BY <1>10 DEF restart_recover_venue, Notes
  <2> QED BY <2>1, <2>2, PassedSum DEF Turns, VisitSound, PassedOnly, Spent
<1>11. CASE run_reconciliation \/ CompareOrders \/ SnapshotOrders \/ FetchOpenOrders \/ retry_after_resolution
  BY <1>11, TurnsSame
     DEF run_reconciliation, CompareOrders, SnapshotOrders, FetchOpenOrders, retry_after_resolution, Compares
<1>12. CASE ReconcileReport
  <2>1. notes'.waited = notes.waited /\ sched' = sched
    BY <1>12, CoreReconcileReport DEF ReconcileReport
  <2> QED BY <2>1, TurnsSame
<1> QED BY <1>2, <1>3, <1>4, <1>5, <1>6, <1>7, <1>8, <1>9, <1>10, <1>11, <1>12, TurnsEnqueue DEF Next

\* StrategyScheduler::next() keeps the bound its comment documents, for any number of strategies
\* and any quanta, whatever is enqueued meanwhile, also for a queue that runs empty or fills up
\* in the middle of a visit: a strategy that has a request sees at most the sum of the other
\* strategies' quanta served before it.
THEOREM WaitIsBounded == Spec => []WaitBounded
<1>1. Init => CoreInv /\ TodoEmitted /\ Turns
  <2>1. ASSUME Init PROVE Turns
    <3>1. sched.visit = 0 /\ sched.cursor = 0 /\ notes.waited = [s \in Strategies |-> 0]
      BY <2>1 DEF Init, EmptyQueues
    <3> QED BY <3>1, PassedSum DEF Turns, VisitSound, PassedOnly, Spent
  <2> QED BY <2>1, CoreInit
<1>2. CoreInv /\ TodoEmitted /\ Turns /\ [Next]_vars => CoreInv' /\ TodoEmitted' /\ Turns'
  BY CoreStep, TurnsStep
<1>3. CoreInv /\ Turns => WaitBounded
  BY CoreParts, TurnsImply
<1> QED BY <1>1, <1>2, <1>3, PTL DEF Spec
=============================================================================
