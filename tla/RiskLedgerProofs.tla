-------------------------- MODULE RiskLedgerProofs --------------------------
(***************************************************************************)
(* Whatever calls interleave, the counters of the ledger are exact and no  *)
(* limit is oversubscribed, for any number of threads, orders, dimensions  *)
(* and slots, as long as every reservation can be found. It can when no    *)
(* two orders start probing at the same slot.                              *)
(***************************************************************************)
EXTENDS RiskLedger, SequenceTheorems, DataProofs

Names == {"open", "position", "credit"}
AddT == [counter : Names, dim : Dims, by : Int]
Pcs == {"idle", "expose", "grow", "credit", "store", "free", "note", "resize", "asked", "undo"}
FrameT == [pc : Pcs, ref : Refs \cup {Void}, volume : Int, at : Nat \ {0}, todo : Seq(AddT)]

Types ==
  /\ counter \in [Names -> [Dims -> Int]]
  /\ table \in [Slots -> Reservation \cup {Void}]
  /\ call \in [Callers -> FrameT]
  /\ used \subseteq Refs /\ uncut \subseteq Refs
  /\ noted \in [Refs -> Nat] /\ booked \in [Refs -> Nat]

Along(r) == ToSet(Path[r])
First(r, n) == {Path[r][i] : i \in 1 .. n}

\* The add to counter `name` of dimension d that is still pending in todo.
Matches(todo, name, d) == {i \in DOMAIN todo : todo[i].counter = name /\ todo[i].dim = d}
Due(todo, name, d) ==
  IF Matches(todo, name, d) = {} THEN 0 ELSE todo[CHOOSE i \in Matches(todo, name, d) : TRUE].by
Distinct(todo) ==
  \A i, j \in DOMAIN todo : todo[i].counter = todo[j].counter /\ todo[i].dim = todo[j].dim => i = j

\* No call adds to a counter twice; what is pending gives back.
TodoInv(f) ==
  /\ Distinct(f.todo)
  /\ \A i \in DOMAIN f.todo : /\ f.todo[i].dim \in Along(f.ref)
                              /\ f.todo[i].counter = "open" => f.todo[i].by <= 0
                              /\ f.todo[i].counter = "credit" => f.todo[i].by >= 0

FrameInv(f) ==
  /\ f.ref = Void \/ (f.pc = "idle" /\ f.todo = <<>>) => f = Idle
  /\ TodoInv(f)
  /\ f.pc \in {"expose", "grow", "credit", "store", "asked"} => f.todo = <<>>
  /\ f.pc \in {"expose", "grow", "credit"} => f.at \in 1 .. Len(Path[f.ref])
  /\ f.pc \in {"expose", "grow", "credit", "store"} => f.volume \in Nat \ {0}

CallsInv == /\ \A c \in Callers : FrameInv(call[c])
            /\ \A c, e \in Callers : call[c].ref = call[e].ref /\ call[c].ref # Void => c = e

\* The call about r, and its reservation.
Frm(r) == IF Quiet(r) THEN Idle ELSE call[CHOOSE c \in Callers : call[c].ref = r]
Held(r) == {p \in Slots : table[p] # Void /\ table[p].ref = r}
Res(r) == IF Held(r) = {} THEN [ref |-> r, requested |-> 0, filled |-> 0, credit |-> 0]
          ELSE table[CHOOSE p \in Held(r) : TRUE]

\* How far the ledger, the order book and the call about an order have got.
OrderFits(r, f, res) ==
  /\ r \notin used => noted[r] = 0 /\ Held(r) = {}
  /\ f.pc \in {"expose", "credit", "store"} => r \notin used
  /\ f.pc \in {"grow", "free", "note", "resize", "asked", "undo"} => Held(r) # {}
  /\ Held(r) # {} => res.filled = noted[r]
  /\ f.pc = "note" => f.volume \in Nat
  /\ f.pc = "resize" => res.requested + f.volume \in Nat
  /\ f.pc = "undo" => res.requested + f.volume = booked[r]
OrderInv(r) == OrderFits(r, Frm(r), Res(r))

\* While no decrease was refused, the two agree on the volume unless a replace is on its way.
AgreeFits(r, f, res) ==
  uncut = {} /\ Held(r) # {} =>
    /\ booked[r] > noted[r]
    /\ f.pc \in {"idle", "grow", "free", "note", "resize"} => res.requested = booked[r]
    /\ f.pc = "note" => f.volume < booked[r]
    /\ f.pc = "resize" => res.requested + f.volume > noted[r]
    /\ f.pc = "asked" => res.requested > noted[r]
AgreeInv(r) == AgreeFits(r, Frm(r), Res(r))

\* What an order accounts for in each counter of dimension d: its reservation, what the call
\* about it has added or is going to write into the reservation, less what is still pending.
Own(res) == res.requested - res.filled

OpenDone(f, res, r, d) ==
  CASE f.pc \in {"expose", "grow"} -> IF d \in First(r, f.at - 1) THEN f.volume ELSE 0
    [] f.pc \in {"credit", "store", "resize", "undo"} -> f.volume
    [] f.pc = "free" -> IF Own(res) > 0 THEN -Own(res) ELSE 0
    [] f.pc = "note" -> res.filled - f.volume
    [] f.pc \in {"idle", "asked"} -> 0
OpenShare(f, res, r, d) ==
  IF d \in Along(r) THEN Own(res) + OpenDone(f, res, r, d) - Due(f.todo, "open", d) ELSE 0

CreditDone(f, res, r, d) ==
  CASE f.pc = "credit" -> IF d \in First(r, f.at - 1) THEN f.volume ELSE 0
    [] f.pc = "store" -> f.volume
    [] f.pc = "free" -> -res.credit
    [] f.pc \in Pcs \ {"credit", "store", "free"} -> 0
CreditShare(f, res, r, d) ==
  IF d \in Along(r) THEN res.credit + CreditDone(f, res, r, d) + Due(f.todo, "credit", d) ELSE 0

PositionShare(f, res, r, n, d) ==
  IF d \in Along(r)
  THEN Sign[r] * (IF f.pc = "note" THEN f.volume ELSE n) - Due(f.todo, "position", d)
  ELSE 0

OpenOf(d) == [r \in Refs |-> OpenShare(Frm(r), Res(r), r, d)]
CreditOf(d) == [r \in Refs |-> CreditShare(Frm(r), Res(r), r, d)]
PositionOf(d) == [r \in Refs |-> PositionShare(Frm(r), Res(r), r, noted[r], d)]

\* Every counter is what the orders account for.
CounterInv == \A d \in Dims :
  /\ uncut = {} => counter["open"][d] = SumFunctionOnSet(OpenOf(d), Refs)
  /\ counter["credit"][d] = Budget[d] - SumFunctionOnSet(CreditOf(d), Refs)
  /\ counter["position"][d] = SumFunctionOnSet(PositionOf(d), Refs)

\* The part of it that was checked against the limit: not what a refused call will take back.
OpenKept(f, res, r, d) ==
  IF f.pc # "idle" THEN OpenShare(f, res, r, d) ELSE IF d \in Along(r) THEN Own(res) ELSE 0
CreditKept(f, res, r, d) ==
  IF f.pc # "idle" THEN CreditShare(f, res, r, d) ELSE IF d \in Along(r) THEN res.credit ELSE 0

OpenTaken(d) == [r \in Refs |-> OpenKept(Frm(r), Res(r), r, d)]
CreditTaken(d) == [r \in Refs |-> CreditKept(Frm(r), Res(r), r, d)]

LimitInv == \A d \in Dims :
  /\ uncut = {} => SumFunctionOnSet(OpenTaken(d), Refs) <= OpenLimit[d]
  /\ SumFunctionOnSet(CreditTaken(d), Refs) <= Budget[d]

LedgerInv == /\ Types /\ CallsInv /\ CounterInv /\ LimitInv
             /\ \A r \in Refs : OrderInv(r) /\ AgreeInv(r)
-----------------------------------------------------------------------------
(* The table. *)

LEMMA ProbeFacts ==
  ASSUME NEW r \in Refs
  PROVE  /\ TableCapacity \notin Slots
         /\ probe(r) # TableCapacity => probe(r) \in Slots /\ Stops(r, probe(r))
<1> DEFINE stops == {k \in Slots : Stops(r, Pos(r, k))}
<1>1. TableCapacity \in Nat /\ Home[r] \in Slots
  BY LedgerAssumption
<1>2. TableCapacity \notin Slots
  BY <1>1 DEF Slots
<1>3. probe(r) = IF stops = {} THEN TableCapacity ELSE Pos(r, Min(stops))
  BY DEF probe
<1>4. ASSUME stops # {} PROVE Min(stops) \in stops
  <2>1. stops \in SUBSET Nat
    BY <1>1 DEF Slots
  <2>2. \E m \in stops : \A n \in stops : m <= n
    BY <1>4, <2>1, LeastNat
  <2> HIDE DEF stops
  <2> QED BY <2>2 DEF Min
<1>5. ASSUME NEW k \in Slots PROVE Pos(r, k) \in Slots
  BY <1>1 DEF Pos, Slots
<1>6. ASSUME stops # {} PROVE Pos(r, Min(stops)) \in Slots /\ Stops(r, Pos(r, Min(stops)))
  <2>1. PICK k \in Slots : k = Min(stops) /\ Stops(r, Pos(r, k))
    BY <1>4, <1>6
  <2> QED BY <1>5, <2>1
<1> QED BY <1>2, <1>3, <1>6

LEMMA HeldFacts ==
  ASSUME Types, ReservationsFindable, NEW r \in Refs
  PROVE  /\ Held(r) = IF Reserved(r) THEN {probe(r)} ELSE {}
         /\ Reserved(r) => Of(r) = Res(r) /\ probe(r) \in Slots /\ Res(r) = table[probe(r)]
         /\ Res(r) \in Reservation
<1>1. ASSUME NEW p \in Held(r) PROVE p = probe(r) /\ Reserved(r)
  <2>1. p \in Slots /\ table[p] # Void /\ table[p].ref = r
    BY DEF Held
  <2>2. p = probe(r)
    BY <2>1 DEF ReservationsFindable
  <2> QED BY <2>1, <2>2, ProbeFacts DEF Reserved
<1>2. ASSUME Reserved(r) PROVE probe(r) \in Held(r) /\ probe(r) \in Slots
  BY <1>2, ProbeFacts DEF Reserved, Held, Stops
<1>3. Held(r) = IF Reserved(r) THEN {probe(r)} ELSE {}
  BY <1>1, <1>2
<1>4. ASSUME Reserved(r) PROVE Of(r) = Res(r) /\ Res(r) = table[probe(r)]
  <2>1. Held(r) = {probe(r)} /\ (CHOOSE p \in {probe(r)} : TRUE) = probe(r)
    BY <1>3, <1>4
  <2> QED BY <2>1 DEF Res, Of
<1>5. Res(r) \in Reservation
  <2>1. CASE Reserved(r)
    <3>1. table[probe(r)] \in Reservation \cup {Void} /\ table[probe(r)] # Void
      BY <1>2, <2>1 DEF Types, Reserved
    <3> QED BY <1>4, <2>1, <3>1
  <2>2. CASE ~Reserved(r)
    BY <1>3, <2>2 DEF Res, Reservation
  <2> QED BY <2>1, <2>2
<1> QED BY <1>2, <1>3, <1>4, <1>5

\* The effect of a store into r's slot on r and on the others.
LEMMA ResChanged ==
  ASSUME Types, ReservationsFindable, NEW r \in Refs, probe(r) \in Slots,
         NEW x \in Reservation \cup {Void}, x # Void => x.ref = r,
         table' = [table EXCEPT ![probe(r)] = x]
  PROVE  /\ table' \in [Slots -> Reservation \cup {Void}]
         /\ \A e \in Refs : e # r => Held(e)' = Held(e) /\ Res(e)' = Res(e)
         /\ x = Void => Held(r)' = {} /\ Res(r)' = [ref |-> r, requested |-> 0, filled |-> 0, credit |-> 0]
         /\ x # Void => Held(r)' # {} /\ Res(r)' = x
<1> DEFINE p == probe(r)
<1>1. PICK k \in Slots : k = p
  OBVIOUS
<1>2. table' \in [Slots -> Reservation \cup {Void}] /\ table'[k] = x
      /\ \A m \in Slots : m # k => table'[m] = table[m]
  BY <1>1 DEF Types
<1>3. Stops(r, k)
  BY <1>1, ProbeFacts
<1>4. ASSUME NEW e \in Refs, e # r PROVE Held(e)' = Held(e) /\ Res(e)' = Res(e)
  <2>1. Held(e)' = Held(e)
    BY <1>2, <1>3, <1>4 DEF Held, Stops
  <2>2. ASSUME NEW m \in Held(e) PROVE table'[m] = table[m]
    BY <1>2, <1>3, <1>4 DEF Held, Stops
  <2>3. CASE Held(e) = {}
    BY <2>1, <2>3 DEF Res
  <2>4. CASE Held(e) # {}
    <3>1. PICK m \in Held(e) : m = CHOOSE z \in Held(e) : TRUE
      BY <2>4
    <3>2. table'[m] = table[m]
      BY <2>2
    <3>3. Res(e) = table[m]
      BY <2>4, <3>1 DEF Res
    <3>4. Res(e)' = table'[m]
      BY <2>1, <2>4, <3>1 DEF Res
    <3> QED BY <2>1, <3>2, <3>3, <3>4
  <2> QED BY <2>1, <2>3, <2>4
<1>5. ASSUME NEW m \in Held(r) PROVE m = k
  BY <1>1, HeldFacts
<1>6. Held(r)' = IF x = Void THEN {} ELSE {k}
  <2>1. ASSUME NEW m \in Slots, m # k PROVE ~(table'[m] # Void /\ table'[m].ref = r)
    BY <1>2, <1>5, <2>1 DEF Held
  <2> QED BY <1>2, <2>1 DEF Held
<1>7. ASSUME x # Void PROVE Res(r)' = x
  <2>1. Held(r)' = {k} /\ (CHOOSE z \in {k} : TRUE) = k
    BY <1>6, <1>7
  <2> QED BY <1>2, <2>1 DEF Res
<1>8. ASSUME x = Void PROVE Res(r)' = [ref |-> r, requested |-> 0, filled |-> 0, credit |-> 0]
  BY <1>6, <1>8 DEF Res
<1> QED BY <1>2, <1>4, <1>6, <1>7, <1>8

LEMMA ResKept ==
  ASSUME table' = table, NEW r
  PROVE  Held(r)' = Held(r) /\ Res(r)' = Res(r)
BY DEF Held, Res
-----------------------------------------------------------------------------
(* The calls in progress. *)

LEMMA FrameOf ==
  ASSUME CallsInv, NEW c \in Callers, NEW r \in Refs, call[c].ref = r
  PROVE  Frm(r) = call[c] /\ ~Quiet(r)
<1>1. ~Quiet(r) /\ r # Void
  BY LedgerAssumption DEF Quiet
<1>2. (CHOOSE e \in Callers : call[e].ref = r) = c
  BY <1>1 DEF CallsInv
<1> QED BY <1>1, <1>2 DEF Frm

LEMMA FrameQuiet ==
  ASSUME NEW r, Quiet(r)
  PROVE  Frm(r) = Idle
BY DEF Frm

\* Caller c, who had the call about r or begins one, goes on with f.
LEMMA FrameChanged ==
  ASSUME call \in [Callers -> FrameT], CallsInv, NEW c \in Callers, NEW r \in Refs,
         call[c].ref = r \/ (call[c] = Idle /\ Quiet(r)),
         NEW f \in FrameT, f = Idle \/ f.ref = r, FrameInv(f), Continue(c, f)
  PROVE  /\ call' \in [Callers -> FrameT] /\ CallsInv' /\ Frm(r)' = f
         /\ \A e \in Refs : e # r => Frm(e)' = Frm(e)
<1>1. Void \notin Refs /\ Idle.ref = Void
  BY LedgerAssumption DEF Idle, Frame
<1>2. call' \in [Callers -> FrameT] /\ call'[c] = f /\ \A b \in Callers : b # c => call'[b] = call[b]
  BY DEF Continue
<1>3. \A b \in Callers : b # c => call[b].ref # r
  BY <1>1 DEF CallsInv, Quiet
<1>4. CallsInv'
  <2>1. \A b \in Callers : FrameInv(call'[b])
    BY <1>2 DEF CallsInv
  <2>2. \A b, e \in Callers : call'[b].ref = call'[e].ref /\ call'[b].ref # Void => b = e
    BY <1>1, <1>2, <1>3 DEF CallsInv
  <2> QED BY <2>1, <2>2 DEF CallsInv, FrameInv, TodoInv
<1>5. Frm(r)' = f
  <2>1. CASE f.ref = r
    <3>1. \A b \in Callers : call'[b].ref = r <=> b = c
      BY <1>2, <1>3, <2>1
    <3>2. (CHOOSE b \in Callers : call'[b].ref = r) = c /\ ~(\A b \in Callers : call'[b].ref # r)
      BY <3>1
    <3> QED BY <1>2, <3>2 DEF Frm, Quiet
  <2>2. CASE f = Idle
    BY <1>1, <1>2, <1>3, <2>2 DEF Frm, Quiet
  <2> QED BY <2>1, <2>2
<1>6. ASSUME NEW e \in Refs, e # r PROVE Frm(e)' = Frm(e)
  <2>1. \A b \in Callers : call'[b].ref = e <=> call[b].ref = e
    BY <1>1, <1>2, <1>6
  <2>2. \A b \in Callers : call[b].ref = e => call'[b] = call[b]
    BY <1>1, <1>2, <1>6
  <2>3. Quiet(e)' <=> Quiet(e)
    BY <2>1 DEF Quiet
  <2>4. CASE Quiet(e)
    BY <2>3, <2>4 DEF Frm
  <2>5. CASE ~Quiet(e)
    <3>1. PICK b \in Callers : call[b].ref = e
      BY <2>5 DEF Quiet
    <3>2. \A z \in Callers : call[z].ref = e <=> z = b
      BY <1>1, <3>1 DEF CallsInv
    <3>3. (CHOOSE z \in Callers : call[z].ref = e) = b
      BY <3>2
    <3>4. (CHOOSE z \in Callers : call'[z].ref = e) = b
      BY <2>1, <3>2
    <3>5. call'[b] = call[b]
      BY <2>2, <3>1
    <3> QED BY <2>3, <2>5, <3>3, <3>4, <3>5 DEF Frm
  <2> QED BY <2>4, <2>5
<1> QED BY <1>2, <1>4, <1>5, <1>6
-----------------------------------------------------------------------------
(* The pending adds of a call. *)

LEMMA DueAt ==
  ASSUME NEW t, Distinct(t), NEW i \in DOMAIN t
  PROVE  Due(t, t[i].counter, t[i].dim) = t[i].by
<1> DEFINE M == Matches(t, t[i].counter, t[i].dim)
<1>1. M = {i}
  BY DEF Matches, Distinct
<1>2. (CHOOSE j \in {i} : TRUE) = i
  OBVIOUS
<1> QED BY <1>1, <1>2 DEF Due

LEMMA DueNone ==
  ASSUME NEW t, NEW name, NEW d, \A i \in DOMAIN t : ~(t[i].counter = name /\ t[i].dim = d)
  PROVE  Due(t, name, d) = 0
<1>1. Matches(t, name, d) = {}
  BY DEF Matches
<1> QED BY <1>1 DEF Due

LEMMA DueEmpty ==
  ASSUME NEW name, NEW d
  PROVE  Due(<<>>, name, d) = 0 /\ Distinct(<<>>)
<1>1. DOMAIN <<>> = {}
  OBVIOUS
<1>2. Distinct(<<>>)
  BY <1>1 DEF Distinct
<1> QED BY <1>1, <1>2, DueNone

\* Either nothing is due or the entry that is due is there.
LEMMA DueCases ==
  ASSUME NEW t \in Seq(AddT), Distinct(t), NEW name, NEW d
  PROVE  /\ Due(t, name, d) \in Int
         /\ \/ Due(t, name, d) = 0 /\ \A i \in DOMAIN t : ~(t[i].counter = name /\ t[i].dim = d)
            \/ \E i \in DOMAIN t : t[i].counter = name /\ t[i].dim = d /\ Due(t, name, d) = t[i].by
<1>1. CASE \A i \in DOMAIN t : ~(t[i].counter = name /\ t[i].dim = d)
  <2>1. Due(t, name, d) = 0
    BY <1>1, DueNone
  <2> QED BY <1>1, <2>1
<1>2. CASE \E i \in DOMAIN t : t[i].counter = name /\ t[i].dim = d
  <2>1. PICK i \in DOMAIN t : t[i].counter = name /\ t[i].dim = d
    BY <1>2
  <2>2. Due(t, name, d) = t[i].by
    BY <2>1, DueAt
  <2>3. t[i] \in AddT
    BY ElementOfSeq, <2>1
  <2> QED BY <2>1, <2>2, <2>3 DEF AddT
<1> QED BY <1>1, <1>2

LEMMA DueTail ==
  ASSUME NEW t \in Seq(AddT), t # <<>>, Distinct(t), NEW a, a = Head(t)
  PROVE  /\ a \in AddT /\ Tail(t) \in Seq(AddT) /\ Distinct(Tail(t))
         /\ a = t[1] /\ 1 \in DOMAIN t
         /\ \A i \in DOMAIN Tail(t) : i + 1 \in DOMAIN t /\ Tail(t)[i] = t[i + 1]
         /\ Due(t, a.counter, a.dim) = a.by
         /\ \A name, d : Due(Tail(t), name, d) = IF name = a.counter /\ d = a.dim THEN 0 ELSE Due(t, name, d)
<1> DEFINE u == Tail(t)
<1>1. /\ u \in Seq(AddT) /\ Len(t) \in Nat /\ Len(t) > 0 /\ DOMAIN t = 1 .. Len(t)
      /\ DOMAIN u = 1 .. Len(t) - 1 /\ \A i \in 1 .. Len(t) - 1 : u[i] = t[i + 1]
      /\ a = t[1] /\ a \in AddT
  BY HeadTailProperties, ElementOfSeq
<1>2. \A i \in DOMAIN u : i + 1 \in DOMAIN t /\ u[i] = t[i + 1] /\ i + 1 # 1
  BY <1>1
<1>3. 1 \in DOMAIN t
  BY <1>1
<1> HIDE DEF u
<1>4. Distinct(u)
  <2> SUFFICES ASSUME NEW i \in DOMAIN u, NEW j \in DOMAIN u,
                      u[i].counter = u[j].counter, u[i].dim = u[j].dim
               PROVE  i = j
    BY DEF Distinct
  <2>1. i + 1 = j + 1
    BY <1>2 DEF Distinct
  <2> QED BY <1>1, <2>1
<1>5. Due(t, a.counter, a.dim) = a.by
  BY <1>1, <1>3, DueAt
<1>6. ASSUME NEW name, NEW d PROVE Due(u, name, d) = IF name = a.counter /\ d = a.dim THEN 0 ELSE Due(t, name, d)
  <2>1. CASE name = a.counter /\ d = a.dim
    <3>1. \A i \in DOMAIN u : ~(u[i].counter = name /\ u[i].dim = d)
      BY <1>1, <1>2, <1>3, <2>1 DEF Distinct
    <3> QED BY <2>1, <3>1, DueNone
  <2>2. CASE ~(name = a.counter /\ d = a.dim) /\ \E i \in DOMAIN u : u[i].counter = name /\ u[i].dim = d
    <3>1. PICK i \in DOMAIN u : u[i].counter = name /\ u[i].dim = d
      BY <2>2
    <3>2. Due(u, name, d) = u[i].by
      BY <1>4, <3>1, DueAt
    <3>3. PICK j \in DOMAIN t : j = i + 1 /\ t[j] = u[i]
      BY <1>2
    <3>4. Due(t, name, d) = t[j].by
      BY <3>1, <3>3, DueAt
    <3> QED BY <2>2, <3>2, <3>3, <3>4
  <2>3. CASE ~(name = a.counter /\ d = a.dim) /\ \A i \in DOMAIN u : ~(u[i].counter = name /\ u[i].dim = d)
    <3>1. ASSUME NEW j \in DOMAIN t PROVE ~(t[j].counter = name /\ t[j].dim = d)
      <4>1. CASE j = 1
        BY <1>1, <2>3, <4>1
      <4>2. CASE j # 1
        <5>1. j - 1 \in DOMAIN u /\ u[j - 1] = t[j]
          BY <1>1, <4>2
        <5> QED BY <2>3, <5>1
      <4> QED BY <4>1, <4>2
    <3>2. Due(t, name, d) = 0 /\ Due(u, name, d) = 0
      BY <2>3, <3>1, DueNone
    <3> QED BY <2>3, <3>2
  <2> QED BY <2>1, <2>2, <2>3
<1> QED BY <1>1, <1>2, <1>3, <1>4, <1>5, <1>6 DEF u

\* What one list, or two about different counters or dimensions, have pending.
Apart(t, u) == \A i \in DOMAIN t, j \in DOMAIN u : ~(t[i].counter = u[j].counter /\ t[i].dim = u[j].dim)

Joined(w, t, u) == w = t \o u

LEMMA DueBoth ==
  ASSUME NEW t \in Seq(AddT), NEW u \in Seq(AddT), Distinct(t), Distinct(u), Apart(t, u),
         NEW w, Joined(w, t, u)
  PROVE  /\ w \in Seq(AddT) /\ Distinct(w) /\ Len(w) = Len(t) + Len(u)
         /\ \A i \in DOMAIN w : (\E j \in DOMAIN t : w[i] = t[j]) \/ (\E j \in DOMAIN u : w[i] = u[j])
         /\ \A name, d : Due(w, name, d) = Due(t, name, d) + Due(u, name, d)
<1>1. /\ Len(t) \in Nat /\ Len(u) \in Nat /\ DOMAIN t = 1 .. Len(t) /\ DOMAIN u = 1 .. Len(u)
      /\ w \in Seq(AddT) /\ DOMAIN w = 1 .. Len(t) + Len(u) /\ Len(w) = Len(t) + Len(u)
      /\ \A i \in DOMAIN w : w[i] = IF i <= Len(t) THEN t[i] ELSE u[i - Len(t)]
  BY ConcatProperties DEF Joined
<1>2. ASSUME NEW i \in DOMAIN w
      PROVE  \/ i \in DOMAIN t /\ w[i] = t[i]
             \/ i - Len(t) \in DOMAIN u /\ w[i] = u[i - Len(t)]
  BY <1>1
<1>3. Distinct(w)
  <2> SUFFICES ASSUME NEW i \in DOMAIN w, NEW j \in DOMAIN w,
                      w[i].counter = w[j].counter, w[i].dim = w[j].dim
               PROVE  i = j
    BY DEF Distinct
  <2>1. \/ i \in DOMAIN t /\ w[i] = t[i]
        \/ i - Len(t) \in DOMAIN u /\ w[i] = u[i - Len(t)]
    BY <1>2
  <2>2. \/ j \in DOMAIN t /\ w[j] = t[j]
        \/ j - Len(t) \in DOMAIN u /\ w[j] = u[j - Len(t)]
    BY <1>2
  <2>3. i = j \/ i - Len(t) = j - Len(t)
    BY <2>1, <2>2 DEF Distinct, Apart
  <2> QED BY <1>1, <2>3
<1>4. ASSUME NEW i \in DOMAIN t PROVE i \in DOMAIN w /\ w[i] = t[i]
  BY <1>1
<1>5. ASSUME NEW i \in DOMAIN u PROVE i + Len(t) \in DOMAIN w /\ w[i + Len(t)] = u[i]
  BY <1>1
<1>6. ASSUME NEW name, NEW d PROVE Due(w, name, d) = Due(t, name, d) + Due(u, name, d)
  <2>0. Due(t, name, d) \in Int /\ Due(u, name, d) \in Int
    BY DueCases
  <2>1. ASSUME NEW i \in DOMAIN t, t[i].counter = name, t[i].dim = d PROVE Due(w, name, d) = Due(t, name, d) + Due(u, name, d)
    <3>1. Due(t, name, d) = t[i].by
      BY <2>1, DueAt
    <3>2. \A j \in DOMAIN u : ~(u[j].counter = name /\ u[j].dim = d)
      BY <2>1 DEF Apart
    <3>3. Due(u, name, d) = 0
      BY <3>2, DueNone
    <3>4. PICK k \in DOMAIN w : w[k] = t[i]
      BY <1>4
    <3>5. Due(w, name, d) = t[i].by
      BY <1>3, <2>1, <3>4, DueAt
    <3> QED BY <2>0, <3>1, <3>3, <3>5
  <2>2. ASSUME NEW i \in DOMAIN u, u[i].counter = name, u[i].dim = d PROVE Due(w, name, d) = Due(t, name, d) + Due(u, name, d)
    <3>1. Due(u, name, d) = u[i].by
      BY <2>2, DueAt
    <3>2. \A j \in DOMAIN t : ~(t[j].counter = name /\ t[j].dim = d)
      BY <2>2 DEF Apart
    <3>3. Due(t, name, d) = 0
      BY <3>2, DueNone
    <3>4. PICK k \in DOMAIN w : w[k] = u[i]
      BY <1>5
    <3>5. Due(w, name, d) = u[i].by
      BY <1>3, <2>2, <3>4, DueAt
    <3> QED BY <2>0, <3>1, <3>3, <3>5
  <2>3. ASSUME \A i \in DOMAIN t : ~(t[i].counter = name /\ t[i].dim = d),
               \A i \in DOMAIN u : ~(u[i].counter = name /\ u[i].dim = d)
        PROVE  Due(w, name, d) = Due(t, name, d) + Due(u, name, d)
    <3>1. Due(t, name, d) = 0 /\ Due(u, name, d) = 0
      BY <2>3, DueNone
    <3>2. \A i \in DOMAIN w : ~(w[i].counter = name /\ w[i].dim = d)
      BY <1>2, <2>3
    <3>3. Due(w, name, d) = 0
      BY <3>2, DueNone
    <3> QED BY <3>1, <3>3
  <2> QED BY <2>1, <2>2, <2>3
<1>7. \A i \in DOMAIN w : (\E j \in DOMAIN t : w[i] = t[j]) \/ (\E j \in DOMAIN u : w[i] = u[j])
  BY <1>2
<1> QED BY <1>1, <1>3, <1>6, <1>7

LEMMA PathFacts ==
  ASSUME NEW r \in Refs
  PROVE  /\ Path[r] \in Seq(Dims) /\ Len(Path[r]) \in Nat \ {0} /\ DOMAIN Path[r] = 1 .. Len(Path[r])
         /\ Along(r) \subseteq Dims /\ First(r, Len(Path[r])) = Along(r) /\ First(r, 0) = {}
         /\ \A n \in 1 .. Len(Path[r]) :
              /\ Path[r][n] \in Along(r) /\ First(r, n) \subseteq Along(r)
              /\ First(r, n) = First(r, n - 1) \cup {Path[r][n]}
              /\ Path[r][n] \notin First(r, n - 1)
         /\ \A i, j \in 1 .. Len(Path[r]) : Path[r][i] = Path[r][j] => i = j
<1>1. Path[r] \in Seq(Dims) /\ Path[r] # <<>> /\ IsInjective(Path[r])
  BY LedgerAssumption
<1>2. Len(Path[r]) \in Nat \ {0} /\ DOMAIN Path[r] = 1 .. Len(Path[r])
      /\ \A i \in 1 .. Len(Path[r]) : Path[r][i] \in Dims
  BY <1>1
<1>3. \A i, j \in 1 .. Len(Path[r]) : Path[r][i] = Path[r][j] => i = j
  BY <1>1, <1>2 DEF IsInjective
<1>4. Along(r) \subseteq Dims /\ First(r, Len(Path[r])) = Along(r) /\ First(r, 0) = {}
  BY <1>2 DEF Along, ToSet, First
<1>5. ASSUME NEW n \in 1 .. Len(Path[r])
      PROVE  /\ Path[r][n] \in Along(r) /\ First(r, n) \subseteq Along(r)
             /\ First(r, n) = First(r, n - 1) \cup {Path[r][n]}
             /\ Path[r][n] \notin First(r, n - 1)
  <2>1. 1 .. n = (1 .. n - 1) \cup {n}
    BY <1>2
  <2>2. First(r, n) = First(r, n - 1) \cup {Path[r][n]}
    BY <2>1 DEF First
  <2>3. Path[r][n] \notin First(r, n - 1)
    BY <1>2, <1>3 DEF First
  <2> QED BY <1>2, <2>2, <2>3 DEF Along, ToSet, First
<1> QED BY <1>1, <1>2, <1>3, <1>4, <1>5

\* A list of adds of `by` to one counter of the dimensions D of r's path.
Same(t, r, name, D, by) ==
  /\ t \in Seq(AddT) /\ Distinct(t)
  /\ \A i \in DOMAIN t : t[i].counter = name /\ t[i].dim \in D
  /\ \A d : Due(t, name, d) = IF d \in D THEN by ELSE 0

LEMMA SameAdds ==
  ASSUME NEW name \in Names, NEW r \in Refs, NEW by \in Int, NEW n \in 0 .. Len(Path[r])
  PROVE  /\ Same(Adds(name, r, by, n), r, name, First(r, n), by)
         /\ n > 0 => Adds(name, r, by, n) # <<>>
<1> DEFINE t == Adds(name, r, by, n)
<1>1. n \in Nat /\ \A i \in 1 .. n : Path[r][i] \in Dims
  BY PathFacts
<1>2. \A i \in 1 .. n : Add(name, Path[r][i], by) \in AddT
  BY <1>1 DEF Add, AddT
<1>3. t = [i \in 1 .. n |-> Add(name, Path[r][i], by)] /\ t \in Seq(AddT) /\ DOMAIN t = 1 .. n
  BY <1>1, <1>2 DEF Adds
<1>4. \A i \in 1 .. n : t[i].counter = name /\ t[i].dim = Path[r][i] /\ t[i].by = by
  BY <1>3 DEF Add
<1> HIDE DEF t
<1>5. Distinct(t)
  <2>1. \A i \in 1 .. n : i \in 1 .. Len(Path[r])
    BY PathFacts
  <2>2. \A i, j \in 1 .. n : Path[r][i] = Path[r][j] => i = j
    BY <2>1, PathFacts
  <2> QED BY <1>3, <1>4, <2>2 DEF Distinct
<1>6. \A i \in DOMAIN t : t[i].counter = name /\ t[i].dim \in First(r, n)
  BY <1>3, <1>4 DEF First
<1>7. ASSUME NEW d PROVE Due(t, name, d) = IF d \in First(r, n) THEN by ELSE 0
  <2>1. CASE d \in First(r, n)
    <3>1. PICK i \in 1 .. n : d = Path[r][i]
      BY <2>1 DEF First
    <3>2. i \in DOMAIN t /\ t[i].counter = name /\ t[i].dim = d /\ t[i].by = by
      BY <1>3, <1>4, <3>1
    <3>3. Due(t, t[i].counter, t[i].dim) = t[i].by
      BY <1>5, <3>2, DueAt
    <3> QED BY <2>1, <3>2, <3>3
  <2>2. CASE d \notin First(r, n)
    <3>1. \A i \in DOMAIN t : ~(t[i].counter = name /\ t[i].dim = d)
      BY <1>6, <2>2
    <3>2. Due(t, name, d) = 0
      BY <3>1, DueNone
    <3> QED BY <2>2, <3>2
  <2> QED BY <2>1, <2>2
<1>8. Same(t, r, name, First(r, n), by)
  BY <1>3, <1>5, <1>6, <1>7 DEF Same
<1>9. n > 0 => t # <<>>
  BY <1>1, <1>3
<1> QED BY <1>8, <1>9 DEF t

LEMMA SameEverywhere ==
  ASSUME NEW name \in Names, NEW r \in Refs, NEW by \in Int
  PROVE  Same(Everywhere(name, r, by), r, name, Along(r), by) /\ Everywhere(name, r, by) # <<>>
<1>1. PICK n \in 0 .. Len(Path[r]) : n = Len(Path[r]) /\ n > 0
  BY PathFacts
<1> QED BY <1>1, SameAdds, PathFacts DEF Everywhere

LEMMA SameRetract ==
  ASSUME NEW name \in Names, NEW r \in Refs, NEW by \in Int, NEW n \in 1 .. Len(Path[r])
  PROVE  Same(Retract(name, r, by, n), r, name, First(r, n), by) /\ Retract(name, r, by, n) # <<>>
<1> DEFINE a == Add(name, Path[r][n], by)
           t == <<a>>
<1>1. PICK m \in 0 .. Len(Path[r]) : m = n - 1
  BY PathFacts
<1>2. PICK u : u = Adds(name, r, by, n - 1)
  OBVIOUS
<1>3. Same(u, r, name, First(r, n - 1), by)
  BY <1>1, <1>2, SameAdds
<1>4. /\ Path[r][n] \in Dims /\ First(r, n) = First(r, n - 1) \cup {Path[r][n]}
      /\ Path[r][n] \notin First(r, n - 1)
  BY PathFacts
<1>5. a \in AddT /\ a.counter = name /\ a.dim = Path[r][n] /\ a.by = by
  BY <1>4 DEF Add, AddT
<1> HIDE DEF a
<1>6. t \in Seq(AddT) /\ DOMAIN t = {1} /\ t[1] = a /\ Len(t) = 1
  BY <1>5
<1>7. Retract(name, r, by, n) = t \o u
  BY <1>2 DEF Retract, a
<1> HIDE DEF t
<1>8. Distinct(t)
  BY <1>6 DEF Distinct
<1>9. u \in Seq(AddT) /\ Distinct(u) /\ \A i \in DOMAIN u : u[i].counter = name /\ u[i].dim \in First(r, n - 1)
  BY <1>3 DEF Same
<1>10. Apart(t, u)
  BY <1>4, <1>5, <1>6, <1>9 DEF Apart
<1>11. PICK w : Joined(w, t, u)
  BY DEF Joined
<1>12. /\ w \in Seq(AddT) /\ Distinct(w) /\ Len(w) = Len(t) + Len(u)
       /\ \A i \in DOMAIN w : (\E j \in DOMAIN t : w[i] = t[j]) \/ (\E j \in DOMAIN u : w[i] = u[j])
       /\ \A x, d : Due(w, x, d) = Due(t, x, d) + Due(u, x, d)
  <2>1. t \in Seq(AddT) /\ u \in Seq(AddT)
    BY <1>6, <1>9
  <2>2. Distinct(t) /\ Distinct(u) /\ Apart(t, u) /\ Joined(w, t, u)
    BY <1>8, <1>9, <1>10, <1>11
  <2> HIDE DEF t
  <2> QED BY <2>1, <2>2, DueBoth
<1>13. \A i \in DOMAIN w : w[i].counter = name /\ w[i].dim \in First(r, n)
  BY <1>4, <1>5, <1>6, <1>9, <1>11, <1>12
<1>14. ASSUME NEW d PROVE Due(t, name, d) = IF d = Path[r][n] THEN by ELSE 0
  <2>1. CASE d = Path[r][n]
    <3>1. Due(t, t[1].counter, t[1].dim) = t[1].by
      BY <1>6, <1>8, DueAt
    <3> QED BY <1>5, <1>6, <2>1, <3>1
  <2>2. CASE d # Path[r][n]
    <3>1. \A i \in DOMAIN t : ~(t[i].counter = name /\ t[i].dim = d)
      BY <1>5, <1>6, <2>2
    <3>2. Due(t, name, d) = 0
      BY <3>1, DueNone
    <3> QED BY <2>2, <3>2
  <2> QED BY <2>1, <2>2
<1>15. ASSUME NEW d PROVE Due(w, name, d) = IF d \in First(r, n) THEN by ELSE 0
  <2>1. Due(u, name, d) = IF d \in First(r, n - 1) THEN by ELSE 0
    BY <1>3 DEF Same
  <2>2. Due(w, name, d) = Due(t, name, d) + Due(u, name, d)
    BY <1>11, <1>12
  <2> QED BY <1>4, <1>14, <2>1, <2>2
<1>16. Same(w, r, name, First(r, n), by)
  BY <1>11, <1>12, <1>13, <1>15 DEF Same
<1>17. w # <<>>
  <2>1. Len(w) = 1 + Len(u) /\ Len(u) \in Nat
    BY <1>6, <1>9, <1>12
  <2> QED BY <2>1
<1> QED BY <1>7, <1>11, <1>16, <1>17 DEF Joined

\* Everything that is pending in a call about r: o, k and m are what is owed to the counters
\* of the dimensions D, K and P.
Owes(t, r, D, o, K, k, P, m) ==
  /\ t \in Seq(AddT) /\ Distinct(t) /\ \A i \in DOMAIN t : t[i].dim \in Along(r)
  /\ \A d : /\ Due(t, "open", d) = IF d \in D THEN o ELSE 0
            /\ Due(t, "credit", d) = IF d \in K THEN k ELSE 0
            /\ Due(t, "position", d) = IF d \in P THEN m ELSE 0

LEMMA OwesNothing ==
  ASSUME NEW r
  PROVE  Owes(<<>>, r, {}, 0, {}, 0, {}, 0)
<1>1. <<>> \in Seq(AddT) /\ DOMAIN <<>> = {} /\ Distinct(<<>>)
  BY DueEmpty
<1>2. PICK t : t = <<>>
  OBVIOUS
<1>3. \A name, d : Due(t, name, d) = 0
  BY <1>2, DueEmpty
<1>4. t \in Seq(AddT) /\ DOMAIN t = {} /\ Distinct(t)
  BY <1>1, <1>2
<1>5. Owes(t, r, {}, 0, {}, 0, {}, 0)
  BY <1>3, <1>4 DEF Owes
<1> QED BY <1>2, <1>5

LEMMA OwesOpen ==
  ASSUME NEW r, NEW D, D \subseteq Along(r), NEW by, NEW t, Same(t, r, "open", D, by)
  PROVE  Owes(t, r, D, by, {}, 0, {}, 0)
<1>1. \A i \in DOMAIN t : t[i].counter = "open" /\ t[i].dim \in D
  BY DEF Same
<1>2. ASSUME NEW d PROVE Due(t, "credit", d) = 0 /\ Due(t, "position", d) = 0
  <2>1. \A i \in DOMAIN t : ~(t[i].counter = "credit" /\ t[i].dim = d) /\ ~(t[i].counter = "position" /\ t[i].dim = d)
    BY <1>1
  <2> QED BY <2>1, DueNone
<1> QED BY <1>1, <1>2 DEF Owes, Same

LEMMA OwesCredit ==
  ASSUME NEW r, NEW D, D \subseteq Along(r), NEW by, NEW t, Same(t, r, "credit", D, by)
  PROVE  Owes(t, r, {}, 0, D, by, {}, 0)
<1>1. \A i \in DOMAIN t : t[i].counter = "credit" /\ t[i].dim \in D
  BY DEF Same
<1>2. ASSUME NEW d PROVE Due(t, "open", d) = 0 /\ Due(t, "position", d) = 0
  <2>1. \A i \in DOMAIN t : ~(t[i].counter = "open" /\ t[i].dim = d) /\ ~(t[i].counter = "position" /\ t[i].dim = d)
    BY <1>1
  <2> QED BY <2>1, DueNone
<1> QED BY <1>1, <1>2 DEF Owes, Same

OneOfEach(x, y, t, u) == (x = t \/ x = u) /\ (x = t => y = u) /\ (x = u => y = t)

LEMMA OwesBoth ==
  ASSUME NEW r, NEW D, NEW E, D \subseteq Along(r), E \subseteq Along(r), NEW o \in Int, NEW k \in Int, NEW t, NEW u,
         Same(t, r, "open", D, o), Same(u, r, "credit", E, k),
         NEW x, NEW y, OneOfEach(x, y, t, u), NEW w, Joined(w, x, y)
  PROVE  Owes(w, r, D, o, E, k, {}, 0) /\ (t # <<>> \/ u # <<>> => w # <<>>)
<1>1. Owes(t, r, D, o, {}, 0, {}, 0) /\ Owes(u, r, {}, 0, E, k, {}, 0)
  BY OwesOpen, OwesCredit
<1>2. /\ t \in Seq(AddT) /\ Distinct(t) /\ \A i \in DOMAIN t : t[i].counter = "open" /\ t[i].dim \in D
      /\ u \in Seq(AddT) /\ Distinct(u) /\ \A i \in DOMAIN u : u[i].counter = "credit" /\ u[i].dim \in E
  BY DEF Same
<1>3. Apart(t, u) /\ Apart(u, t)
  BY <1>2 DEF Apart
<1>4. x \in Seq(AddT) /\ Distinct(x) /\ y \in Seq(AddT) /\ Distinct(y) /\ Apart(x, y)
  BY <1>2, <1>3 DEF OneOfEach
<1>5. /\ w \in Seq(AddT) /\ Distinct(w) /\ Len(w) = Len(x) + Len(y)
      /\ \A i \in DOMAIN w : (\E j \in DOMAIN x : w[i] = x[j]) \/ (\E j \in DOMAIN y : w[i] = y[j])
      /\ \A name, d : Due(w, name, d) = Due(x, name, d) + Due(y, name, d)
  BY <1>4, DueBoth
<1>6. \A i \in DOMAIN w : w[i].dim \in Along(r)
  BY <1>2, <1>5 DEF OneOfEach
<1>7. ASSUME NEW d PROVE /\ Due(w, "open", d) = IF d \in D THEN o ELSE 0
                         /\ Due(w, "credit", d) = IF d \in E THEN k ELSE 0
                         /\ Due(w, "position", d) = 0
  <2>1. /\ Due(t, "open", d) = (IF d \in D THEN o ELSE 0) /\ Due(t, "credit", d) = 0 /\ Due(t, "position", d) = 0
        /\ Due(u, "open", d) = 0 /\ Due(u, "credit", d) = (IF d \in E THEN k ELSE 0) /\ Due(u, "position", d) = 0
    BY <1>1 DEF Owes
  <2>2. /\ Due(w, "open", d) = Due(x, "open", d) + Due(y, "open", d)
        /\ Due(w, "credit", d) = Due(x, "credit", d) + Due(y, "credit", d)
        /\ Due(w, "position", d) = Due(x, "position", d) + Due(y, "position", d)
    BY <1>5
  <2> QED BY <2>1, <2>2 DEF OneOfEach
<1>8. t # <<>> \/ u # <<>> => w # <<>>
  BY <1>2, <1>5 DEF OneOfEach
<1> QED BY <1>5, <1>6, <1>7, <1>8 DEF Owes

LEMMA OwesReleases ==
  ASSUME NEW r \in Refs, NEW res \in Reservation, res.ref = r
  PROVE  /\ Owes(Releases(res), r, Along(r), IF Own(res) > 0 THEN -Own(res) ELSE 0, Along(r), res.credit, {}, 0)
         /\ Releases(res) # <<>>
<1>1. PICK o \in Int : o = -Own(res)
  BY DEF Own, Reservation
<1>2. PICK k \in Int : k = res.credit
  BY DEF Reservation
<1>3. PICK D : D = IF Own(res) > 0 THEN Along(r) ELSE {}
  OBVIOUS
<1>4. PICK t : t = IF Own(res) > 0 THEN Everywhere("open", r, o) ELSE <<>>
  OBVIOUS
<1>5. PICK u : u = Everywhere("credit", r, k)
  OBVIOUS
<1>6. Releases(res) = t \o u
  BY <1>1, <1>2, <1>4, <1>5 DEF Releases, Own
<1>7. Same(u, r, "credit", Along(r), k) /\ u # <<>>
  BY <1>5, SameEverywhere DEF Names
<1>8. Same(t, r, "open", D, o)
  <2>1. CASE Own(res) > 0
    BY <1>3, <1>4, <2>1, SameEverywhere DEF Names
  <2>2. CASE ~(Own(res) > 0)
    <3>1. t = <<>> /\ D = {}
      BY <1>3, <1>4, <2>2
    <3>2. t \in Seq(AddT) /\ DOMAIN t = {} /\ Distinct(t)
      BY <3>1, DueEmpty
    <3>3. \A d : Due(t, "open", d) = 0
      BY <3>1, DueEmpty
    <3> QED BY <3>1, <3>2, <3>3 DEF Same
  <2> QED BY <2>1, <2>2
<1>9. PICK w : Joined(w, t, u)
  BY DEF Joined
<1>10. D \subseteq Along(r)
  BY <1>3
<1>11. Owes(w, r, D, o, Along(r), k, {}, 0) /\ w # <<>>
  <2>1. OneOfEach(t, u, t, u)
    BY DEF OneOfEach
  <2>2. PICK A : A = Along(r)
    OBVIOUS
  <2>3. A \subseteq Along(r) /\ D \subseteq Along(r) /\ Same(u, r, "credit", A, k)
    BY <1>7, <1>10, <2>2
  <2>4. Owes(w, r, D, o, A, k, {}, 0) /\ (t # <<>> \/ u # <<>> => w # <<>>)
    BY <1>8, <1>9, <2>1, <2>3, OwesBoth
  <2> QED BY <1>7, <2>2, <2>4
<1>12. w = Releases(res)
  BY <1>6, <1>9 DEF Joined
<1>13. PICK z : z = IF Own(res) > 0 THEN -Own(res) ELSE 0
  OBVIOUS
<1>14. Owes(w, r, Along(r), z, Along(r), k, {}, 0)
  BY <1>1, <1>3, <1>11, <1>13 DEF Owes
<1> QED BY <1>2, <1>11, <1>12, <1>13, <1>14

\* The adds of reconcile.
Moves(r, delta) ==
  [i \in 1 .. 2 * Len(Path[r]) |->
     LET d == Path[r][(i + 1) \div 2]
     IN IF i % 2 = 1 THEN Add("open", d, -delta) ELSE Add("position", d, Sign[r] * delta)]

LEMMA OwesMoves ==
  ASSUME NEW r \in Refs, NEW delta \in Int
  PROVE  /\ Owes(Moves(r, delta), r, Along(r), -delta, {}, 0, Along(r), Sign[r] * delta)
         /\ Moves(r, delta) # <<>>
<1>1. PICK n \in Nat \ {0} : n = Len(Path[r])
  BY PathFacts
<1>2. PICK m \in Int : m = Sign[r] * delta
  <2>1. Sign[r] \in Int
    BY LedgerAssumption
  <2> QED BY <2>1
<1>3. \A j \in 1 .. n : Path[r][j] \in Dims /\ Path[r][j] \in Along(r)
  BY <1>1, PathFacts
<1>4. \A j, k \in 1 .. n : Path[r][j] = Path[r][k] => j = k
  BY <1>1, PathFacts
<1>5. \A i \in 1 .. 2 * n : /\ (i + 1) \div 2 \in 1 .. n
                            /\ \/ i % 2 = 1 /\ i = 2 * ((i + 1) \div 2) - 1
                               \/ i % 2 = 0 /\ i = 2 * ((i + 1) \div 2)
  OBVIOUS
<1> DEFINE E(i) == IF i % 2 = 1 THEN Add("open", Path[r][(i + 1) \div 2], -delta)
                   ELSE Add("position", Path[r][(i + 1) \div 2], m)
<1>6. PICK t : t = [i \in 1 .. 2 * n |-> E(i)]
  OBVIOUS
<1>7. Moves(r, delta) = t
  BY <1>1, <1>2, <1>6 DEF Moves
<1>8. \A i \in 1 .. 2 * n : E(i) \in AddT /\ E(i).dim = Path[r][(i + 1) \div 2]
                            /\ E(i).counter = (IF i % 2 = 1 THEN "open" ELSE "position")
                            /\ E(i).by = IF i % 2 = 1 THEN -delta ELSE m
  BY <1>3, <1>5 DEF Add, AddT, Names
<1> HIDE DEF E
<1>9. t \in Seq(AddT) /\ DOMAIN t = 1 .. 2 * n /\ \A i \in 1 .. 2 * n : t[i] = E(i)
  BY <1>6, <1>8
<1>10. Distinct(t)
  <2> SUFFICES ASSUME NEW i \in 1 .. 2 * n, NEW j \in 1 .. 2 * n, t[i].counter = t[j].counter, t[i].dim = t[j].dim
               PROVE  i = j
    BY <1>9 DEF Distinct
  <2>1. Path[r][(i + 1) \div 2] = Path[r][(j + 1) \div 2]
        /\ (IF i % 2 = 1 THEN "open" ELSE "position") = (IF j % 2 = 1 THEN "open" ELSE "position")
    BY <1>8, <1>9
  <2>2. (i + 1) \div 2 = (j + 1) \div 2
    BY <1>4, <1>5, <2>1
  <2>3. i % 2 = 1 <=> j % 2 = 1
    BY <2>1
  <2> QED BY <1>5, <2>2, <2>3
<1>11. \A i \in DOMAIN t : t[i].dim \in Along(r) /\ t[i].counter \in {"open", "position"}
  BY <1>3, <1>5, <1>8, <1>9
<1>12. ASSUME NEW d PROVE /\ Due(t, "open", d) = IF d \in Along(r) THEN -delta ELSE 0
                          /\ Due(t, "credit", d) = 0
                          /\ Due(t, "position", d) = IF d \in Along(r) THEN m ELSE 0
  <2>1. Due(t, "credit", d) = 0
    <3>1. \A i \in DOMAIN t : ~(t[i].counter = "credit" /\ t[i].dim = d)
      BY <1>11
    <3> QED BY <3>1, DueNone
  <2>2. CASE d \notin Along(r)
    <3>1. \A i \in DOMAIN t : ~(t[i].counter = "open" /\ t[i].dim = d) /\ ~(t[i].counter = "position" /\ t[i].dim = d)
      BY <1>11, <2>2
    <3>2. Due(t, "open", d) = 0 /\ Due(t, "position", d) = 0
      BY <3>1, DueNone
    <3> QED BY <2>1, <2>2, <3>2
  <2>3. CASE d \in Along(r)
    <3>1. PICK j \in 1 .. n : d = Path[r][j]
      BY <1>1, <2>3, PathFacts DEF Along, ToSet
    <3>2. PICK i \in 1 .. 2 * n : i = 2 * j - 1 /\ i % 2 = 1 /\ (i + 1) \div 2 = j
      OBVIOUS
    <3>3. PICK k \in 1 .. 2 * n : k = 2 * j /\ k % 2 = 0 /\ (k + 1) \div 2 = j
      OBVIOUS
    <3>4. /\ i \in DOMAIN t /\ t[i].counter = "open" /\ t[i].dim = d /\ t[i].by = -delta
          /\ k \in DOMAIN t /\ t[k].counter = "position" /\ t[k].dim = d /\ t[k].by = m
      BY <1>8, <1>9, <3>1, <3>2, <3>3
    <3>5. Due(t, t[i].counter, t[i].dim) = t[i].by /\ Due(t, t[k].counter, t[k].dim) = t[k].by
      BY <1>10, <3>4, DueAt
    <3> QED BY <2>1, <2>3, <3>4, <3>5
  <2> QED BY <2>2, <2>3
<1>13. Owes(t, r, Along(r), -delta, {}, 0, Along(r), m)
  BY <1>9, <1>10, <1>11, <1>12 DEF Owes
<1>14. t # <<>>
  BY <1>9
<1> QED BY <1>2, <1>7, <1>13, <1>14

\* What is pending gives back.
LEMMA OwesTodo ==
  ASSUME NEW f \in FrameT, NEW r, f.ref = r, NEW D, NEW o \in Int, NEW K, NEW k \in Int, NEW P, NEW m,
         Owes(f.todo, r, D, o, K, k, P, m), o <= 0, k >= 0
  PROVE  TodoInv(f)
<1>1. PICK t : t = f.todo
  OBVIOUS
<1>2. t \in Seq(AddT) /\ Distinct(t) /\ \A i \in DOMAIN t : t[i].dim \in Along(r)
  BY <1>1 DEF Owes
<1>3. ASSUME NEW i \in DOMAIN t PROVE /\ t[i].counter = "open" => t[i].by <= 0
                                      /\ t[i].counter = "credit" => t[i].by >= 0
  <2>1. Due(t, t[i].counter, t[i].dim) = t[i].by
    BY <1>2, DueAt
  <2>2. /\ Due(t, "open", t[i].dim) = IF t[i].dim \in D THEN o ELSE 0
        /\ Due(t, "credit", t[i].dim) = IF t[i].dim \in K THEN k ELSE 0
    BY <1>1 DEF Owes
  <2> QED BY <2>1, <2>2
<1> QED BY <1>1, <1>2, <1>3 DEF TodoInv
-----------------------------------------------------------------------------
(* A step about one order. *)

LEMMA FrameTypes ==
  ASSUME Types, CallsInv, NEW r \in Refs
  PROVE  Frm(r) \in FrameT /\ TodoInv(Frm(r)) /\ (Frm(r) = Idle \/ Frm(r).ref = r)
<1>1. Idle \in FrameT /\ TodoInv(Idle)
  <2>1. Idle.todo = <<>> /\ DOMAIN Idle.todo = {} /\ Distinct(Idle.todo)
    BY DueEmpty DEF Idle, Frame
  <2>2. TodoInv(Idle)
    BY <2>1 DEF TodoInv
  <2>3. Idle \in FrameT
    BY DEF Idle, Frame, FrameT, Pcs
  <2> QED BY <2>2, <2>3
<1>2. CASE Quiet(r)
  BY <1>1, <1>2, FrameQuiet
<1>3. CASE ~Quiet(r)
  <2>1. PICK c \in Callers : call[c].ref = r
    BY <1>3 DEF Quiet
  <2>2. Frm(r) = call[c]
    BY <2>1, FrameOf
  <2>3. call[c] \in FrameT /\ TodoInv(call[c])
    BY DEF Types, CallsInv, FrameInv
  <2> QED BY <2>1, <2>2, <2>3
<1> QED BY <1>2, <1>3

LEMMA ShareTypes ==
  ASSUME NEW f \in FrameT, TodoInv(f), NEW res \in Reservation, NEW r \in Refs, NEW n \in Nat, NEW d
  PROVE  /\ OpenShare(f, res, r, d) \in Int /\ CreditShare(f, res, r, d) \in Int
         /\ PositionShare(f, res, r, n, d) \in Int
         /\ OpenKept(f, res, r, d) \in Int /\ CreditKept(f, res, r, d) \in Int
<1>1. f.todo \in Seq(AddT) /\ Distinct(f.todo) /\ f.volume \in Int /\ f.pc \in Pcs
  BY DEF FrameT, TodoInv
<1>2. Due(f.todo, "open", d) \in Int /\ Due(f.todo, "credit", d) \in Int /\ Due(f.todo, "position", d) \in Int
  BY <1>1, DueCases
<1>3. Own(res) \in Int /\ res.credit \in Int /\ res.filled \in Int
  BY DEF Own, Reservation
<1>4. Sign[r] = 1 \/ Sign[r] = -1
  BY LedgerAssumption
<1>5. OpenDone(f, res, r, d) \in Int
  BY <1>1, <1>3 DEF OpenDone, Pcs
<1>6. CreditDone(f, res, r, d) \in Int
  BY <1>1, <1>3 DEF CreditDone, Pcs
<1>7. OpenShare(f, res, r, d) \in Int /\ CreditShare(f, res, r, d) \in Int
  BY <1>2, <1>3, <1>5, <1>6 DEF OpenShare, CreditShare
<1>8. PositionShare(f, res, r, n, d) \in Int
  BY <1>1, <1>2, <1>4 DEF PositionShare
<1> QED BY <1>3, <1>7, <1>8 DEF OpenKept, CreditKept

\* What was checked is no more than what is counted.
LEMMA KeptBelow ==
  ASSUME NEW f \in FrameT, TodoInv(f), NEW res \in Reservation, NEW r \in Refs, NEW d
  PROVE  OpenKept(f, res, r, d) <= OpenShare(f, res, r, d) /\ CreditKept(f, res, r, d) <= CreditShare(f, res, r, d)
<1>1. f.todo \in Seq(AddT) /\ Distinct(f.todo)
  BY DEF FrameT, TodoInv
<1>2. OpenShare(f, res, r, d) \in Int /\ CreditShare(f, res, r, d) \in Int
  BY ShareTypes
<1>3. CASE f.pc # "idle"
  BY <1>2, <1>3 DEF OpenKept, CreditKept
<1>4. CASE f.pc = "idle"
  <2>1. Due(f.todo, "open", d) \in Int /\ Due(f.todo, "open", d) <= 0
    <3>1. \/ Due(f.todo, "open", d) = 0
          \/ \E i \in DOMAIN f.todo : f.todo[i].counter = "open" /\ f.todo[i].dim = d /\ Due(f.todo, "open", d) = f.todo[i].by
      BY <1>1, DueCases
    <3>2. Due(f.todo, "open", d) \in Int
      BY <1>1, DueCases
    <3> QED BY <3>1, <3>2 DEF TodoInv
  <2>2. Due(f.todo, "credit", d) \in Int /\ Due(f.todo, "credit", d) >= 0
    <3>1. \/ Due(f.todo, "credit", d) = 0
          \/ \E i \in DOMAIN f.todo : f.todo[i].counter = "credit" /\ f.todo[i].dim = d /\ Due(f.todo, "credit", d) = f.todo[i].by
      BY <1>1, DueCases
    <3>2. Due(f.todo, "credit", d) \in Int
      BY <1>1, DueCases
    <3> QED BY <3>1, <3>2 DEF TodoInv
  <2>3. Own(res) \in Int /\ res.credit \in Int
    BY DEF Own, Reservation
  <2>4. OpenDone(f, res, r, d) = 0 /\ CreditDone(f, res, r, d) = 0
    BY <1>4 DEF OpenDone, CreditDone, Pcs
  <2> QED BY <1>4, <2>1, <2>2, <2>3, <2>4 DEF OpenKept, CreditKept, OpenShare, CreditShare
<1> QED BY <1>3, <1>4

\* Nothing but the order r is touched.
Only(r) ==
  \A e \in Refs : e # r =>
    /\ Frm(e)' = Frm(e) /\ Held(e)' = Held(e) /\ Res(e)' = Res(e)
    /\ noted'[e] = noted[e] /\ booked'[e] = booked[e] /\ (e \in used' <=> e \in used)

\* What the step adds to the counters is what the order accounts for in addition.
Balanced(r, f, x, n, g, y, m) == \A d \in Dims :
  /\ uncut' = {} => counter'["open"][d] = counter["open"][d] + OpenShare(g, y, r, d) - OpenShare(f, x, r, d)
  /\ counter'["credit"][d] = counter["credit"][d] - CreditShare(g, y, r, d) + CreditShare(f, x, r, d)
  /\ counter'["position"][d] = counter["position"][d] + PositionShare(g, y, r, m, d) - PositionShare(f, x, r, n, d)

\* Nothing is kept that was not checked.
Checked(r, f, x, g, y) == \A d \in Dims :
  /\ uncut' = {} => \/ OpenKept(g, y, r, d) <= OpenKept(f, x, r, d)
                    \/ counter["open"][d] + OpenKept(g, y, r, d) - OpenKept(f, x, r, d) <= OpenLimit[d]
  /\ \/ CreditKept(g, y, r, d) <= CreditKept(f, x, r, d)
     \/ CreditKept(g, y, r, d) - CreditKept(f, x, r, d) <= counter["credit"][d]

LEMMA OneOrder ==
  ASSUME LedgerInv, ReservationsFindable, NEW r \in Refs, NEW f \in FrameT, NEW g \in FrameT, TodoInv(g),
         NEW x \in Reservation, NEW y \in Reservation, NEW n \in Nat, NEW m \in Nat,
         f = Frm(r), x = Res(r), n = noted[r], Frm(r)' = g, Res(r)' = y, noted'[r] = m,
         Types', CallsInv', Only(r), uncut' = {} => uncut = {}, OrderInv(r)', AgreeInv(r)',
         Balanced(r, f, x, n, g, y, m), Checked(r, f, x, g, y)
  PROVE  LedgerInv'
<1>1. Types /\ CallsInv /\ CounterInv /\ LimitInv
  BY DEF LedgerInv
<1>2. ASSUME NEW e \in Refs PROVE OrderInv(e)' /\ AgreeInv(e)'
  <2>1. CASE e = r
    BY <2>1
  <2>2. CASE e # r
    <3>1. OrderInv(e) /\ AgreeInv(e)
      BY DEF LedgerInv
    <3>2. /\ Frm(e)' = Frm(e) /\ Held(e)' = Held(e) /\ Res(e)' = Res(e)
          /\ noted'[e] = noted[e] /\ booked'[e] = booked[e] /\ (e \in used' <=> e \in used)
      BY <2>2 DEF Only
    <3> QED BY <3>1, <3>2 DEF OrderInv, AgreeInv, OrderFits, AgreeFits
  <2> QED BY <2>1, <2>2
<1>3. IsFiniteSet(Refs) /\ TodoInv(f)
  BY <1>1, LedgerAssumption, FrameTypes
<1>4. ASSUME NEW e \in Refs
      PROVE  /\ Frm(e) \in FrameT /\ TodoInv(Frm(e)) /\ Res(e) \in Reservation /\ noted[e] \in Nat
             /\ Frm(e)' \in FrameT /\ TodoInv(Frm(e)') /\ Res(e)' \in Reservation /\ noted'[e] \in Nat
  <2>1. Frm(e) \in FrameT /\ TodoInv(Frm(e)) /\ Res(e) \in Reservation /\ noted[e] \in Nat
    BY <1>1, FrameTypes, HeldFacts DEF Types
  <2> QED BY <2>1 DEF Only
<1>5. ASSUME NEW d \in Dims
      PROVE  /\ uncut' = {} => counter'["open"][d] = SumFunctionOnSet(OpenOf(d)', Refs)
             /\ counter'["credit"][d] = Budget[d] - SumFunctionOnSet(CreditOf(d)', Refs)
             /\ counter'["position"][d] = SumFunctionOnSet(PositionOf(d)', Refs)
             /\ uncut' = {} => SumFunctionOnSet(OpenTaken(d)', Refs) <= OpenLimit[d]
             /\ SumFunctionOnSet(CreditTaken(d)', Refs) <= Budget[d]
  <2>1. PICK o, o2, k, k2, p, p2, a, a2, b, b2 :
          /\ o = OpenOf(d) /\ o2 = OpenOf(d)' /\ k = CreditOf(d) /\ k2 = CreditOf(d)'
          /\ p = PositionOf(d) /\ p2 = PositionOf(d)' /\ a = OpenTaken(d) /\ a2 = OpenTaken(d)'
          /\ b = CreditTaken(d) /\ b2 = CreditTaken(d)'
    OBVIOUS
  <2>2. ASSUME NEW e \in Refs
        PROVE  /\ o[e] = OpenShare(Frm(e), Res(e), e, d) /\ o2[e] = OpenShare(Frm(e)', Res(e)', e, d)
               /\ k[e] = CreditShare(Frm(e), Res(e), e, d) /\ k2[e] = CreditShare(Frm(e)', Res(e)', e, d)
               /\ p[e] = PositionShare(Frm(e), Res(e), e, noted[e], d)
               /\ p2[e] = PositionShare(Frm(e)', Res(e)', e, noted'[e], d)
               /\ a[e] = OpenKept(Frm(e), Res(e), e, d) /\ a2[e] = OpenKept(Frm(e)', Res(e)', e, d)
               /\ b[e] = CreditKept(Frm(e), Res(e), e, d) /\ b2[e] = CreditKept(Frm(e)', Res(e)', e, d)
    BY <2>1 DEF OpenOf, CreditOf, PositionOf, OpenTaken, CreditTaken
  <2>3. ASSUME NEW e \in Refs
        PROVE  /\ o[e] \in Int /\ o2[e] \in Int /\ k[e] \in Int /\ k2[e] \in Int /\ p[e] \in Int /\ p2[e] \in Int
               /\ a[e] \in Int /\ a2[e] \in Int /\ b[e] \in Int /\ b2[e] \in Int
    BY <1>4, <2>2, ShareTypes
  <2>4. ASSUME NEW e \in Refs \ {r}
        PROVE  o[e] = o2[e] /\ k[e] = k2[e] /\ p[e] = p2[e] /\ a[e] = a2[e] /\ b[e] = b2[e]
    BY <2>2 DEF Only
  <2>5. ASSUME NEW e \in Refs PROVE a[e] <= o[e] /\ b[e] <= k[e]
    BY <1>4, <2>2, KeptBelow
  <2>6. /\ SumFunctionOnSet(o2, Refs) = SumFunctionOnSet(o, Refs) + o2[r] - o[r]
        /\ SumFunctionOnSet(k2, Refs) = SumFunctionOnSet(k, Refs) + k2[r] - k[r]
        /\ SumFunctionOnSet(p2, Refs) = SumFunctionOnSet(p, Refs) + p2[r] - p[r]
        /\ SumFunctionOnSet(a2, Refs) = SumFunctionOnSet(a, Refs) + a2[r] - a[r]
        /\ SumFunctionOnSet(b2, Refs) = SumFunctionOnSet(b, Refs) + b2[r] - b[r]
    <3>1. SumFunctionOnSet(o2, Refs) = SumFunctionOnSet(o, Refs) + o2[r] - o[r]
      BY <1>3, <2>3, <2>4, SumChange
    <3>2. SumFunctionOnSet(k2, Refs) = SumFunctionOnSet(k, Refs) + k2[r] - k[r]
      BY <1>3, <2>3, <2>4, SumChange
    <3>3. SumFunctionOnSet(p2, Refs) = SumFunctionOnSet(p, Refs) + p2[r] - p[r]
      BY <1>3, <2>3, <2>4, SumChange
    <3>4. SumFunctionOnSet(a2, Refs) = SumFunctionOnSet(a, Refs) + a2[r] - a[r]
      BY <1>3, <2>3, <2>4, SumChange
    <3>5. SumFunctionOnSet(b2, Refs) = SumFunctionOnSet(b, Refs) + b2[r] - b[r]
      BY <1>3, <2>3, <2>4, SumChange
    <3> QED BY <3>1, <3>2, <3>3, <3>4, <3>5
  <2>7. /\ SumFunctionOnSet(o, Refs) \in Int /\ SumFunctionOnSet(k, Refs) \in Int /\ SumFunctionOnSet(p, Refs) \in Int
        /\ SumFunctionOnSet(a, Refs) \in Int /\ SumFunctionOnSet(b, Refs) \in Int
    BY <1>3, <2>3, SumInt
  <2>8. SumFunctionOnSet(a, Refs) <= SumFunctionOnSet(o, Refs) /\ SumFunctionOnSet(b, Refs) <= SumFunctionOnSet(k, Refs)
    BY <1>3, <2>3, <2>5, SumLeq
  <2>9. /\ uncut = {} => counter["open"][d] = SumFunctionOnSet(o, Refs)
        /\ counter["credit"][d] = Budget[d] - SumFunctionOnSet(k, Refs)
        /\ counter["position"][d] = SumFunctionOnSet(p, Refs)
        /\ uncut = {} => SumFunctionOnSet(a, Refs) <= OpenLimit[d]
        /\ SumFunctionOnSet(b, Refs) <= Budget[d]
    BY <1>1, <2>1 DEF CounterInv, LimitInv
  <2>10. /\ uncut' = {} => counter'["open"][d] = counter["open"][d] + o2[r] - o[r]
         /\ counter'["credit"][d] = counter["credit"][d] - k2[r] + k[r]
         /\ counter'["position"][d] = counter["position"][d] + p2[r] - p[r]
    BY <2>2 DEF Balanced
  <2>11. /\ uncut' = {} => a2[r] <= a[r] \/ counter["open"][d] + a2[r] - a[r] <= OpenLimit[d]
         /\ b2[r] <= b[r] \/ b2[r] - b[r] <= counter["credit"][d]
    BY <2>2 DEF Checked
  <2>12. Budget[d] \in Int /\ OpenLimit[d] \in Int
    BY LedgerAssumption
  <2>13. /\ uncut' = {} => counter'["open"][d] = SumFunctionOnSet(o2, Refs)
         /\ counter'["credit"][d] = Budget[d] - SumFunctionOnSet(k2, Refs)
         /\ counter'["position"][d] = SumFunctionOnSet(p2, Refs)
    BY <2>3, <2>6, <2>7, <2>9, <2>10, <2>12
  <2>14. /\ uncut' = {} => SumFunctionOnSet(a2, Refs) <= OpenLimit[d]
         /\ SumFunctionOnSet(b2, Refs) <= Budget[d]
    BY <2>3, <2>6, <2>7, <2>8, <2>9, <2>11, <2>12
  <2> QED BY <2>1, <2>13, <2>14
<1>6. CounterInv' /\ LimitInv'
  BY <1>5 DEF CounterInv, LimitInv
<1> QED BY <1>2, <1>6 DEF LedgerInv
-----------------------------------------------------------------------------
(* The steps of a call. *)

LEMMA ActiveCall ==
  ASSUME LedgerInv, ReservationsFindable, NEW c \in Callers, call[c] # Idle
  PROVE  /\ call[c].ref \in Refs /\ call[c] \in FrameT /\ FrameInv(call[c])
         /\ Frm(call[c].ref) = call[c]
         /\ Res(call[c].ref) \in Reservation
         /\ OrderInv(call[c].ref) /\ AgreeInv(call[c].ref)
<1>1. Types /\ CallsInv
  BY DEF LedgerInv
<1>2. call[c] \in FrameT /\ FrameInv(call[c])
  BY <1>1 DEF Types, CallsInv
<1>3. call[c].ref \in Refs
  BY <1>2 DEF FrameT, FrameInv
<1>4. Frm(call[c].ref) = call[c]
  BY <1>1, <1>3, FrameOf
<1> QED BY <1>1, <1>2, <1>3, <1>4, HeldFacts DEF LedgerInv

LEMMA ApplyFacts ==
  ASSUME Types, NEW a \in AddT, Apply(a)
  PROVE  /\ counter' \in [Names -> [Dims -> Int]]
         /\ \A name \in Names : \A d \in Dims :
              counter'[name][d] = counter[name][d] + (IF name = a.counter /\ d = a.dim THEN a.by ELSE 0)
<1>1. a.counter \in Names /\ a.dim \in Dims /\ a.by \in Int
  BY DEF AddT
<1>2. counter \in [Names -> [Dims -> Int]]
  BY DEF Types
<1>3. counter' = [counter EXCEPT ![a.counter][a.dim] = counter[a.counter][a.dim] + a.by]
  BY DEF Apply
<1>4. counter[a.counter] \in [Dims -> Int] /\ counter[a.counter][a.dim] \in Int
  BY <1>1, <1>2
<1>5. counter' \in [Names -> [Dims -> Int]]
  BY <1>1, <1>2, <1>3, <1>4
<1>6. ASSUME NEW name \in Names, NEW d \in Dims
      PROVE  counter'[name][d] = counter[name][d] + (IF name = a.counter /\ d = a.dim THEN a.by ELSE 0)
  <2>1. counter[name][d] \in Int
    BY <1>2
  <2> QED BY <1>1, <1>2, <1>3, <1>4, <2>1
<1> QED BY <1>5, <1>6

LEMMA Unaffected ==
  ASSUME NEW r \in Refs, \A e \in Refs : e # r => Frm(e)' = Frm(e), UNCHANGED <<table, noted, used>>,
         \A e \in Refs : e # r => booked'[e] = booked[e]
  PROVE  Only(r) /\ Held(r)' = Held(r) /\ Res(r)' = Res(r)
BY ResKept DEF Only

LEMMA AtomicAddStep ==
  ASSUME LedgerInv, ReservationsFindable, NEW c \in Callers, AtomicAdd(c)
  PROVE  LedgerInv'
<1>1. PICK f : f = call[c]
  OBVIOUS
<1>2. f.todo # <<>> /\ f # Idle
  BY <1>1 DEF AtomicAdd, Idle, Frame
<1>3. PICK r \in Refs : r = f.ref
  BY <1>1, <1>2, ActiveCall
<1>4. f \in FrameT /\ FrameInv(f) /\ Frm(r) = f /\ Res(r) \in Reservation /\ OrderInv(r) /\ AgreeInv(r)
  BY <1>1, <1>2, <1>3, ActiveCall
<1>5. PICK x \in Reservation : x = Res(r)
  BY <1>4
<1>6. PICK t \in Seq(AddT) : t = f.todo
  BY <1>4 DEF FrameT
<1>7. TodoInv(f) /\ Distinct(t) /\ t # <<>> /\ f.pc \in Pcs /\ f.volume \in Int
  BY <1>2, <1>4, <1>6 DEF FrameInv, TodoInv, FrameT
<1>8. PICK a : a = Head(t)
  OBVIOUS
<1>9. /\ a \in AddT /\ Tail(t) \in Seq(AddT) /\ Distinct(Tail(t))
      /\ a = t[1] /\ 1 \in DOMAIN t
      /\ \A i \in DOMAIN Tail(t) : i + 1 \in DOMAIN t /\ Tail(t)[i] = t[i + 1]
      /\ Due(t, a.counter, a.dim) = a.by
      /\ \A name, d : Due(Tail(t), name, d) = IF name = a.counter /\ d = a.dim THEN 0 ELSE Due(t, name, d)
  BY <1>7, <1>8, DueTail
<1>10. PICK u : u = Tail(t)
  OBVIOUS
<1> DEFINE g == IF f.pc = "idle" /\ Len(f.todo) = 1 THEN Idle ELSE [f EXCEPT !.todo = Tail(f.todo)]
<1>11. /\ Apply(a) /\ Continue(c, g) /\ UNCHANGED <<halted, table, used, noted, booked, uncut>>
  BY <1>1, <1>6, <1>8 DEF AtomicAdd, book
<1>12. /\ g \in FrameT /\ g.pc = f.pc /\ g.todo = u /\ (g.pc # "idle" => g.volume = f.volume /\ g.at = f.at)
       /\ (g = Idle \/ g.ref = r) /\ (g.pc = "idle" /\ u = <<>> => g = Idle)
  <2>1. CASE f.pc = "idle" /\ Len(f.todo) = 1
    <3>1. u = <<>>
      BY <1>6, <1>10, <2>1
    <3>2. Idle \in FrameT /\ Idle.pc = "idle" /\ Idle.todo = <<>>
      BY DEF Idle, Frame, FrameT, Pcs
    <3> QED BY <2>1, <3>1, <3>2
  <2>2. CASE ~(f.pc = "idle" /\ Len(f.todo) = 1)
    <3>1. g = [f EXCEPT !.todo = u]
      BY <1>6, <1>10, <2>2
    <3>2. u \in Seq(AddT)
      BY <1>9, <1>10
    <3>3. g \in FrameT /\ g.pc = f.pc /\ g.todo = u /\ g.volume = f.volume /\ g.at = f.at /\ g.ref = f.ref
      BY <1>4, <3>1, <3>2 DEF FrameT
    <3>4. f.pc = "idle" => u # <<>>
      <4>1. Len(t) \in Nat \ {0} /\ Len(u) = Len(t) - 1
        BY <1>7, <1>10, HeadTailProperties, EmptySeq
      <4>2. ASSUME f.pc = "idle" PROVE u # <<>>
        <5>1. Len(t) # 1
          BY <1>6, <2>2, <4>2
        <5>2. Len(u) # 0
          BY <4>1, <5>1
        <5> QED BY <5>2
      <4> QED BY <4>2
    <3> QED BY <1>3, <3>3, <3>4
  <2> QED BY <2>1, <2>2
<1> HIDE DEF g
<1>13. TodoInv(g)
  <2>1. ASSUME NEW i \in DOMAIN u
        PROVE  /\ u[i].counter = "open" => u[i].by <= 0
               /\ u[i].counter = "credit" => u[i].by >= 0
               /\ u[i].dim \in Along(r)
    <3>1. PICK j \in DOMAIN t : u[i] = t[j]
      BY <1>9, <1>10
    <3> QED BY <1>3, <1>6, <1>7, <3>1 DEF TodoInv
  <2>2. CASE g = Idle
    BY <2>2, DueEmpty DEF TodoInv, Idle, Frame
  <2>3. CASE g.ref = r
    BY <1>9, <1>10, <1>12, <2>1, <2>3 DEF TodoInv
  <2> QED BY <1>12, <2>2, <2>3
<1>14. FrameInv(g)
  <2>1. f.pc \notin {"expose", "grow", "credit", "store", "asked"}
    BY <1>2, <1>4 DEF FrameInv
  <2>2. g.ref = Void => g = Idle
    BY <1>12, LedgerAssumption
  <2> QED BY <1>12, <1>13, <2>1, <2>2 DEF FrameInv
<1>15. Types /\ CallsInv
  BY DEF LedgerInv
<1>16. /\ call' \in [Callers -> FrameT] /\ CallsInv' /\ Frm(r)' = g
       /\ \A e \in Refs : e # r => Frm(e)' = Frm(e)
  BY <1>1, <1>3, <1>11, <1>12, <1>14, <1>15, FrameChanged DEF Types
<1>17. /\ counter' \in [Names -> [Dims -> Int]]
       /\ \A name \in Names : \A d \in Dims :
            counter'[name][d] = counter[name][d] + (IF name = a.counter /\ d = a.dim THEN a.by ELSE 0)
  BY <1>9, <1>11, <1>15, ApplyFacts
<1>18. Types'
  BY <1>11, <1>15, <1>16, <1>17 DEF Types
<1>19. Only(r) /\ Held(r)' = Held(r) /\ Res(r)' = x
  BY <1>5, <1>11, <1>16, Unaffected
<1>20. OrderInv(r)' /\ AgreeInv(r)'
  BY <1>4, <1>5, <1>11, <1>12, <1>16, <1>19 DEF OrderInv, AgreeInv, OrderFits, AgreeFits
<1>21. PICK n \in Nat : n = noted[r] /\ n = noted'[r]
  BY <1>11, <1>15 DEF Types
<1>22. ASSUME NEW d \in Dims
       PROVE  /\ OpenShare(g, x, r, d) = OpenShare(f, x, r, d) + (IF a.counter = "open" /\ d = a.dim THEN a.by ELSE 0)
              /\ CreditShare(g, x, r, d) = CreditShare(f, x, r, d) - (IF a.counter = "credit" /\ d = a.dim THEN a.by ELSE 0)
              /\ PositionShare(g, x, r, n, d) =
                   PositionShare(f, x, r, n, d) + (IF a.counter = "position" /\ d = a.dim THEN a.by ELSE 0)
  <2>1. OpenDone(g, x, r, d) = OpenDone(f, x, r, d) /\ CreditDone(g, x, r, d) = CreditDone(f, x, r, d)
    BY <1>7, <1>12 DEF OpenDone, CreditDone, Pcs
  <2>2. OpenDone(f, x, r, d) \in Int /\ CreditDone(f, x, r, d) \in Int
    <3>1. Own(x) \in Int /\ x.credit \in Int /\ x.filled \in Int
      BY DEF Own, Reservation
    <3> QED BY <1>7, <3>1 DEF OpenDone, CreditDone, Pcs
  <2>3. \A name \in Names : Due(t, name, d) \in Int /\
          Due(u, name, d) = Due(t, name, d) - (IF a.counter = name /\ d = a.dim THEN a.by ELSE 0)
    <3>1. \A name \in Names : Due(t, name, d) \in Int
      BY <1>7, DueCases
    <3>2. a.by \in Int
      BY <1>9 DEF AddT
    <3> QED BY <1>9, <1>10, <3>1, <3>2
  <2>4. d = a.dim => d \in Along(r)
    BY <1>3, <1>6, <1>7, <1>9 DEF TodoInv
  <2>5. Own(x) \in Int /\ x.credit \in Int /\ a.by \in Int
    BY <1>9 DEF Own, Reservation, AddT
  <2>6. Sign[r] = 1 \/ Sign[r] = -1
    BY LedgerAssumption
  <2>7. "open" \in Names /\ "credit" \in Names /\ "position" \in Names
    BY DEF Names
  <2>8. OpenShare(g, x, r, d) = OpenShare(f, x, r, d) + (IF a.counter = "open" /\ d = a.dim THEN a.by ELSE 0)
    BY <1>6, <1>12, <2>1, <2>2, <2>3, <2>4, <2>5, <2>7 DEF OpenShare
  <2>9. CreditShare(g, x, r, d) = CreditShare(f, x, r, d) - (IF a.counter = "credit" /\ d = a.dim THEN a.by ELSE 0)
    BY <1>6, <1>12, <2>1, <2>2, <2>3, <2>4, <2>5, <2>7 DEF CreditShare
  <2>10. PositionShare(g, x, r, n, d) =
          PositionShare(f, x, r, n, d) + (IF a.counter = "position" /\ d = a.dim THEN a.by ELSE 0)
    <3>1. PICK v \in Int : v = Sign[r] * (IF f.pc = "note" THEN f.volume ELSE n)
      BY <1>7, <2>6
    <3>2. v = Sign[r] * (IF g.pc = "note" THEN g.volume ELSE n)
      BY <1>12, <3>1
    <3> QED BY <1>6, <1>12, <2>3, <2>4, <2>5, <2>7, <3>1, <3>2 DEF PositionShare
  <2> QED BY <2>8, <2>9, <2>10
<1>23. ASSUME NEW d \in Dims
       PROVE  /\ OpenShare(f, x, r, d) \in Int /\ CreditShare(f, x, r, d) \in Int /\ PositionShare(f, x, r, n, d) \in Int
  BY <1>4, <1>7, ShareTypes
<1>24. a.by \in Int /\ (a.counter = "open" => a.by <= 0) /\ (a.counter = "credit" => a.by >= 0)
  <2>1. a.by \in Int
    BY <1>9 DEF AddT
  <2> QED BY <1>6, <1>7, <1>9, <2>1 DEF TodoInv
<1>25. Balanced(r, f, x, n, g, x, n)
  <2>1. \A d \in Dims : counter["open"][d] \in Int /\ counter["credit"][d] \in Int /\ counter["position"][d] \in Int
    BY <1>15 DEF Types, Names
  <2>2. "open" \in Names /\ "credit" \in Names /\ "position" \in Names
    BY DEF Names
  <2> SUFFICES ASSUME NEW d \in Dims
               PROVE  /\ counter'["open"][d] = counter["open"][d] + OpenShare(g, x, r, d) - OpenShare(f, x, r, d)
                      /\ counter'["credit"][d] = counter["credit"][d] - CreditShare(g, x, r, d) + CreditShare(f, x, r, d)
                      /\ counter'["position"][d] =
                           counter["position"][d] + PositionShare(g, x, r, n, d) - PositionShare(f, x, r, n, d)
    BY DEF Balanced
  <2>3. /\ counter'["open"][d] = counter["open"][d] + (IF "open" = a.counter /\ d = a.dim THEN a.by ELSE 0)
        /\ counter'["credit"][d] = counter["credit"][d] + (IF "credit" = a.counter /\ d = a.dim THEN a.by ELSE 0)
        /\ counter'["position"][d] = counter["position"][d] + (IF "position" = a.counter /\ d = a.dim THEN a.by ELSE 0)
    BY <1>17, <2>2
  <2> QED BY <1>22, <1>23, <1>24, <2>1, <2>3
<1>26. Checked(r, f, x, g, x)
  <2> SUFFICES ASSUME NEW d \in Dims
               PROVE  OpenKept(g, x, r, d) <= OpenKept(f, x, r, d) /\ CreditKept(g, x, r, d) <= CreditKept(f, x, r, d)
    BY DEF Checked
  <2>1. CASE f.pc = "idle"
    <3>1. Own(x) \in Int /\ x.credit \in Int
      BY DEF Own, Reservation
    <3> QED BY <1>12, <2>1, <3>1 DEF OpenKept, CreditKept
  <2>2. CASE f.pc # "idle"
    BY <1>12, <1>22, <1>23, <1>24, <2>2 DEF OpenKept, CreditKept
  <2> QED BY <2>1, <2>2
<1> QED BY <1>4, <1>5, <1>11, <1>12, <1>13, <1>16, <1>18, <1>19, <1>20, <1>21, <1>25, <1>26, OneOrder

LEMMA IdleFacts ==
  ASSUME NEW r
  PROVE  /\ Idle \in FrameT /\ FrameInv(Idle) /\ TodoInv(Idle) /\ Idle.pc = "idle" /\ Idle.todo = <<>>
         /\ Owes(Idle.todo, r, {}, 0, {}, 0, {}, 0)
<1>1. Idle.pc = "idle" /\ Idle.todo = <<>>
  BY DEF Idle, Frame
<1>2. Idle \in FrameT
  BY DEF Idle, Frame, FrameT, Pcs
<1>3. TodoInv(Idle)
  BY <1>1, DueEmpty DEF TodoInv
<1>4. FrameInv(Idle)
  BY <1>1, <1>3 DEF FrameInv
<1> QED BY <1>1, <1>2, <1>3, <1>4, OwesNothing

\* Caller c takes the call about r to g and leaves the table alone.
LEMMA CallMoves ==
  ASSUME LedgerInv, ReservationsFindable, NEW c \in Callers, NEW r \in Refs,
         call[c].ref = r \/ (call[c] = Idle /\ Quiet(r)),
         NEW g \in FrameT, g = Idle \/ g.ref = r, FrameInv(g), Continue(c, g),
         UNCHANGED <<table, used, noted>>, counter' \in [Names -> [Dims -> Int]],
         booked' \in [Refs -> Nat], \A e \in Refs : e # r => booked'[e] = booked[e], uncut' \in SUBSET Refs
  PROVE  Types' /\ CallsInv' /\ Only(r) /\ Frm(r)' = g /\ Held(r)' = Held(r) /\ Res(r)' = Res(r)
<1>1. Types /\ CallsInv
  BY DEF LedgerInv
<1>2. /\ call' \in [Callers -> FrameT] /\ CallsInv' /\ Frm(r)' = g
      /\ \A e \in Refs : e # r => Frm(e)' = Frm(e)
  BY <1>1, FrameChanged DEF Types
<1>3. Types'
  BY <1>1, <1>2 DEF Types
<1>4. Only(r) /\ Held(r)' = Held(r) /\ Res(r)' = Res(r)
  BY <1>2, Unaffected
<1> QED BY <1>2, <1>3, <1>4

\* A step of the call about r that adds to one counter.
AddsUp(a, r, f, x, n, g) == \A d \in Dims :
  /\ OpenShare(g, x, r, d) = OpenShare(f, x, r, d) + (IF a.counter = "open" /\ d = a.dim THEN a.by ELSE 0)
  /\ CreditShare(g, x, r, d) = CreditShare(f, x, r, d) - (IF a.counter = "credit" /\ d = a.dim THEN a.by ELSE 0)
  /\ PositionShare(g, x, r, n, d) =
       PositionShare(f, x, r, n, d) + (IF a.counter = "position" /\ d = a.dim THEN a.by ELSE 0)

LEMMA AddStep ==
  ASSUME LedgerInv, ReservationsFindable, NEW c \in Callers, NEW r \in Refs, NEW f, NEW x, NEW n,
         f = call[c], f.ref = r, f # Idle, x = Res(r), n = noted[r],
         NEW a \in AddT, Apply(a), NEW g \in FrameT, g = Idle \/ g.ref = r, FrameInv(g), Continue(c, g),
         UNCHANGED <<table, used, noted, booked, uncut>>,
         OrderFits(r, g, x), AgreeFits(r, g, x), AddsUp(a, r, f, x, n, g), Checked(r, f, x, g, x)
  PROVE  LedgerInv'
<1>1. Types /\ CallsInv
  BY DEF LedgerInv
<1>2. f \in FrameT /\ Frm(r) = f /\ FrameInv(f) /\ x \in Reservation
  BY ActiveCall
<1>3. n \in Nat
  BY <1>1 DEF Types
<1>4. TodoInv(f) /\ TodoInv(g)
  BY <1>2 DEF FrameInv
<1>5. /\ counter' \in [Names -> [Dims -> Int]]
      /\ \A name \in Names : \A d \in Dims :
           counter'[name][d] = counter[name][d] + (IF name = a.counter /\ d = a.dim THEN a.by ELSE 0)
  BY <1>1, ApplyFacts
<1>6. Types' /\ CallsInv' /\ Only(r) /\ Frm(r)' = g /\ Held(r)' = Held(r) /\ Res(r)' = Res(r)
  <2>1. booked' \in [Refs -> Nat] /\ uncut' \in SUBSET Refs /\ \A e \in Refs : e # r => booked'[e] = booked[e]
    BY <1>1 DEF Types
  <2> QED BY <1>5, <2>1, CallMoves
<1>7. OrderInv(r)' /\ AgreeInv(r)'
  BY <1>6 DEF OrderInv, AgreeInv, OrderFits, AgreeFits
<1>8. Balanced(r, f, x, n, g, x, n)
  <2>1. "open" \in Names /\ "credit" \in Names /\ "position" \in Names
    BY DEF Names
  <2> SUFFICES ASSUME NEW d \in Dims
               PROVE  /\ counter'["open"][d] = counter["open"][d] + OpenShare(g, x, r, d) - OpenShare(f, x, r, d)
                      /\ counter'["credit"][d] = counter["credit"][d] - CreditShare(g, x, r, d) + CreditShare(f, x, r, d)
                      /\ counter'["position"][d] =
                           counter["position"][d] + PositionShare(g, x, r, n, d) - PositionShare(f, x, r, n, d)
    BY DEF Balanced
  <2>2. /\ counter'["open"][d] = counter["open"][d] + (IF "open" = a.counter /\ d = a.dim THEN a.by ELSE 0)
        /\ counter'["credit"][d] = counter["credit"][d] + (IF "credit" = a.counter /\ d = a.dim THEN a.by ELSE 0)
        /\ counter'["position"][d] = counter["position"][d] + (IF "position" = a.counter /\ d = a.dim THEN a.by ELSE 0)
    BY <1>5, <2>1
  <2>3. counter["open"][d] \in Int /\ counter["credit"][d] \in Int /\ counter["position"][d] \in Int
    BY <1>1, <2>1 DEF Types
  <2>4. OpenShare(f, x, r, d) \in Int /\ CreditShare(f, x, r, d) \in Int /\ PositionShare(f, x, r, n, d) \in Int
    BY <1>2, <1>3, <1>4, ShareTypes
  <2>5. a.by \in Int
    BY DEF AddT
  <2>6. /\ OpenShare(g, x, r, d) = OpenShare(f, x, r, d) + (IF a.counter = "open" /\ d = a.dim THEN a.by ELSE 0)
        /\ CreditShare(g, x, r, d) = CreditShare(f, x, r, d) - (IF a.counter = "credit" /\ d = a.dim THEN a.by ELSE 0)
        /\ PositionShare(g, x, r, n, d) =
             PositionShare(f, x, r, n, d) + (IF a.counter = "position" /\ d = a.dim THEN a.by ELSE 0)
    BY DEF AddsUp
  <2> QED BY <2>2, <2>3, <2>4, <2>5, <2>6
<1>9. Res(r)' = x /\ noted'[r] = n
  BY <1>6
<1> QED BY <1>2, <1>3, <1>4, <1>6, <1>7, <1>8, <1>9, OneOrder

\* A step about r that adds to no counter.
Even(r, f, x, n, g, y, m) == \A d \in Dims :
  /\ uncut' = {} => /\ OpenShare(g, y, r, d) = OpenShare(f, x, r, d)
                    /\ OpenKept(g, y, r, d) <= OpenKept(f, x, r, d)
  /\ CreditShare(g, y, r, d) = CreditShare(f, x, r, d)
  /\ CreditKept(g, y, r, d) <= CreditKept(f, x, r, d)
  /\ PositionShare(g, y, r, m, d) = PositionShare(f, x, r, n, d)

LEMMA EvenOrder ==
  ASSUME LedgerInv, ReservationsFindable, NEW r \in Refs, NEW f \in FrameT, NEW g \in FrameT, TodoInv(g),
         NEW x \in Reservation, NEW y \in Reservation, NEW n \in Nat, NEW m \in Nat,
         f = Frm(r), x = Res(r), n = noted[r], Frm(r)' = g, Res(r)' = y, noted'[r] = m,
         Types', CallsInv', Only(r), uncut' = {} => uncut = {}, OrderInv(r)', AgreeInv(r)',
         UNCHANGED counter, Even(r, f, x, n, g, y, m)
  PROVE  LedgerInv'
<1>1. Types /\ CallsInv
  BY DEF LedgerInv
<1>2. TodoInv(f)
  BY <1>1, FrameTypes
<1>3. Balanced(r, f, x, n, g, y, m)
  <2> SUFFICES ASSUME NEW d \in Dims
               PROVE  /\ uncut' = {} => counter["open"][d] = counter["open"][d] + OpenShare(g, y, r, d) - OpenShare(f, x, r, d)
                      /\ counter["credit"][d] = counter["credit"][d] - CreditShare(g, y, r, d) + CreditShare(f, x, r, d)
                      /\ counter["position"][d] =
                           counter["position"][d] + PositionShare(g, y, r, m, d) - PositionShare(f, x, r, n, d)
    BY DEF Balanced
  <2>1. counter["open"][d] \in Int /\ counter["credit"][d] \in Int /\ counter["position"][d] \in Int
    BY <1>1 DEF Types, Names
  <2>2. OpenShare(f, x, r, d) \in Int /\ CreditShare(f, x, r, d) \in Int /\ PositionShare(f, x, r, n, d) \in Int
    BY <1>2, ShareTypes
  <2> QED BY <2>1, <2>2 DEF Even
<1>4. Checked(r, f, x, g, y)
  BY DEF Checked, Even
<1> QED BY <1>3, <1>4, OneOrder

\* A step of the call about r, or its beginning, that neither adds nor stores.
LEMMA EvenStep ==
  ASSUME LedgerInv, ReservationsFindable, NEW c \in Callers, NEW r \in Refs, NEW f, NEW x, NEW n,
         f = call[c], f.ref = r \/ (f = Idle /\ Quiet(r)), x = Res(r), n = noted[r],
         NEW g \in FrameT, g = Idle \/ g.ref = r, FrameInv(g), Continue(c, g),
         UNCHANGED <<counter, table, used, noted, booked>>, uncut' \in SUBSET Refs, uncut' = {} => uncut = {},
         OrderFits(r, g, x), uncut' = {} => AgreeFits(r, g, x), Even(r, f, x, n, g, x, n)
  PROVE  LedgerInv'
<1>1. Types /\ CallsInv
  BY DEF LedgerInv
<1>2. Frm(r) = f
  BY <1>1, FrameOf, FrameQuiet
<1>3. f \in FrameT /\ x \in Reservation /\ n \in Nat /\ TodoInv(g)
  BY <1>1, <1>2, FrameTypes, HeldFacts DEF Types, FrameInv
<1>4. counter' \in [Names -> [Dims -> Int]] /\ booked' \in [Refs -> Nat] /\ \A e \in Refs : e # r => booked'[e] = booked[e]
  BY <1>1 DEF Types
<1>5. Types' /\ CallsInv' /\ Only(r) /\ Frm(r)' = g /\ Held(r)' = Held(r) /\ Res(r)' = Res(r)
  BY <1>4, CallMoves
<1>6. OrderInv(r)' /\ AgreeInv(r)'
  BY <1>5 DEF OrderInv, AgreeInv, OrderFits, AgreeFits
<1>7. Res(r)' = x /\ noted'[r] = n
  BY <1>5
<1> QED BY <1>2, <1>3, <1>5, <1>6, <1>7, EvenOrder

\* Common to the three shares of a call about r that waits for nothing but its own list.
LEMMA SharesAt ==
  ASSUME NEW f, NEW r, NEW x, NEW n, NEW D, NEW o, NEW K, NEW k, NEW P, NEW m, Owes(f.todo, r, D, o, K, k, P, m), NEW d
  PROVE  /\ OpenShare(f, x, r, d) =
              IF d \in Along(r) THEN Own(x) + OpenDone(f, x, r, d) - (IF d \in D THEN o ELSE 0) ELSE 0
         /\ CreditShare(f, x, r, d) =
              IF d \in Along(r) THEN x.credit + CreditDone(f, x, r, d) + (IF d \in K THEN k ELSE 0) ELSE 0
         /\ PositionShare(f, x, r, n, d) =
              IF d \in Along(r)
              THEN Sign[r] * (IF f.pc = "note" THEN f.volume ELSE n) - (IF d \in P THEN m ELSE 0) ELSE 0
BY DEF OpenShare, CreditShare, PositionShare, Owes

LEMMA FrameOwes ==
  ASSUME NEW pc \in Pcs, NEW r \in Refs, NEW v \in Int, NEW t, NEW g, g = Frame(pc, r, v, t),
         NEW D, NEW o \in Int, NEW K, NEW k \in Int, NEW P, NEW m, Owes(t, r, D, o, K, k, P, m), o <= 0, k >= 0
  PROVE  g \in FrameT /\ g.pc = pc /\ g.ref = r /\ g.volume = v /\ g.at = 1 /\ g.todo = t /\ TodoInv(g)
<1>1. t \in Seq(AddT)
  BY DEF Owes
<1>2. g \in FrameT /\ g.pc = pc /\ g.ref = r /\ g.volume = v /\ g.at = 1 /\ g.todo = t
  BY <1>1 DEF Frame, FrameT
<1>3. g \in FrameT /\ g.ref = r /\ Owes(g.todo, r, D, o, K, k, P, m)
  BY <1>2
<1>4. TodoInv(g)
  BY <1>3, OwesTodo
<1> QED BY <1>2, <1>4

LEMMA FrameEmpty ==
  ASSUME NEW pc \in Pcs, NEW r \in Refs, NEW v \in Int, NEW g, g = Frame(pc, r, v, <<>>)
  PROVE  /\ g \in FrameT /\ g.pc = pc /\ g.ref = r /\ g.volume = v /\ g.at = 1 /\ g.todo = <<>>
         /\ TodoInv(g) /\ Owes(g.todo, r, {}, 0, {}, 0, {}, 0)
<1>1. <<>> \in Seq(AddT)
  OBVIOUS
<1>2. g \in FrameT /\ g.pc = pc /\ g.ref = r /\ g.volume = v /\ g.at = 1 /\ g.todo = <<>>
  BY <1>1 DEF Frame, FrameT
<1>3. TodoInv(g)
  BY <1>2, DueEmpty DEF TodoInv
<1> QED BY <1>2, <1>3, OwesNothing

LEMMA Numbers ==
  ASSUME NEW x \in Reservation, NEW r \in Refs, NEW n \in Nat
  PROVE  /\ Own(x) \in Int /\ x.credit \in Nat /\ x.filled \in Nat /\ x.requested \in Nat
         /\ Own(x) = x.requested - x.filled
         /\ Sign[r] \in {1, -1} /\ Sign[r] * n \in Int
<1>1. Sign[r] \in {1, -1}
  BY LedgerAssumption
<1> QED BY <1>1 DEF Own, Reservation

LEMMA reserve_exposureStep ==
  ASSUME LedgerInv, ReservationsFindable, NEW c \in Callers, reserve_exposure(c)
  PROVE  LedgerInv'
<1>1. PICK f : f = call[c]
  OBVIOUS
<1>2. f.todo = <<>> /\ f.pc \in {"expose", "grow"} /\ f # Idle
  BY <1>1 DEF reserve_exposure, Ready, Idle, Frame
<1>3. PICK r \in Refs : r = f.ref
  BY <1>1, <1>2, ActiveCall
<1>4. f \in FrameT /\ FrameInv(f) /\ Frm(r) = f /\ Res(r) \in Reservation /\ OrderInv(r) /\ AgreeInv(r)
  BY <1>1, <1>2, <1>3, ActiveCall
<1>5. PICK x \in Reservation : x = Res(r)
  BY <1>4
<1>6. PICK v \in Nat \ {0} : v = f.volume
  BY <1>2, <1>4 DEF FrameInv
<1>7. PICK i \in 1 .. Len(Path[r]) : i = f.at
  BY <1>2, <1>3, <1>4 DEF FrameInv
<1>8. Types /\ CallsInv
  BY DEF LedgerInv
<1>9. PICK n \in Nat : n = noted[r]
  BY <1>8 DEF Types
<1>10. PICK p \in Dims : p = Path[r][i]
  BY PathFacts
<1>11. PICK a : a = Add("open", p, v)
  OBVIOUS
<1>11a. a \in AddT /\ a.counter = "open" /\ a.dim = p /\ a.by = v
  BY <1>11 DEF AddT, Add, Names
<1>12. Apply(a) /\ UNCHANGED <<table, used, noted, booked, uncut>>
  BY <1>1, <1>3, <1>6, <1>7, <1>10, <1>11 DEF reserve_exposure, book
<1>13. Owes(f.todo, r, {}, 0, {}, 0, {}, 0)
  BY <1>2, OwesNothing
<1>14. /\ p \in Along(r) /\ First(r, i) \subseteq Along(r) /\ First(r, i) = First(r, i - 1) \cup {p}
       /\ p \notin First(r, i - 1)
  BY <1>10, PathFacts
<1>15. OrderFits(r, f, x) /\ AgreeFits(r, f, x)
  BY <1>4, <1>5 DEF OrderInv, AgreeInv
<1>16. ASSUME NEW d
       PROVE  /\ OpenShare(f, x, r, d) = IF d \in Along(r) THEN Own(x) + (IF d \in First(r, i - 1) THEN v ELSE 0) ELSE 0
              /\ CreditShare(f, x, r, d) = IF d \in Along(r) THEN x.credit ELSE 0
              /\ PositionShare(f, x, r, n, d) = IF d \in Along(r) THEN Sign[r] * n ELSE 0
              /\ OpenKept(f, x, r, d) = OpenShare(f, x, r, d) /\ CreditKept(f, x, r, d) = CreditShare(f, x, r, d)
  <2>1. OpenDone(f, x, r, d) = (IF d \in First(r, i - 1) THEN v ELSE 0) /\ CreditDone(f, x, r, d) = 0
    BY <1>2, <1>6, <1>7 DEF OpenDone, CreditDone, Pcs
  <2>2. /\ OpenShare(f, x, r, d) = IF d \in Along(r) THEN Own(x) + OpenDone(f, x, r, d) - (IF d \in {} THEN 0 ELSE 0) ELSE 0
        /\ CreditShare(f, x, r, d) = IF d \in Along(r) THEN x.credit + CreditDone(f, x, r, d) + (IF d \in {} THEN 0 ELSE 0) ELSE 0
        /\ PositionShare(f, x, r, n, d) =
             IF d \in Along(r) THEN Sign[r] * (IF f.pc = "note" THEN f.volume ELSE n) - (IF d \in {} THEN 0 ELSE 0) ELSE 0
    BY <1>13, SharesAt
  <2>3. Own(x) \in Int /\ x.credit \in Nat /\ Sign[r] * n \in Int
    BY Numbers
  <2>4. f.pc # "note" /\ f.pc # "idle"
    BY <1>2
  <2> QED BY <2>1, <2>2, <2>3, <2>4 DEF OpenKept, CreditKept

<1> DEFINE Good(g, D, o) ==
      /\ g \in FrameT /\ g.ref = r /\ FrameInv(g) /\ Continue(c, g) /\ OrderFits(r, g, x) /\ AgreeFits(r, g, x)
      /\ g.pc # "note" /\ o \in Int /\ Owes(g.todo, r, D, o, {}, 0, {}, 0)
      /\ \A d \in Along(r) : /\ OpenDone(g, x, r, d) - (IF d \in D THEN o ELSE 0) = IF d \in First(r, i) THEN v ELSE 0
                             /\ CreditDone(g, x, r, d) = 0 /\ OpenDone(g, x, r, d) \in Int
      /\ g.pc = "idle" \/ counter["open"][p] + v <= OpenLimit[p]
<1>17. \E g, D, o : Good(g, D, o)
  <2>1. CASE OverLimit(p, counter.open[p], v)
    <3>1. PICK t : t = Retract("open", r, -v, i)
      OBVIOUS
    <3>2. PICK g : g = Frame("idle", r, 0, t)
      OBVIOUS
    <3>3. Continue(c, g)
      BY <1>1, <1>3, <1>6, <1>7, <1>10, <2>1, <3>1, <3>2 DEF reserve_exposure, GiveUp
    <3>4. Same(t, r, "open", First(r, i), -v) /\ t # <<>>
      BY <3>1, SameRetract DEF Names
    <3>5. Owes(t, r, First(r, i), -v, {}, 0, {}, 0) /\ t \in Seq(AddT)
      BY <1>14, <3>4, OwesOpen DEF Same
    <3>6. g \in FrameT /\ g.pc = "idle" /\ g.ref = r /\ g.volume = 0 /\ g.at = 1 /\ g.todo = t /\ TodoInv(g)
      <4>1. PICK o \in Int : o = -v /\ o <= 0
        OBVIOUS
      <4>2. Owes(t, r, First(r, i), o, {}, 0, {}, 0)
        BY <3>5, <4>1
      <4>3. "idle" \in Pcs
        BY DEF Pcs
      <4> QED BY <3>2, <4>1, <4>2, <4>3, FrameOwes
    <3>8. FrameInv(g)
      BY <3>4, <3>6, LedgerAssumption DEF FrameInv
    <3>9. OrderFits(r, g, x) /\ AgreeFits(r, g, x)
      BY <1>2, <1>15, <3>6 DEF OrderFits, AgreeFits
    <3>10. \A d : OpenDone(g, x, r, d) = 0 /\ CreditDone(g, x, r, d) = 0
      BY <3>6 DEF OpenDone, CreditDone, Pcs
    <3>11. Good(g, First(r, i), -v)
      BY <3>3, <3>5, <3>6, <3>8, <3>9, <3>10
    <3> QED BY <3>11
  <2>2. CASE ~OverLimit(p, counter.open[p], v) /\ i < Len(Path[r])
    <3>1. PICK g : g = [f EXCEPT !.at = f.at + 1]
      OBVIOUS
    <3>2. Continue(c, g)
      BY <1>1, <1>3, <1>6, <1>7, <1>10, <2>2, <3>1 DEF reserve_exposure
    <3>3. g \in FrameT /\ g.pc = f.pc /\ g.ref = r /\ g.volume = v /\ g.at = i + 1 /\ g.todo = <<>>
      BY <1>2, <1>3, <1>4, <1>6, <1>7, <3>1 DEF FrameT
    <3>4. i + 1 \in 1 .. Len(Path[r]) /\ g.at - 1 = i
      BY <2>2, <3>3, PathFacts
    <3>5. TodoInv(g)
      BY <3>3, DueEmpty DEF TodoInv
    <3>6. FrameInv(g)
      BY <1>2, <3>3, <3>4, <3>5, LedgerAssumption DEF FrameInv
    <3>7. OrderFits(r, g, x) /\ AgreeFits(r, g, x)
      BY <1>2, <1>15, <3>3 DEF OrderFits, AgreeFits
    <3>8. \A d : OpenDone(g, x, r, d) = (IF d \in First(r, i) THEN v ELSE 0) /\ CreditDone(g, x, r, d) = 0
      BY <1>2, <3>3, <3>4 DEF OpenDone, CreditDone, Pcs
    <3>9. Owes(g.todo, r, {}, 0, {}, 0, {}, 0)
      BY <3>3, OwesNothing
    <3>10. counter["open"][p] + v <= OpenLimit[p]
      BY <1>8, <2>2, LedgerAssumption DEF OverLimit, Types, Names
    <3>11. Good(g, {}, 0)
      BY <1>2, <3>2, <3>3, <3>6, <3>7, <3>8, <3>9, <3>10
    <3> QED BY <3>11
  <2>3. CASE ~OverLimit(p, counter.open[p], v) /\ i = Len(Path[r])
    <3>1. PICK q \in Pcs : q = IF f.pc = "expose" THEN "credit" ELSE "resize"
      BY DEF Pcs
    <3>2. PICK g : g = Frame(q, r, v, <<>>)
      OBVIOUS
    <3>3. Continue(c, g)
      BY <1>1, <1>3, <1>6, <1>7, <1>10, <2>3, <3>1, <3>2 DEF reserve_exposure
    <3>4. g \in FrameT /\ g.pc = q /\ g.ref = r /\ g.volume = v /\ g.at = 1 /\ g.todo = <<>>
      BY <3>2, FrameEmpty
    <3>5. TodoInv(g)
      BY <3>4, DueEmpty DEF TodoInv
    <3>6. FrameInv(g)
      BY <3>1, <3>4, <3>5, LedgerAssumption, PathFacts DEF FrameInv
    <3>7. x.requested + v \in Nat /\ x.requested + v > x.requested
      BY Numbers
    <3>8. OrderFits(r, g, x)
      BY <1>2, <1>15, <3>1, <3>4, <3>7 DEF OrderFits
    <3>9. AgreeFits(r, g, x)
      <4>1. noted[r] \in Nat /\ booked[r] \in Nat /\ x.requested \in Nat
        BY <1>8, Numbers DEF Types
      <4> QED BY <1>2, <1>15, <3>1, <3>4, <3>7, <4>1 DEF AgreeFits
    <3>10. \A d \in Along(r) : d \in First(r, i)
      BY <2>3, PathFacts
    <3>11. \A d : OpenDone(g, x, r, d) = v /\ CreditDone(g, x, r, d) = 0
      <4>1. First(r, 1 - 1) = {}
        BY PathFacts
      <4> QED BY <3>1, <3>4, <4>1 DEF OpenDone, CreditDone, Pcs
    <3>12. Owes(g.todo, r, {}, 0, {}, 0, {}, 0)
      BY <3>4, OwesNothing
    <3>13. counter["open"][p] + v <= OpenLimit[p]
      BY <1>8, <2>3, LedgerAssumption DEF OverLimit, Types, Names
    <3>14. Good(g, {}, 0)
      BY <3>1, <3>3, <3>4, <3>6, <3>8, <3>9, <3>10, <3>11, <3>12, <3>13
    <3> QED BY <3>14
  <2>4. i <= Len(Path[r])
    BY PathFacts
  <2> QED BY <2>1, <2>2, <2>3, <2>4, PathFacts
<1>18. PICK g, D, o : Good(g, D, o)
  BY <1>17
<1>19. ASSUME NEW d
       PROVE  /\ OpenShare(g, x, r, d) = IF d \in Along(r) THEN Own(x) + (IF d \in First(r, i) THEN v ELSE 0) ELSE 0
              /\ CreditShare(g, x, r, d) = IF d \in Along(r) THEN x.credit ELSE 0
              /\ PositionShare(g, x, r, n, d) = IF d \in Along(r) THEN Sign[r] * n ELSE 0
              /\ OpenKept(g, x, r, d) = OpenShare(g, x, r, d) \/ OpenKept(g, x, r, d) <= OpenShare(f, x, r, d)
              /\ CreditKept(g, x, r, d) = CreditShare(g, x, r, d)
  <2>1. /\ OpenShare(g, x, r, d) = IF d \in Along(r) THEN Own(x) + OpenDone(g, x, r, d) - (IF d \in D THEN o ELSE 0) ELSE 0
        /\ CreditShare(g, x, r, d) = IF d \in Along(r) THEN x.credit + CreditDone(g, x, r, d) + (IF d \in {} THEN 0 ELSE 0) ELSE 0
        /\ PositionShare(g, x, r, n, d) =
             IF d \in Along(r) THEN Sign[r] * (IF g.pc = "note" THEN g.volume ELSE n) - (IF d \in {} THEN 0 ELSE 0) ELSE 0
    <3>1. Owes(g.todo, r, D, o, {}, 0, {}, 0)
      BY <1>18
    <3> HIDE DEF Good
    <3> QED BY <3>1, SharesAt
  <2>2. Own(x) \in Int /\ x.credit \in Nat /\ Sign[r] * n \in Int
    BY Numbers
  <2>3. d \in Along(r) => Own(x) + OpenDone(g, x, r, d) - (IF d \in D THEN o ELSE 0) = Own(x) + (IF d \in First(r, i) THEN v ELSE 0)
    BY <1>18, <2>2
  <2>4. /\ OpenShare(g, x, r, d) = IF d \in Along(r) THEN Own(x) + (IF d \in First(r, i) THEN v ELSE 0) ELSE 0
        /\ CreditShare(g, x, r, d) = IF d \in Along(r) THEN x.credit ELSE 0
        /\ PositionShare(g, x, r, n, d) = IF d \in Along(r) THEN Sign[r] * n ELSE 0
    BY <1>18, <2>1, <2>2, <2>3
  <2> QED BY <1>16, <2>2, <2>4 DEF OpenKept, CreditKept
<1>20. AddsUp(a, r, f, x, n, g)
  <2> SUFFICES ASSUME NEW d \in Dims
               PROVE  /\ OpenShare(g, x, r, d) = OpenShare(f, x, r, d) + (IF d = p THEN v ELSE 0)
                      /\ CreditShare(g, x, r, d) = CreditShare(f, x, r, d) - 0
                      /\ PositionShare(g, x, r, n, d) = PositionShare(f, x, r, n, d) + 0
    BY <1>11a DEF AddsUp
  <2>1. Own(x) \in Int /\ x.credit \in Nat /\ Sign[r] * n \in Int
    BY Numbers
  <2>2. PICK s \in Int : s = Sign[r] * n
    BY <2>1
  <2> QED BY <1>14, <1>16, <1>19, <2>1, <2>2
<1>21. Checked(r, f, x, g, x)
  <2> SUFFICES ASSUME NEW d \in Dims
               PROVE  /\ \/ OpenKept(g, x, r, d) <= OpenKept(f, x, r, d)
                         \/ counter["open"][d] + OpenKept(g, x, r, d) - OpenKept(f, x, r, d) <= OpenLimit[d]
                      /\ CreditKept(g, x, r, d) <= CreditKept(f, x, r, d)
    BY DEF Checked
  <2>1. counter["open"][d] \in Int /\ OpenLimit[d] \in Int /\ Own(x) \in Int /\ x.credit \in Nat
    BY <1>8, Numbers, LedgerAssumption DEF Types, Names
  <2>2. CreditKept(g, x, r, d) <= CreditKept(f, x, r, d)
    BY <1>16, <1>19, <2>1
  <2>3. CASE d # p \/ OpenKept(g, x, r, d) <= OpenShare(f, x, r, d)
    BY <1>14, <1>16, <1>19, <2>1, <2>2, <2>3
  <2>4. CASE d = p /\ OpenKept(g, x, r, d) = OpenShare(g, x, r, d) /\ g.pc # "idle"
    BY <1>14, <1>16, <1>18, <1>19, <2>1, <2>2, <2>4
  <2>5. CASE g.pc = "idle"
    BY <1>16, <2>1, <2>2, <2>5 DEF OpenKept
  <2> QED BY <1>19, <2>3, <2>4, <2>5
<1> HIDE DEF Good
<1>22. /\ g \in FrameT /\ g.ref = r /\ FrameInv(g) /\ Continue(c, g) /\ OrderFits(r, g, x) /\ AgreeFits(r, g, x)
  BY <1>18 DEF Good
<1> QED BY <1>1, <1>2, <1>3, <1>5, <1>9, <1>11a, <1>12, <1>20, <1>21, <1>22, AddStep

LEMMA reserve_creditStep ==
  ASSUME LedgerInv, ReservationsFindable, NEW c \in Callers, reserve_credit(c)
  PROVE  LedgerInv'
<1>1. PICK f : f = call[c]
  OBVIOUS
<1>2. f.todo = <<>> /\ f.pc = "credit" /\ f # Idle
  BY <1>1 DEF reserve_credit, Ready, Idle, Frame
<1>3. PICK r \in Refs : r = f.ref
  BY <1>1, <1>2, ActiveCall
<1>4. f \in FrameT /\ FrameInv(f) /\ Frm(r) = f /\ Res(r) \in Reservation /\ OrderInv(r) /\ AgreeInv(r)
  BY <1>1, <1>2, <1>3, ActiveCall
<1>5. PICK x \in Reservation : x = Res(r)
  BY <1>4
<1>6. PICK v \in Nat \ {0} : v = f.volume
  BY <1>2, <1>4 DEF FrameInv
<1>7. PICK i \in 1 .. Len(Path[r]) : i = f.at
  BY <1>2, <1>3, <1>4 DEF FrameInv
<1>8. Types /\ CallsInv
  BY DEF LedgerInv
<1>9. PICK n \in Nat : n = noted[r]
  BY <1>8 DEF Types
<1>10. PICK p \in Dims : p = Path[r][i]
  BY PathFacts
<1>11. PICK a : a = Add("credit", p, -v)
  OBVIOUS
<1>11a. a \in AddT /\ a.counter = "credit" /\ a.dim = p /\ a.by = -v
  BY <1>11 DEF AddT, Add, Names
<1>12. Apply(a) /\ UNCHANGED <<table, used, noted, booked, uncut>>
  BY <1>1, <1>3, <1>6, <1>7, <1>10, <1>11 DEF reserve_credit, book
<1>13. Owes(f.todo, r, {}, 0, {}, 0, {}, 0)
  BY <1>2, OwesNothing
<1>14. /\ p \in Along(r) /\ First(r, i) \subseteq Along(r) /\ First(r, i) = First(r, i - 1) \cup {p}
       /\ p \notin First(r, i - 1)
  BY <1>10, PathFacts
<1>15. OrderFits(r, f, x) /\ AgreeFits(r, f, x)
  BY <1>4, <1>5 DEF OrderInv, AgreeInv
<1>16. ASSUME NEW d
       PROVE  /\ OpenShare(f, x, r, d) = IF d \in Along(r) THEN Own(x) + v ELSE 0
              /\ CreditShare(f, x, r, d) = IF d \in Along(r) THEN x.credit + (IF d \in First(r, i - 1) THEN v ELSE 0) ELSE 0
              /\ PositionShare(f, x, r, n, d) = IF d \in Along(r) THEN Sign[r] * n ELSE 0
              /\ OpenKept(f, x, r, d) = OpenShare(f, x, r, d) /\ CreditKept(f, x, r, d) = CreditShare(f, x, r, d)
  <2>1. CreditDone(f, x, r, d) = (IF d \in First(r, i - 1) THEN v ELSE 0) /\ OpenDone(f, x, r, d) = v
    BY <1>2, <1>6, <1>7 DEF OpenDone, CreditDone, Pcs
  <2>2. /\ OpenShare(f, x, r, d) = IF d \in Along(r) THEN Own(x) + OpenDone(f, x, r, d) - (IF d \in {} THEN 0 ELSE 0) ELSE 0
        /\ CreditShare(f, x, r, d) = IF d \in Along(r) THEN x.credit + CreditDone(f, x, r, d) + (IF d \in {} THEN 0 ELSE 0) ELSE 0
        /\ PositionShare(f, x, r, n, d) =
             IF d \in Along(r) THEN Sign[r] * (IF f.pc = "note" THEN f.volume ELSE n) - (IF d \in {} THEN 0 ELSE 0) ELSE 0
    BY <1>13, SharesAt
  <2>3. Own(x) \in Int /\ x.credit \in Nat /\ Sign[r] * n \in Int
    BY Numbers
  <2>4. f.pc # "note" /\ f.pc # "idle"
    BY <1>2
  <2> QED BY <2>1, <2>2, <2>3, <2>4 DEF OpenKept, CreditKept
<1> DEFINE Good(g, D, o, K, k) ==
      /\ g \in FrameT /\ g.ref = r /\ FrameInv(g) /\ Continue(c, g) /\ OrderFits(r, g, x) /\ AgreeFits(r, g, x)
      /\ g.pc # "note" /\ o \in Int /\ k \in Int /\ Owes(g.todo, r, D, o, K, k, {}, 0)
      /\ \A d \in Along(r) : /\ OpenDone(g, x, r, d) - (IF d \in D THEN o ELSE 0) = v /\ OpenDone(g, x, r, d) \in Int
                             /\ CreditDone(g, x, r, d) + (IF d \in K THEN k ELSE 0) = IF d \in First(r, i) THEN v ELSE 0
                             /\ CreditDone(g, x, r, d) \in Int
      /\ g.pc = "idle" \/ v <= counter["credit"][p]
<1>17. \E g, D, o, K, k : Good(g, D, o, K, k)
  <2>0. counter["credit"][p] \in Int
    BY <1>8 DEF Types, Names
  <2>1. CASE counter["credit"][p] - v < 0
    <3>1. PICK u, t, w : u = Retract("credit", r, v, i) /\ t = Everywhere("open", r, -v) /\ w = u \o t
      OBVIOUS
    <3>2. PICK g : g = Frame("idle", r, 0, w)
      OBVIOUS
    <3>3. Continue(c, g)
      BY <1>1, <1>3, <1>6, <1>7, <1>10, <2>1, <3>1, <3>2 DEF reserve_credit, GiveUp
    <3>4. Same(u, r, "credit", First(r, i), v) /\ u # <<>>
      BY <3>1, SameRetract DEF Names
    <3>5. PICK o \in Int : o = -v /\ o <= 0
      OBVIOUS
    <3>6. PICK A : A = Along(r)
      OBVIOUS
    <3>7. Same(t, r, "open", A, o)
      BY <3>1, <3>5, <3>6, SameEverywhere DEF Names
    <3>8. Owes(w, r, A, o, First(r, i), v, {}, 0) /\ w # <<>>
      <4>1. Joined(w, u, t)
        BY <3>1 DEF Joined
      <4>2. OneOfEach(u, t, t, u)
        BY DEF OneOfEach
      <4>3. A \subseteq Along(r)
        BY <3>6
      <4>4. First(r, i) \subseteq Along(r) /\ v \in Int
        BY <1>14
      <4> QED BY <3>4, <3>5, <3>7, <4>1, <4>2, <4>3, <4>4, OwesBoth
    <3>9. g \in FrameT /\ g.pc = "idle" /\ g.ref = r /\ g.volume = 0 /\ g.at = 1 /\ g.todo = w /\ TodoInv(g)
      <4>1. "idle" \in Pcs
        BY DEF Pcs
      <4>2. Owes(w, r, A, o, First(r, i), v, {}, 0) /\ v \in Int /\ v >= 0
        BY <3>8
      <4> QED BY <3>2, <3>5, <4>1, <4>2, FrameOwes
    <3>10. FrameInv(g)
      BY <3>8, <3>9, LedgerAssumption DEF FrameInv
    <3>11. OrderFits(r, g, x) /\ AgreeFits(r, g, x)
      BY <1>2, <1>15, <3>9 DEF OrderFits, AgreeFits
    <3>12. \A d : OpenDone(g, x, r, d) = 0 /\ CreditDone(g, x, r, d) = 0
      BY <3>9 DEF OpenDone, CreditDone, Pcs
    <3>13. Good(g, A, o, First(r, i), v)
      BY <3>3, <3>5, <3>6, <3>8, <3>9, <3>10, <3>11, <3>12
    <3> HIDE DEF Good
    <3> QED BY <3>13
  <2>2. CASE ~(counter["credit"][p] - v < 0) /\ i < Len(Path[r])
    <3>1. PICK g : g = [f EXCEPT !.at = f.at + 1]
      OBVIOUS
    <3>2. Continue(c, g)
      BY <1>1, <1>3, <1>6, <1>7, <1>10, <2>2, <3>1 DEF reserve_credit
    <3>3. g \in FrameT /\ g.pc = f.pc /\ g.ref = r /\ g.volume = v /\ g.at = i + 1 /\ g.todo = <<>>
      BY <1>2, <1>3, <1>4, <1>6, <1>7, <3>1 DEF FrameT
    <3>4. i + 1 \in 1 .. Len(Path[r]) /\ g.at - 1 = i
      BY <2>2, <3>3, PathFacts
    <3>5. TodoInv(g)
      BY <3>3, DueEmpty DEF TodoInv
    <3>6. FrameInv(g)
      BY <1>2, <3>3, <3>4, <3>5, LedgerAssumption DEF FrameInv
    <3>7. OrderFits(r, g, x) /\ AgreeFits(r, g, x)
      BY <1>2, <1>15, <3>3 DEF OrderFits, AgreeFits
    <3>8. \A d : CreditDone(g, x, r, d) = (IF d \in First(r, i) THEN v ELSE 0) /\ OpenDone(g, x, r, d) = v
      BY <1>2, <3>3, <3>4 DEF OpenDone, CreditDone, Pcs
    <3>9. Owes(g.todo, r, {}, 0, {}, 0, {}, 0)
      BY <3>3, OwesNothing
    <3>10. v <= counter["credit"][p]
      BY <2>0, <2>2
    <3>11. Good(g, {}, 0, {}, 0)
      BY <1>2, <3>2, <3>3, <3>6, <3>7, <3>8, <3>9, <3>10
    <3> HIDE DEF Good
    <3> QED BY <3>11
  <2>3. CASE ~(counter["credit"][p] - v < 0) /\ i = Len(Path[r])
    <3>1. "store" \in Pcs
      BY DEF Pcs
    <3>2. PICK g : g = Frame("store", r, v, <<>>)
      OBVIOUS
    <3>3. Continue(c, g)
      BY <1>1, <1>3, <1>6, <1>7, <1>10, <2>3, <3>2 DEF reserve_credit
    <3>4. /\ g \in FrameT /\ g.pc = "store" /\ g.ref = r /\ g.volume = v /\ g.at = 1 /\ g.todo = <<>>
          /\ TodoInv(g) /\ Owes(g.todo, r, {}, 0, {}, 0, {}, 0)
      BY <3>1, <3>2, FrameEmpty
    <3>6. FrameInv(g)
      BY <3>4, LedgerAssumption DEF FrameInv
    <3>7. OrderFits(r, g, x) /\ AgreeFits(r, g, x)
      BY <1>2, <1>15, <3>4 DEF OrderFits, AgreeFits
    <3>10. \A d \in Along(r) : d \in First(r, i)
      BY <2>3, PathFacts
    <3>11. \A d : OpenDone(g, x, r, d) = v /\ CreditDone(g, x, r, d) = v
      BY <3>4 DEF OpenDone, CreditDone, Pcs
    <3>13. v <= counter["credit"][p]
      BY <2>0, <2>3
    <3>14. Good(g, {}, 0, {}, 0)
      BY <3>3, <3>4, <3>6, <3>7, <3>10, <3>11, <3>13
    <3> HIDE DEF Good
    <3> QED BY <3>14
  <2>4. i <= Len(Path[r])
    BY PathFacts
  <2> QED BY <2>1, <2>2, <2>3, <2>4, PathFacts
<1>18. PICK g, D, o, K, k : Good(g, D, o, K, k)
  BY <1>17
<1>19. ASSUME NEW d
       PROVE  /\ OpenShare(g, x, r, d) = IF d \in Along(r) THEN Own(x) + v ELSE 0
              /\ CreditShare(g, x, r, d) = IF d \in Along(r) THEN x.credit + (IF d \in First(r, i) THEN v ELSE 0) ELSE 0
              /\ PositionShare(g, x, r, n, d) = IF d \in Along(r) THEN Sign[r] * n ELSE 0
              /\ OpenKept(g, x, r, d) <= OpenShare(f, x, r, d)
              /\ CreditKept(g, x, r, d) = CreditShare(g, x, r, d) \/ CreditKept(g, x, r, d) <= CreditShare(f, x, r, d)
  <2>1. /\ OpenShare(g, x, r, d) = IF d \in Along(r) THEN Own(x) + OpenDone(g, x, r, d) - (IF d \in D THEN o ELSE 0) ELSE 0
        /\ CreditShare(g, x, r, d) = IF d \in Along(r) THEN x.credit + CreditDone(g, x, r, d) + (IF d \in K THEN k ELSE 0) ELSE 0
        /\ PositionShare(g, x, r, n, d) =
             IF d \in Along(r) THEN Sign[r] * (IF g.pc = "note" THEN g.volume ELSE n) - (IF d \in {} THEN 0 ELSE 0) ELSE 0
    <3>1. Owes(g.todo, r, D, o, K, k, {}, 0)
      BY <1>18
    <3> HIDE DEF Good
    <3> QED BY <3>1, SharesAt
  <2>2. Own(x) \in Int /\ x.credit \in Nat /\ Sign[r] * n \in Int
    BY Numbers
  <2>3. d \in Along(r) =>
          /\ Own(x) + OpenDone(g, x, r, d) - (IF d \in D THEN o ELSE 0) = Own(x) + v
          /\ x.credit + CreditDone(g, x, r, d) + (IF d \in K THEN k ELSE 0) = x.credit + (IF d \in First(r, i) THEN v ELSE 0)
    BY <1>18, <2>2
  <2>4. /\ OpenShare(g, x, r, d) = IF d \in Along(r) THEN Own(x) + v ELSE 0
        /\ CreditShare(g, x, r, d) = IF d \in Along(r) THEN x.credit + (IF d \in First(r, i) THEN v ELSE 0) ELSE 0
        /\ PositionShare(g, x, r, n, d) = IF d \in Along(r) THEN Sign[r] * n ELSE 0
    BY <1>18, <2>1, <2>2, <2>3
  <2> QED BY <1>16, <2>2, <2>4 DEF OpenKept, CreditKept
<1>20. AddsUp(a, r, f, x, n, g)
  <2> SUFFICES ASSUME NEW d \in Dims
               PROVE  /\ OpenShare(g, x, r, d) = OpenShare(f, x, r, d) + 0
                      /\ CreditShare(g, x, r, d) = CreditShare(f, x, r, d) - (IF d = p THEN -v ELSE 0)
                      /\ PositionShare(g, x, r, n, d) = PositionShare(f, x, r, n, d) + 0
    BY <1>11a DEF AddsUp
  <2>1. Own(x) \in Int /\ x.credit \in Nat /\ Sign[r] * n \in Int
    BY Numbers
  <2>2. PICK s \in Int : s = Sign[r] * n
    BY <2>1
  <2> QED BY <1>14, <1>16, <1>19, <2>1, <2>2
<1>21. Checked(r, f, x, g, x)
  <2> SUFFICES ASSUME NEW d \in Dims
               PROVE  /\ OpenKept(g, x, r, d) <= OpenKept(f, x, r, d)
                      /\ \/ CreditKept(g, x, r, d) <= CreditKept(f, x, r, d)
                         \/ CreditKept(g, x, r, d) - CreditKept(f, x, r, d) <= counter["credit"][d]
    BY DEF Checked
  <2>1. counter["credit"][d] \in Int /\ Own(x) \in Int /\ x.credit \in Nat
    BY <1>8, Numbers DEF Types, Names
  <2>2. OpenKept(g, x, r, d) <= OpenKept(f, x, r, d)
    BY <1>16, <1>19, <2>1
  <2>3. CASE d # p \/ CreditKept(g, x, r, d) <= CreditShare(f, x, r, d)
    BY <1>14, <1>16, <1>19, <2>1, <2>2, <2>3
  <2>4. CASE d = p /\ CreditKept(g, x, r, d) = CreditShare(g, x, r, d) /\ g.pc # "idle"
    BY <1>14, <1>16, <1>18, <1>19, <2>1, <2>2, <2>4
  <2>5. CASE g.pc = "idle"
    BY <1>16, <2>1, <2>2, <2>5 DEF CreditKept
  <2> QED BY <1>19, <2>3, <2>4, <2>5
<1> HIDE DEF Good
<1>22. /\ g \in FrameT /\ g.ref = r /\ FrameInv(g) /\ Continue(c, g) /\ OrderFits(r, g, x) /\ AgreeFits(r, g, x)
  BY <1>18 DEF Good
<1> QED BY <1>1, <1>2, <1>3, <1>5, <1>9, <1>11a, <1>12, <1>20, <1>21, <1>22, AddStep

-----------------------------------------------------------------------------
(* Beginning a call, and giving one up. *)

LEMMA BeginCall ==
  ASSUME LedgerInv, ReservationsFindable, NEW c \in Callers, NEW r \in Refs, Ready(c, "idle"), Quiet(r)
  PROVE  /\ call[c] = Idle /\ Frm(r) = Idle /\ Res(r) \in Reservation
         /\ OrderFits(r, Idle, Res(r)) /\ AgreeFits(r, Idle, Res(r))
         /\ noted[r] \in Nat /\ booked[r] \in Nat
         /\ Reserved(r) => Of(r) = Res(r) /\ Held(r) # {} /\ Res(r).ref = r
<1>1. Types /\ CallsInv /\ OrderInv(r) /\ AgreeInv(r)
  BY DEF LedgerInv
<1>2. Frm(r) = Idle
  BY FrameQuiet
<1>3. call[c] = Idle
  BY <1>1 DEF CallsInv, FrameInv, Ready
<1>4. ASSUME Reserved(r) PROVE Of(r) = Res(r) /\ Held(r) # {} /\ Res(r).ref = r
  <2>1. Of(r) = Res(r) /\ Held(r) = {probe(r)} /\ Res(r) = table[probe(r)]
    BY <1>1, <1>4, HeldFacts
  <2> QED BY <2>1 DEF Held
<1>5. Res(r) \in Reservation /\ noted[r] \in Nat /\ booked[r] \in Nat
  BY <1>1, HeldFacts DEF Types
<1> QED BY <1>1, <1>2, <1>3, <1>4, <1>5 DEF OrderInv, AgreeInv

\* What the call g has done, or is going to write, is what it owes.
Matched(r, f, x, n, g, A, o, B, k, P, m) == \A d \in Along(r) :
  /\ OpenDone(g, x, r, d) = OpenDone(f, x, r, d) + (IF d \in A THEN o ELSE 0)
  /\ CreditDone(g, x, r, d) = CreditDone(f, x, r, d) - (IF d \in B THEN k ELSE 0)
  /\ Sign[r] * (IF g.pc = "note" THEN g.volume ELSE n) = Sign[r] * n + (IF d \in P THEN m ELSE 0)

LEMMA EvenBy ==
  ASSUME NEW r \in Refs, NEW x \in Reservation, NEW n \in Nat, NEW f, NEW g, f.pc \in {"idle", "asked", "store"},
         Owes(f.todo, r, {}, 0, {}, 0, {}, 0), f.pc = "store" => f.volume \in Nat,
         NEW A, NEW o \in Int, NEW B, NEW k \in Int, NEW P, NEW m \in Int, Owes(g.todo, r, A, o, B, k, P, m),
         Matched(r, f, x, n, g, A, o, B, k, P, m)
  PROVE  Even(r, f, x, n, g, x, n)
<1> SUFFICES ASSUME NEW d \in Dims
             PROVE  /\ OpenShare(g, x, r, d) = OpenShare(f, x, r, d)
                    /\ OpenKept(g, x, r, d) <= OpenKept(f, x, r, d)
                    /\ CreditShare(g, x, r, d) = CreditShare(f, x, r, d)
                    /\ CreditKept(g, x, r, d) <= CreditKept(f, x, r, d)
                    /\ PositionShare(g, x, r, n, d) = PositionShare(f, x, r, n, d)
  BY DEF Even
<1>1. /\ OpenShare(f, x, r, d) = IF d \in Along(r) THEN Own(x) + OpenDone(f, x, r, d) - (IF d \in {} THEN 0 ELSE 0) ELSE 0
      /\ CreditShare(f, x, r, d) = IF d \in Along(r) THEN x.credit + CreditDone(f, x, r, d) + (IF d \in {} THEN 0 ELSE 0) ELSE 0
      /\ PositionShare(f, x, r, n, d) =
           IF d \in Along(r) THEN Sign[r] * (IF f.pc = "note" THEN f.volume ELSE n) - (IF d \in {} THEN 0 ELSE 0) ELSE 0
  BY SharesAt
<1>2. /\ OpenShare(g, x, r, d) = IF d \in Along(r) THEN Own(x) + OpenDone(g, x, r, d) - (IF d \in A THEN o ELSE 0) ELSE 0
      /\ CreditShare(g, x, r, d) = IF d \in Along(r) THEN x.credit + CreditDone(g, x, r, d) + (IF d \in B THEN k ELSE 0) ELSE 0
      /\ PositionShare(g, x, r, n, d) =
           IF d \in Along(r) THEN Sign[r] * (IF g.pc = "note" THEN g.volume ELSE n) - (IF d \in P THEN m ELSE 0) ELSE 0
  BY SharesAt
<1>3. Own(x) \in Int /\ x.credit \in Nat /\ Sign[r] * n \in Int
  BY Numbers
<1>4. OpenDone(f, x, r, d) \in Int /\ CreditDone(f, x, r, d) \in Int /\ OpenDone(f, x, r, d) >= 0 /\ CreditDone(f, x, r, d) >= 0
      /\ (f.pc = "idle" => OpenDone(f, x, r, d) = 0 /\ CreditDone(f, x, r, d) = 0) /\ f.pc # "note"
  BY DEF OpenDone, CreditDone, Pcs
<1>5. OpenShare(g, x, r, d) = OpenShare(f, x, r, d)
  BY <1>1, <1>2, <1>3, <1>4 DEF Matched
<1>6. CreditShare(g, x, r, d) = CreditShare(f, x, r, d)
  BY <1>1, <1>2, <1>3, <1>4 DEF Matched
<1>7. PositionShare(g, x, r, n, d) = PositionShare(f, x, r, n, d)
  <2>1. PICK s \in Int : s = Sign[r] * n
    BY <1>3
  <2>2. PICK w : w = Sign[r] * (IF g.pc = "note" THEN g.volume ELSE n)
    OBVIOUS
  <2>3. d \in Along(r) => w = s + (IF d \in P THEN m ELSE 0)
    BY <2>1, <2>2 DEF Matched
  <2> QED BY <1>1, <1>2, <1>4, <2>1, <2>2, <2>3
<1>8. OpenShare(f, x, r, d) = IF d \in Along(r) THEN Own(x) + OpenDone(f, x, r, d) ELSE 0
  BY <1>1, <1>3, <1>4
<1>9. CreditShare(f, x, r, d) = IF d \in Along(r) THEN x.credit + CreditDone(f, x, r, d) ELSE 0
  BY <1>1, <1>3, <1>4
<1>10. OpenKept(g, x, r, d) <= OpenKept(f, x, r, d)
  BY <1>3, <1>4, <1>5, <1>8 DEF OpenKept
<1>11. CreditKept(g, x, r, d) <= CreditKept(f, x, r, d)
  BY <1>3, <1>4, <1>6, <1>9 DEF CreditKept
<1> QED BY <1>5, <1>6, <1>7, <1>10, <1>11

LEMMA reserveStep ==
  ASSUME LedgerInv, ReservationsFindable, NEW c \in Callers, NEW r \in Refs, NEW v \in Volumes, reserve(c, r, v)
  PROVE  LedgerInv'
<1>1. Ready(c, "idle") /\ Quiet(r) /\ r \notin used /\ UNCHANGED <<counter, table, used, noted, booked, uncut>>
  BY DEF reserve, book
<1>2. v \in Nat \ {0}
  BY LedgerAssumption
<1>3. PICK g : g = Frame("expose", r, v, <<>>)
  OBVIOUS
<1>4. /\ g \in FrameT /\ g.pc = "expose" /\ g.ref = r /\ g.volume = v /\ g.at = 1 /\ g.todo = <<>>
      /\ TodoInv(g) /\ Owes(g.todo, r, {}, 0, {}, 0, {}, 0)
  <2>1. "expose" \in Pcs
    BY DEF Pcs
  <2> QED BY <1>2, <1>3, <2>1, FrameEmpty
<1>5. Continue(c, g)
  BY <1>3 DEF reserve
<1>6. PICK x \in Reservation : x = Res(r)
  BY <1>1, BeginCall
<1>7. PICK n \in Nat : n = noted[r]
  BY <1>1, BeginCall
<1>8. call[c] = Idle /\ OrderFits(r, Idle, x) /\ AgreeFits(r, Idle, x)
  BY <1>1, <1>6, BeginCall
<1>9. FrameInv(g)
  BY <1>2, <1>4, PathFacts, LedgerAssumption DEF FrameInv
<1>10. OrderFits(r, g, x) /\ AgreeFits(r, g, x)
  BY <1>1, <1>4, <1>8 DEF OrderFits, AgreeFits
<1>11. PICK f : f = Idle
  OBVIOUS
<1>12. Owes(f.todo, r, {}, 0, {}, 0, {}, 0) /\ f.pc = "idle" /\ f.volume = 0
  BY <1>11, IdleFacts DEF Idle, Frame
<1>13. Matched(r, f, x, n, g, {}, 0, {}, 0, {}, 0)
  <2>1. First(r, 1 - 1) = {}
    BY PathFacts
  <2>2. \A d : /\ OpenDone(g, x, r, d) = 0 /\ CreditDone(g, x, r, d) = 0
               /\ OpenDone(f, x, r, d) = 0 /\ CreditDone(f, x, r, d) = 0
    BY <1>4, <1>12, <2>1 DEF OpenDone, CreditDone, Pcs
  <2>3. Sign[r] * n \in Int
    BY Numbers
  <2> QED BY <1>4, <2>2, <2>3 DEF Matched
<1>14. Even(r, f, x, n, g, x, n)
  BY <1>4, <1>12, <1>13, EvenBy
<1>15. uncut' \in SUBSET Refs
  BY <1>1 DEF LedgerInv, Types
<1> QED BY <1>1, <1>4, <1>5, <1>6, <1>7, <1>8, <1>9, <1>10, <1>11, <1>14, <1>15, EvenStep

LEMMA IdleDone ==
  ASSUME NEW f, f = Idle, NEW x, NEW r
  PROVE  /\ \A d : OpenDone(f, x, r, d) = 0 /\ CreditDone(f, x, r, d) = 0
         /\ Owes(f.todo, r, {}, 0, {}, 0, {}, 0) /\ f.pc = "idle" /\ f.volume = 0
BY IdleFacts DEF OpenDone, CreditDone, Pcs, Idle, Frame

\* The call that gives everything back, for release and for an order that is gone.
LEMMA Freeing ==
  ASSUME LedgerInv, ReservationsFindable, NEW c \in Callers, NEW r \in Refs, Ready(c, "idle"), Quiet(r), Reserved(r),
         Continue(c, Frame("free", r, 0, Releases(Of(r)))),
         UNCHANGED <<counter, table, used, noted, booked, uncut>>
  PROVE  LedgerInv'
<1>1. PICK x \in Reservation : x = Res(r) /\ x = Of(r) /\ x.ref = r
  BY BeginCall
<1>2. PICK n \in Nat : n = noted[r]
  BY BeginCall
<1>3. PICK t : t = Releases(x)
  OBVIOUS
<1>4. PICK o \in Int : o = (IF Own(x) > 0 THEN -Own(x) ELSE 0) /\ o <= 0
  <2>1. Own(x) \in Int
    BY Numbers
  <2> QED BY <2>1
<1>5. PICK k \in Int : k = x.credit /\ k >= 0
  BY Numbers
<1>6. PICK A : A = Along(r)
  OBVIOUS
<1>7. Owes(t, r, A, o, A, k, {}, 0) /\ t # <<>>
  BY <1>1, <1>3, <1>4, <1>5, <1>6, OwesReleases
<1>8. PICK g : g = Frame("free", r, 0, t)
  OBVIOUS
<1>9. Continue(c, g)
  BY <1>1, <1>3, <1>8
<1>10. g \in FrameT /\ g.pc = "free" /\ g.ref = r /\ g.volume = 0 /\ g.at = 1 /\ g.todo = t /\ TodoInv(g)
  <2>1. "free" \in Pcs
    BY DEF Pcs
  <2> QED BY <1>4, <1>5, <1>7, <1>8, <2>1, FrameOwes
<1>11. FrameInv(g)
  BY <1>10, LedgerAssumption DEF FrameInv
<1>12. PICK f : f = Idle
  OBVIOUS
<1>13. f.pc = "idle" /\ OrderFits(r, f, x) /\ AgreeFits(r, f, x) /\ Held(r) # {}
  BY <1>1, <1>12, BeginCall DEF Idle, Frame
<1>14. OrderFits(r, g, x) /\ AgreeFits(r, g, x)
  BY <1>10, <1>13 DEF OrderFits, AgreeFits
<1>15. Matched(r, f, x, n, g, A, o, A, k, {}, 0)
  <2>1. \A d : OpenDone(g, x, r, d) = o /\ CreditDone(g, x, r, d) = -k
    BY <1>4, <1>5, <1>10 DEF OpenDone, CreditDone, Pcs
  <2>2. \A d : OpenDone(f, x, r, d) = 0 /\ CreditDone(f, x, r, d) = 0
    BY <1>12, IdleDone
  <2>3. Sign[r] * n \in Int
    BY Numbers
  <2> QED BY <1>6, <1>10, <2>1, <2>2, <2>3 DEF Matched
<1>16. uncut' \in SUBSET Refs
  BY DEF LedgerInv, Types
<1>17. Owes(g.todo, r, A, o, A, k, {}, 0)
  BY <1>7, <1>10
<1>18. g \in FrameT /\ g.ref = r /\ x = Res(r)
  BY <1>1, <1>10
<1>19. Owes(f.todo, r, {}, 0, {}, 0, {}, 0) /\ f.pc = "idle" /\ f.volume = 0
  BY <1>12, IdleDone
<1>20. Even(r, f, x, n, g, x, n)
  BY <1>15, <1>17, <1>19, EvenBy
<1>21. call[c] = f
  BY <1>12, BeginCall
<1> QED BY <1>2, <1>9, <1>11, <1>12, <1>14, <1>16, <1>18, <1>20, <1>21, EvenStep

LEMMA releaseStep ==
  ASSUME LedgerInv, ReservationsFindable, NEW c \in Callers, NEW r \in Refs, release(c, r)
  PROVE  LedgerInv'
BY Freeing DEF release, book

LEMMA reconcileStep ==
  ASSUME LedgerInv, ReservationsFindable, NEW c \in Callers, NEW r \in Refs, NEW v \in Volumes \cup {0},
         NEW gone \in BOOLEAN, Seen(r, v, gone), reconcile(c, r, v, gone)
  PROVE  LedgerInv'
<1>1. Ready(c, "idle") /\ Quiet(r) /\ Reserved(r) /\ UNCHANGED <<counter, table, used, noted, booked, uncut>>
  BY DEF reconcile, book
<1>2. PICK x \in Reservation : x = Res(r) /\ x = Of(r) /\ x.ref = r
  BY <1>1, BeginCall
<1>3. PICK n \in Nat : n = noted[r]
  BY <1>1, BeginCall
<1>4. v \in Nat /\ x.filled \in Nat
  BY LedgerAssumption, Numbers
<1>5. PICK delta \in Int : delta = v - x.filled
  BY <1>4
<1>6. CASE delta <= 0
  <2>1. Continue(c, Frame("free", r, 0, Releases(Of(r))))
    BY <1>2, <1>5, <1>6 DEF reconcile
  <2> QED BY <1>1, <2>1, Freeing
<1>7. CASE delta > 0
  <2>1. ~gone /\ v < booked[r]
    BY <1>4, <1>5, <1>7 DEF Seen
  <2>2. PICK t : t = Moves(r, delta)
    OBVIOUS
  <2>3. PICK g : g = Frame("note", r, v, t)
    OBVIOUS
  <2>4. Continue(c, g)
    BY <1>2, <1>5, <1>7, <2>1, <2>2, <2>3 DEF reconcile, Moves
  <2>5. PICK o \in Int : o = -delta /\ o <= 0
    BY <1>7
  <2>6. PICK m \in Int : m = Sign[r] * delta
    <3>1. Sign[r] \in {1, -1}
      BY LedgerAssumption
    <3> QED BY <3>1
  <2>7. PICK A : A = Along(r)
    OBVIOUS
  <2>8. Owes(t, r, A, o, {}, 0, A, m) /\ t # <<>>
    BY <2>2, <2>5, <2>6, <2>7, OwesMoves
  <2>9. g \in FrameT /\ g.pc = "note" /\ g.ref = r /\ g.volume = v /\ g.at = 1 /\ g.todo = t /\ TodoInv(g)
    <3>1. "note" \in Pcs /\ v \in Int
      BY <1>4 DEF Pcs
    <3> QED BY <2>3, <2>5, <2>8, <3>1, FrameOwes
  <2>10. FrameInv(g)
    BY <2>9, LedgerAssumption DEF FrameInv
  <2>11. PICK f : f = Idle
    OBVIOUS
  <2>12. f.pc = "idle" /\ OrderFits(r, f, x) /\ AgreeFits(r, f, x) /\ Held(r) # {}
    BY <1>1, <1>2, <2>11, BeginCall DEF Idle, Frame
  <2>13. OrderFits(r, g, x) /\ AgreeFits(r, g, x)
    BY <1>4, <2>1, <2>9, <2>12 DEF OrderFits, AgreeFits
  <2>14. x.filled = n
    BY <1>3, <2>12 DEF OrderFits
  <2>15. Matched(r, f, x, n, g, A, o, {}, 0, A, m)
    <3>1. \A d : OpenDone(g, x, r, d) = o /\ CreditDone(g, x, r, d) = 0
      BY <1>4, <1>5, <2>5, <2>9 DEF OpenDone, CreditDone, Pcs
    <3>2. \A d : OpenDone(f, x, r, d) = 0 /\ CreditDone(f, x, r, d) = 0
      BY <2>11, IdleDone
    <3>3. Sign[r] * v = Sign[r] * n + m
      <4>1. Sign[r] \in {1, -1}
        BY LedgerAssumption
      <4> QED BY <1>4, <1>5, <2>6, <2>14, <4>1
    <3> QED BY <2>7, <2>9, <3>1, <3>2, <3>3 DEF Matched
  <2>16. uncut' \in SUBSET Refs
    BY <1>1 DEF LedgerInv, Types
  <2>17. Owes(g.todo, r, A, o, {}, 0, A, m)
    BY <2>8, <2>9
  <2>18. g \in FrameT /\ g.ref = r /\ x = Res(r)
    BY <1>2, <2>9
  <2>19. Owes(f.todo, r, {}, 0, {}, 0, {}, 0) /\ f.pc = "idle" /\ f.volume = 0
    BY <2>11, IdleDone
  <2>20. Even(r, f, x, n, g, x, n)
    BY <2>15, <2>17, <2>19, EvenBy
  <2>21. call[c] = f
    BY <1>1, <2>11, BeginCall
  <2> QED BY <1>1, <1>3, <2>4, <2>10, <2>11, <2>13, <2>16, <2>18, <2>20, <2>21, EvenStep
<1> QED BY <1>6, <1>7

LEMMA adjust_replaceStep ==
  ASSUME LedgerInv, ReservationsFindable, NEW c \in Callers, NEW r \in Refs, NEW v \in Volumes, adjust_replace(c, r, v)
  PROVE  LedgerInv'
<1>1. Ready(c, "idle") /\ Quiet(r) /\ Reserved(r) /\ UNCHANGED <<counter, table, used, noted, booked>>
  BY DEF adjust_replace
<1>2. PICK x \in Reservation : x = Res(r) /\ x = Of(r)
  BY <1>1, BeginCall
<1>3. PICK n \in Nat : n = noted[r]
  BY <1>1, BeginCall
<1>4. v \in Nat /\ x.requested \in Nat /\ Sign[r] * n \in Int /\ booked[r] \in Nat
  BY <1>1, LedgerAssumption, Numbers, BeginCall
<1>5. PICK delta \in Int : delta = v - x.requested
  BY <1>4
<1>6. PICK f : f = Idle
  OBVIOUS
<1>7. OrderFits(r, f, x) /\ AgreeFits(r, f, x) /\ Held(r) # {} /\ call[c] = f
  BY <1>1, <1>2, <1>6, BeginCall
<1>8. /\ \A d : OpenDone(f, x, r, d) = 0 /\ CreditDone(f, x, r, d) = 0
      /\ Owes(f.todo, r, {}, 0, {}, 0, {}, 0) /\ f.pc = "idle" /\ f.volume = 0
  BY <1>6, IdleDone
<1>9. uncut' \in SUBSET Refs /\ (uncut' = {} => uncut = {})
  <2>1. uncut \in SUBSET Refs
    BY DEF LedgerInv, Types
  <2> QED BY <2>1 DEF adjust_replace
<1>10. "grow" \in Pcs /\ "resize" \in Pcs /\ "asked" \in Pcs
  BY DEF Pcs
<1>11. x = Res(r)
  BY <1>2
<1>12. CASE delta > 0
  <2>1. PICK g : g = Frame("grow", r, delta, <<>>)
    OBVIOUS
  <2>2. Continue(c, g) /\ uncut' = uncut
    BY <1>2, <1>5, <1>12, <2>1 DEF adjust_replace
  <2>3. /\ g \in FrameT /\ g.pc = "grow" /\ g.ref = r /\ g.volume = delta /\ g.at = 1 /\ g.todo = <<>>
        /\ TodoInv(g) /\ Owes(g.todo, r, {}, 0, {}, 0, {}, 0)
    BY <1>10, <2>1, FrameEmpty
  <2>4. FrameInv(g)
    BY <1>12, <2>3, PathFacts, LedgerAssumption DEF FrameInv
  <2>5. OrderFits(r, g, x) /\ AgreeFits(r, g, x)
    BY <1>7, <1>8, <2>3 DEF OrderFits, AgreeFits
  <2>6. Matched(r, f, x, n, g, {}, 0, {}, 0, {}, 0)
    <3>1. First(r, 1 - 1) = {}
      BY PathFacts
    <3>2. \A d : OpenDone(g, x, r, d) = 0 /\ CreditDone(g, x, r, d) = 0
      BY <2>3, <3>1 DEF OpenDone, CreditDone, Pcs
    <3> QED BY <1>4, <1>8, <2>3, <3>2 DEF Matched
  <2>7. Even(r, f, x, n, g, x, n)
    BY <1>8, <2>3, <2>6, EvenBy
  <2>8. g \in FrameT /\ g.ref = r
    BY <2>3
  <2> QED BY <1>1, <1>3, <1>6, <1>7, <1>9, <1>11, <2>2, <2>4, <2>5, <2>7, <2>8, EvenStep
<1>13. CASE delta < 0
  <2>1. PICK t : t = Everywhere("open", r, delta)
    OBVIOUS
  <2>2. PICK g : g = Frame("resize", r, delta, t)
    OBVIOUS
  <2>3. Continue(c, g) /\ (uncut' = {} => v > noted[r])
    <3>1. Continue(c, g) /\ uncut' = IF v <= noted[r] THEN uncut \cup {r} ELSE uncut
      BY <1>2, <1>5, <1>13, <2>1, <2>2 DEF adjust_replace
    <3>2. uncut' = {} => ~(v <= noted[r])
      BY <3>1
    <3>3. ~(v <= noted[r]) => v > noted[r]
      BY <1>3, <1>4
    <3> QED BY <3>1, <3>2, <3>3
  <2>4. PICK A : A = Along(r)
    OBVIOUS
  <2>5. Owes(t, r, A, delta, {}, 0, {}, 0) /\ t # <<>>
    <3>1. Same(t, r, "open", A, delta) /\ t # <<>> /\ A \subseteq Along(r)
      BY <2>1, <2>4, SameEverywhere DEF Names
    <3> QED BY <3>1, OwesOpen
  <2>6. g \in FrameT /\ g.pc = "resize" /\ g.ref = r /\ g.volume = delta /\ g.at = 1 /\ g.todo = t /\ TodoInv(g)
    <3>1. delta <= 0
      BY <1>13
    <3> QED BY <1>10, <2>2, <2>5, <3>1, FrameOwes
  <2>7. FrameInv(g)
    BY <2>6, LedgerAssumption DEF FrameInv
  <2>8. x.requested + delta = v
    BY <1>4, <1>5
  <2>9. OrderFits(r, g, x)
    BY <1>4, <1>7, <1>8, <2>6, <2>8 DEF OrderFits
  <2>10. uncut' = {} => AgreeFits(r, g, x)
    BY <1>7, <1>8, <1>9, <2>3, <2>6, <2>8 DEF AgreeFits
  <2>11. Matched(r, f, x, n, g, A, delta, {}, 0, {}, 0)
    <3>1. \A d : OpenDone(g, x, r, d) = delta /\ CreditDone(g, x, r, d) = 0
      BY <2>6 DEF OpenDone, CreditDone, Pcs
    <3> QED BY <1>4, <1>8, <2>4, <2>6, <3>1 DEF Matched
  <2>12. Owes(g.todo, r, A, delta, {}, 0, {}, 0)
    BY <2>5, <2>6
  <2>13. Even(r, f, x, n, g, x, n)
    BY <1>8, <2>11, <2>12, EvenBy
  <2>14. g \in FrameT /\ g.ref = r
    BY <2>6
  <2> QED BY <1>1, <1>3, <1>6, <1>7, <1>9, <1>11, <2>3, <2>7, <2>9, <2>10, <2>13, <2>14, EvenStep
<1>14. CASE delta = 0
  <2>1. PICK g : g = Frame("asked", r, delta, <<>>)
    OBVIOUS
  <2>2. Continue(c, g) /\ uncut' = uncut
    BY <1>2, <1>5, <1>14, <2>1 DEF adjust_replace
  <2>3. /\ g \in FrameT /\ g.pc = "asked" /\ g.ref = r /\ g.volume = delta /\ g.at = 1 /\ g.todo = <<>>
        /\ TodoInv(g) /\ Owes(g.todo, r, {}, 0, {}, 0, {}, 0)
    BY <1>10, <2>1, FrameEmpty
  <2>4. FrameInv(g)
    BY <2>3, LedgerAssumption DEF FrameInv
  <2>5. OrderFits(r, g, x) /\ AgreeFits(r, g, x)
    BY <1>7, <1>8, <2>3 DEF OrderFits, AgreeFits
  <2>6. Matched(r, f, x, n, g, {}, 0, {}, 0, {}, 0)
    <3>1. \A d : OpenDone(g, x, r, d) = 0 /\ CreditDone(g, x, r, d) = 0
      BY <2>3 DEF OpenDone, CreditDone, Pcs
    <3> QED BY <1>4, <1>8, <2>3, <3>1 DEF Matched
  <2>7. Even(r, f, x, n, g, x, n)
    BY <1>8, <2>3, <2>6, EvenBy
  <2>8. g \in FrameT /\ g.ref = r
    BY <2>3
  <2> QED BY <1>1, <1>3, <1>6, <1>7, <1>9, <1>11, <2>2, <2>4, <2>5, <2>7, <2>8, EvenStep
<1> QED BY <1>12, <1>13, <1>14

LEMMA ReplaceRefusedStep ==
  ASSUME LedgerInv, ReservationsFindable, NEW c \in Callers, ReplaceRefused(c)
  PROVE  LedgerInv'
<1>1. PICK f : f = call[c]
  OBVIOUS
<1>2. f.todo = <<>> /\ f.pc = "asked" /\ f # Idle
  BY <1>1 DEF ReplaceRefused, Ready, Idle, Frame
<1>3. PICK r \in Refs : r = f.ref
  BY <1>1, <1>2, ActiveCall
<1>4. f \in FrameT /\ FrameInv(f) /\ Frm(r) = f /\ Res(r) \in Reservation /\ OrderInv(r) /\ AgreeInv(r)
  BY <1>1, <1>2, <1>3, ActiveCall
<1>5. PICK x \in Reservation : x = Res(r)
  BY <1>4
<1>6. Types /\ CallsInv
  BY DEF LedgerInv
<1>7. PICK n \in Nat : n = noted[r]
  BY <1>6 DEF Types
<1>8. OrderFits(r, f, x) /\ AgreeFits(r, f, x) /\ Held(r) # {}
  BY <1>2, <1>4, <1>5 DEF OrderInv, AgreeInv, OrderFits
<1>9. Of(r) = x /\ UNCHANGED <<counter, table, used, noted, booked>>
  BY <1>5, <1>6, <1>8, HeldFacts DEF ReplaceRefused
<1>10. PICK delta \in Int : delta = x.requested - booked[r]
  BY <1>6, Numbers DEF Types
<1>11. uncut' \in SUBSET Refs /\ (uncut' = {} => uncut = {})
  BY <1>1, <1>3, <1>6 DEF ReplaceRefused, Types
<1>12. /\ \A d : OpenDone(f, x, r, d) = 0 /\ CreditDone(f, x, r, d) = 0
       /\ Owes(f.todo, r, {}, 0, {}, 0, {}, 0)
  BY <1>2, OwesNothing DEF OpenDone, CreditDone, Pcs
<1>13. x.requested \in Nat /\ booked[r] \in Nat /\ Sign[r] * n \in Int
  BY <1>6, Numbers DEF Types
<1>14. CASE delta > 0
  <2>1. PICK o \in Int : o = -delta /\ o <= 0
    BY <1>14
  <2>2. PICK t : t = Everywhere("open", r, o)
    OBVIOUS
  <2>3. PICK g : g = Frame("undo", r, o, t)
    OBVIOUS
  <2>4. Continue(c, g)
    BY <1>1, <1>3, <1>9, <1>10, <1>14, <2>1, <2>2, <2>3 DEF ReplaceRefused
  <2>5. PICK A : A = Along(r)
    OBVIOUS
  <2>6. Owes(t, r, A, o, {}, 0, {}, 0) /\ t # <<>>
    <3>1. Same(t, r, "open", A, o) /\ t # <<>> /\ A \subseteq Along(r)
      BY <2>2, <2>5, SameEverywhere DEF Names
    <3> QED BY <3>1, OwesOpen
  <2>7. g \in FrameT /\ g.pc = "undo" /\ g.ref = r /\ g.volume = o /\ g.at = 1 /\ g.todo = t /\ TodoInv(g)
    <3>1. "undo" \in Pcs
      BY DEF Pcs
    <3> QED BY <2>1, <2>3, <2>6, <3>1, FrameOwes
  <2>8. FrameInv(g)
    BY <2>7, LedgerAssumption DEF FrameInv
  <2>9. OrderFits(r, g, x) /\ AgreeFits(r, g, x)
    BY <1>2, <1>8, <1>10, <1>13, <2>1, <2>7 DEF OrderFits, AgreeFits
  <2>10. Matched(r, f, x, n, g, A, o, {}, 0, {}, 0)
    <3>1. \A d : OpenDone(g, x, r, d) = o /\ CreditDone(g, x, r, d) = 0
      BY <2>7 DEF OpenDone, CreditDone, Pcs
    <3> QED BY <1>12, <1>13, <2>5, <2>7, <3>1 DEF Matched
  <2>11. Owes(g.todo, r, A, o, {}, 0, {}, 0)
    BY <2>6, <2>7
  <2>12. Even(r, f, x, n, g, x, n)
    BY <1>2, <1>12, <2>10, <2>11, EvenBy
  <2>13. g \in FrameT /\ g.ref = r
    BY <2>7
  <2> QED BY <1>1, <1>3, <1>5, <1>7, <1>9, <1>11, <2>4, <2>8, <2>9, <2>12, <2>13, EvenStep
<1>15. CASE delta <= 0
  <2>1. PICK g : g = Idle
    OBVIOUS
  <2>2. Continue(c, g) /\ (uncut' = {} => delta = 0)
    <3>1. Continue(c, g) /\ uncut' = IF delta < 0 THEN uncut \cup {r} ELSE uncut
      BY <1>1, <1>3, <1>9, <1>10, <1>15, <2>1 DEF ReplaceRefused
    <3> QED BY <1>15, <3>1
  <2>3. /\ \A d : OpenDone(g, x, r, d) = 0 /\ CreditDone(g, x, r, d) = 0
        /\ Owes(g.todo, r, {}, 0, {}, 0, {}, 0) /\ g.pc = "idle" /\ g.volume = 0
    BY <2>1, IdleDone
  <2>4. g \in FrameT /\ FrameInv(g)
    BY <2>1, IdleFacts
  <2>5. OrderFits(r, g, x)
    BY <1>8, <2>3 DEF OrderFits
  <2>6. uncut' = {} => AgreeFits(r, g, x)
    BY <1>2, <1>8, <1>10, <1>11, <1>13, <2>2, <2>3 DEF AgreeFits
  <2>7. Matched(r, f, x, n, g, {}, 0, {}, 0, {}, 0)
    BY <1>12, <1>13, <2>3 DEF Matched
  <2>8. Even(r, f, x, n, g, x, n)
    BY <1>2, <1>12, <2>3, <2>7, EvenBy
  <2> QED BY <1>1, <1>3, <1>5, <1>7, <1>9, <1>11, <2>1, <2>2, <2>4, <2>5, <2>6, <2>8, EvenStep
<1> QED BY <1>14, <1>15

-----------------------------------------------------------------------------
(* Ending a call: what was counted is stored. *)

Others(r) == \A e \in Refs : e # r => /\ noted'[e] = noted[e] /\ booked'[e] = booked[e]
                                      /\ (e \in used' <=> e \in used)

LEMMA TableMoves ==
  ASSUME LedgerInv, ReservationsFindable, NEW c \in Callers, NEW r \in Refs, call[c].ref = r,
         NEW g \in FrameT, g = Idle \/ g.ref = r, FrameInv(g), Continue(c, g),
         probe(r) \in Slots, NEW z \in Reservation \cup {Void}, z # Void => z.ref = r,
         table' = [table EXCEPT ![probe(r)] = z],
         UNCHANGED <<counter, uncut>>, used' \in SUBSET Refs,
         noted' \in [Refs -> Nat], booked' \in [Refs -> Nat], Others(r)
  PROVE  /\ Types' /\ CallsInv' /\ Only(r) /\ Frm(r)' = g
         /\ z = Void => Held(r)' = {} /\ Res(r)' = [ref |-> r, requested |-> 0, filled |-> 0, credit |-> 0]
         /\ z # Void => Held(r)' # {} /\ Res(r)' = z
<1>1. Types /\ CallsInv
  BY DEF LedgerInv
<1>2. /\ call' \in [Callers -> FrameT] /\ CallsInv' /\ Frm(r)' = g
      /\ \A e \in Refs : e # r => Frm(e)' = Frm(e)
  BY <1>1, FrameChanged DEF Types
<1>3. /\ table' \in [Slots -> Reservation \cup {Void}]
      /\ \A e \in Refs : e # r => Held(e)' = Held(e) /\ Res(e)' = Res(e)
      /\ z = Void => Held(r)' = {} /\ Res(r)' = [ref |-> r, requested |-> 0, filled |-> 0, credit |-> 0]
      /\ z # Void => Held(r)' # {} /\ Res(r)' = z
  BY <1>1, ResChanged
<1>4. Types'
  BY <1>1, <1>2, <1>3 DEF Types
<1>5. Only(r)
  BY <1>2, <1>3 DEF Only, Others
<1> QED BY <1>2, <1>3, <1>4, <1>5

\* What the call f had done to the counters is what the reservation y says.
Stored(r, f, x, n, y, m) == \A d \in Along(r) :
  /\ uncut' = {} => Own(x) + OpenDone(f, x, r, d) = Own(y)
  /\ x.credit + CreditDone(f, x, r, d) = y.credit
  /\ Sign[r] * (IF f.pc = "note" THEN f.volume ELSE n) = Sign[r] * m

LEMMA EvenStored ==
  ASSUME NEW r \in Refs, NEW x \in Reservation, NEW y \in Reservation, NEW n \in Nat, NEW m \in Nat,
         NEW f \in FrameT, f.pc # "idle", f.todo = <<>>, NEW g, g.pc \in {"idle", "asked"}, g.todo = <<>>,
         Stored(r, f, x, n, y, m)
  PROVE  Even(r, f, x, n, g, y, m)
<1> SUFFICES ASSUME NEW d \in Dims
             PROVE  /\ uncut' = {} => /\ OpenShare(g, y, r, d) = OpenShare(f, x, r, d)
                                      /\ OpenKept(g, y, r, d) <= OpenKept(f, x, r, d)
                    /\ CreditShare(g, y, r, d) = CreditShare(f, x, r, d)
                    /\ CreditKept(g, y, r, d) <= CreditKept(f, x, r, d)
                    /\ PositionShare(g, y, r, m, d) = PositionShare(f, x, r, n, d)
  BY DEF Even
<1>1. Due(f.todo, "open", d) = 0 /\ Due(f.todo, "credit", d) = 0 /\ Due(f.todo, "position", d) = 0
  BY DueEmpty
<1>2. Due(g.todo, "open", d) = 0 /\ Due(g.todo, "credit", d) = 0 /\ Due(g.todo, "position", d) = 0
  BY DueEmpty
<1>3. Own(y) \in Int /\ y.credit \in Nat /\ Sign[r] * m \in Int
  BY Numbers
<1>4. OpenDone(g, y, r, d) = 0 /\ CreditDone(g, y, r, d) = 0
  BY DEF OpenDone, CreditDone, Pcs
<1>5. /\ OpenShare(g, y, r, d) = IF d \in Along(r) THEN Own(y) ELSE 0
      /\ CreditShare(g, y, r, d) = IF d \in Along(r) THEN y.credit ELSE 0
  BY <1>2, <1>3, <1>4 DEF OpenShare, CreditShare
<1>6. PositionShare(g, y, r, m, d) = IF d \in Along(r) THEN Sign[r] * m ELSE 0
  BY <1>2, <1>3 DEF PositionShare
<1>7. uncut' = {} => OpenShare(f, x, r, d) = IF d \in Along(r) THEN Own(y) ELSE 0
  <2>1. Own(x) \in Int /\ x.filled \in Int /\ f.pc \in Pcs /\ f.volume \in Int
    BY Numbers DEF FrameT
  <2>2. OpenDone(f, x, r, d) \in Int
    BY <2>1 DEF OpenDone, Pcs
  <2> QED BY <1>1, <1>3, <2>1, <2>2 DEF OpenShare, Stored
<1>8. CreditShare(f, x, r, d) = IF d \in Along(r) THEN y.credit ELSE 0
  BY <1>1, <1>3 DEF CreditShare, Stored
<1>9. PositionShare(f, x, r, n, d) = IF d \in Along(r) THEN Sign[r] * m ELSE 0
  BY <1>1, <1>3 DEF PositionShare, Stored
<1>10. OpenKept(g, y, r, d) = OpenShare(g, y, r, d) /\ CreditKept(g, y, r, d) = CreditShare(g, y, r, d)
       /\ OpenKept(f, x, r, d) = OpenShare(f, x, r, d) /\ CreditKept(f, x, r, d) = CreditShare(f, x, r, d)
  BY <1>5 DEF OpenKept, CreditKept
<1> QED BY <1>3, <1>5, <1>6, <1>7, <1>8, <1>9, <1>10

LEMMA free_reservationStep ==
  ASSUME LedgerInv, ReservationsFindable, NEW c \in Callers, free_reservation(c)
  PROVE  LedgerInv'
<1>1. PICK f : f = call[c]
  OBVIOUS
<1>2. f.todo = <<>> /\ f.pc = "free" /\ f # Idle
  BY <1>1 DEF free_reservation, Ready, Idle, Frame
<1>3. PICK r \in Refs : r = f.ref
  BY <1>1, <1>2, ActiveCall
<1>4. f \in FrameT /\ FrameInv(f) /\ Frm(r) = f /\ Res(r) \in Reservation /\ OrderInv(r) /\ AgreeInv(r)
  BY <1>1, <1>2, <1>3, ActiveCall
<1>5. PICK x \in Reservation : x = Res(r)
  BY <1>4
<1>6. Types /\ CallsInv
  BY DEF LedgerInv
<1>7. PICK n \in Nat : n = noted[r]
  BY <1>6 DEF Types
<1>8. OrderFits(r, f, x) /\ AgreeFits(r, f, x) /\ Held(r) # {}
  BY <1>2, <1>4, <1>5 DEF OrderInv, AgreeInv, OrderFits
<1>9. /\ probe(r) \in Slots /\ table' = [table EXCEPT ![probe(r)] = Void]
      /\ Continue(c, Idle) /\ UNCHANGED <<counter, used, noted, booked, uncut>>
  BY <1>1, <1>3, <1>6, <1>8, HeldFacts DEF free_reservation, book
<1>10. PICK g : g = Idle
  OBVIOUS
<1>11. g \in FrameT /\ FrameInv(g) /\ TodoInv(g) /\ g.pc = "idle" /\ g.todo = <<>>
  BY <1>10, IdleFacts
<1>12. PICK y : y = [ref |-> r, requested |-> 0, filled |-> 0, credit |-> 0]
  OBVIOUS
<1>13. y \in Reservation /\ Own(y) = 0 /\ y.credit = 0
  BY <1>12 DEF Reservation, Own
<1>14. Types' /\ CallsInv' /\ Only(r) /\ Frm(r)' = g /\ Held(r)' = {} /\ Res(r)' = y
  <2>1. /\ Others(r) /\ used' \in SUBSET Refs /\ noted' \in [Refs -> Nat] /\ booked' \in [Refs -> Nat]
    BY <1>6, <1>9 DEF Others, Types
  <2>2. PICK z \in Reservation \cup {Void} : z = Void
    OBVIOUS
  <2>3. table' = [table EXCEPT ![probe(r)] = z] /\ Continue(c, g) /\ call[c].ref = r
    BY <1>1, <1>3, <1>9, <1>10, <2>2
  <2> QED BY <1>9, <1>10, <1>11, <1>12, <2>1, <2>2, <2>3, TableMoves
<1>15. OrderInv(r)' /\ AgreeInv(r)'
  BY <1>8, <1>9, <1>11, <1>14 DEF OrderInv, AgreeInv, OrderFits, AgreeFits
<1>16. Stored(r, f, x, n, y, n)
  <2>1. x.requested \in Nat /\ x.filled \in Nat /\ x.credit \in Nat /\ Own(x) = x.requested - x.filled /\ booked[r] \in Nat
    BY <1>6, Numbers DEF Types
  <2>2. uncut' = {} => Own(x) > 0
    BY <1>2, <1>7, <1>8, <1>9, <2>1 DEF OrderFits, AgreeFits
  <2>3. \A d : OpenDone(f, x, r, d) = (IF Own(x) > 0 THEN -Own(x) ELSE 0) /\ CreditDone(f, x, r, d) = -x.credit
    BY <1>2 DEF OpenDone, CreditDone, Pcs
  <2> QED BY <1>2, <1>13, <2>1, <2>2, <2>3 DEF Stored
<1>17. Even(r, f, x, n, g, y, n)
  BY <1>2, <1>4, <1>11, <1>13, <1>16, EvenStored
<1>18. f = Frm(r) /\ noted'[r] = n /\ uncut' = uncut /\ counter' = counter
  BY <1>4, <1>7, <1>9
<1> QED BY <1>4, <1>5, <1>7, <1>11, <1>13, <1>14, <1>15, <1>17, <1>18, EvenOrder

LEMMA allocate_reservationStep ==
  ASSUME LedgerInv, ReservationsFindable, NEW c \in Callers, allocate_reservation(c)
  PROVE  LedgerInv'
<1>1. PICK f : f = call[c]
  OBVIOUS
<1>2. f.todo = <<>> /\ f.pc = "store" /\ f # Idle
  BY <1>1 DEF allocate_reservation, Ready, Idle, Frame
<1>3. PICK r \in Refs : r = f.ref
  BY <1>1, <1>2, ActiveCall
<1>4. f \in FrameT /\ FrameInv(f) /\ Frm(r) = f /\ Res(r) \in Reservation /\ OrderInv(r) /\ AgreeInv(r)
  BY <1>1, <1>2, <1>3, ActiveCall
<1>5. PICK x \in Reservation : x = Res(r)
  BY <1>4
<1>6. Types /\ CallsInv
  BY DEF LedgerInv
<1>7. PICK n \in Nat : n = noted[r]
  BY <1>6 DEF Types
<1>8. PICK v \in Nat \ {0} : v = f.volume
  BY <1>2, <1>4 DEF FrameInv
<1>9. OrderFits(r, f, x) /\ AgreeFits(r, f, x) /\ r \notin used /\ Held(r) = {} /\ noted[r] = 0
  BY <1>2, <1>4, <1>5 DEF OrderInv, AgreeInv, OrderFits
<1>10. x.requested = 0 /\ x.filled = 0 /\ x.credit = 0 /\ Own(x) = 0
  BY <1>5, <1>9 DEF Res, Own
<1>11. \A d : OpenDone(f, x, r, d) = v /\ CreditDone(f, x, r, d) = v
  BY <1>2, <1>8 DEF OpenDone, CreditDone, Pcs
<1>12. UNCHANGED <<counter, noted, uncut>> /\ call[c].ref = r
  BY <1>1, <1>3 DEF allocate_reservation
<1>13. CASE probe(r) # TableCapacity /\ table[probe(r)] = Void
  <2>1. PICK y : y = [ref |-> r, requested |-> v, filled |-> 0, credit |-> v]
    OBVIOUS
  <2>2. /\ table' = [table EXCEPT ![probe(r)] = y] /\ used' = used \cup {r}
        /\ booked' = [booked EXCEPT ![r] = v] /\ Continue(c, Idle)
    BY <1>1, <1>3, <1>8, <1>13, <2>1 DEF allocate_reservation
  <2>3. y \in Reservation /\ y.ref = r /\ y.requested = v /\ y.filled = 0 /\ y.credit = v /\ Own(y) = v
    BY <2>1 DEF Reservation, Own
  <2>4. y # Void /\ y \in Reservation \cup {Void} /\ probe(r) \in Slots
    BY <1>13, <2>3, LedgerAssumption, ProbeFacts
  <2>5. PICK g : g = Idle
    OBVIOUS
  <2>6. g \in FrameT /\ FrameInv(g) /\ TodoInv(g) /\ g.pc = "idle" /\ g.todo = <<>>
    BY <2>5, IdleFacts
  <2>7. used' \in SUBSET Refs /\ noted' \in [Refs -> Nat] /\ booked' \in [Refs -> Nat] /\ Others(r) /\ booked'[r] = v
    BY <1>6, <1>12, <2>2 DEF Others, Types
  <2>8. Types' /\ CallsInv' /\ Only(r) /\ Frm(r)' = g /\ Held(r)' # {} /\ Res(r)' = y
    <3>1. table' = [table EXCEPT ![probe(r)] = y] /\ Continue(c, g) /\ y.ref = r
      BY <2>2, <2>3, <2>5
    <3> QED BY <1>12, <2>4, <2>5, <2>6, <2>7, <3>1, TableMoves
  <2>9. OrderInv(r)' /\ AgreeInv(r)'
    BY <1>9, <1>12, <2>2, <2>3, <2>6, <2>7, <2>8 DEF OrderInv, AgreeInv, OrderFits, AgreeFits
  <2>10. Stored(r, f, x, n, y, n)
    BY <1>2, <1>10, <1>11, <2>3 DEF Stored
  <2>11. Even(r, f, x, n, g, y, n)
    BY <1>2, <1>4, <2>3, <2>6, <2>10, EvenStored
  <2>12. f = Frm(r) /\ noted'[r] = n /\ uncut' = uncut /\ counter' = counter
    BY <1>4, <1>7, <1>12
  <2>13. y \in Reservation
    BY <2>3
  <2> QED BY <1>4, <1>5, <1>7, <2>6, <2>8, <2>9, <2>11, <2>12, <2>13, EvenOrder
<1>14. CASE ~(probe(r) # TableCapacity /\ table[probe(r)] = Void)
  <2>1. PICK o \in Int : o = -v /\ o <= 0
    OBVIOUS
  <2>2. PICK t, u, w : t = Everywhere("open", r, o) /\ u = Everywhere("credit", r, v) /\ w = t \o u
    OBVIOUS
  <2>3. PICK g : g = Frame("idle", r, 0, w)
    OBVIOUS
  <2>4. Continue(c, g) /\ UNCHANGED <<table, used, booked>>
    BY <1>1, <1>3, <1>8, <1>14, <2>1, <2>2, <2>3 DEF allocate_reservation, GiveUp
  <2>5. PICK A, B : A = Along(r) /\ B = Along(r)
    OBVIOUS
  <2>6. Same(t, r, "open", A, o) /\ t # <<>> /\ Same(u, r, "credit", B, v)
    <3>1. "open" \in Names /\ "credit" \in Names /\ v \in Int
      BY DEF Names
    <3> QED BY <2>2, <2>5, <3>1, SameEverywhere
  <2>7. Owes(w, r, A, o, B, v, {}, 0) /\ w # <<>>
    <3>1. Joined(w, t, u)
      BY <2>2 DEF Joined
    <3>2. OneOfEach(t, u, t, u)
      BY DEF OneOfEach
    <3>3. A \subseteq Along(r) /\ B \subseteq Along(r) /\ v \in Int
      BY <2>5
    <3> QED BY <2>6, <3>1, <3>2, <3>3, OwesBoth
  <2>8. g \in FrameT /\ g.pc = "idle" /\ g.ref = r /\ g.volume = 0 /\ g.at = 1 /\ g.todo = w /\ TodoInv(g)
    <3>1. "idle" \in Pcs /\ v \in Int /\ v >= 0 /\ o <= 0
      BY <2>1 DEF Pcs
    <3> QED BY <2>3, <2>7, <3>1, FrameOwes
  <2>9. FrameInv(g)
    BY <2>7, <2>8, LedgerAssumption DEF FrameInv
  <2>10. OrderFits(r, g, x) /\ AgreeFits(r, g, x)
    BY <1>9, <2>8 DEF OrderFits, AgreeFits
  <2>11. Matched(r, f, x, n, g, A, o, B, v, {}, 0)
    <3>1. \A d : OpenDone(g, x, r, d) = 0 /\ CreditDone(g, x, r, d) = 0
      BY <2>8 DEF OpenDone, CreditDone, Pcs
    <3>2. Sign[r] * n \in Int
      BY Numbers
    <3> QED BY <1>11, <2>1, <2>5, <2>8, <3>1, <3>2 DEF Matched
  <2>12. Owes(g.todo, r, A, o, B, v, {}, 0)
    BY <2>7, <2>8
  <2>13. Owes(f.todo, r, {}, 0, {}, 0, {}, 0) /\ f.volume \in Nat
    BY <1>2, <1>8, OwesNothing
  <2>14. Even(r, f, x, n, g, x, n)
    <3>1. v \in Int
      OBVIOUS
    <3> QED BY <1>2, <2>11, <2>12, <2>13, <3>1, EvenBy
  <2>15. g \in FrameT /\ g.ref = r /\ f.ref = r /\ uncut' \in SUBSET Refs
    BY <1>3, <1>6, <1>12, <2>8 DEF Types
  <2> QED BY <1>1, <1>5, <1>7, <1>12, <2>4, <2>9, <2>10, <2>14, <2>15, EvenStep
<1> QED BY <1>13, <1>14

LEMMA NoteFilledStep ==
  ASSUME LedgerInv, ReservationsFindable, NEW c \in Callers, NoteFilled(c)
  PROVE  LedgerInv'
<1>1. PICK f : f = call[c]
  OBVIOUS
<1>2. f.todo = <<>> /\ f # Idle /\ (f.pc = "note" \/ f.pc = "note_gone")
  BY <1>1 DEF NoteFilled, Ready, Idle, Frame
<1>3. PICK r \in Refs : r = f.ref
  BY <1>1, <1>2, ActiveCall
<1>4. f \in FrameT /\ FrameInv(f) /\ Frm(r) = f /\ Res(r) \in Reservation /\ OrderInv(r) /\ AgreeInv(r)
  BY <1>1, <1>2, <1>3, ActiveCall
<1>5. f.pc = "note"
  BY <1>2, <1>4 DEF FrameT, Pcs
<1>6. PICK x \in Reservation : x = Res(r)
  BY <1>4
<1>7. Types /\ CallsInv
  BY DEF LedgerInv
<1>8. PICK n \in Nat : n = noted[r]
  BY <1>7 DEF Types
<1>9. OrderFits(r, f, x) /\ AgreeFits(r, f, x) /\ Held(r) # {} /\ f.volume \in Nat
  BY <1>4, <1>5, <1>6 DEF OrderInv, AgreeInv, OrderFits
<1>10. PICK v \in Nat : v = f.volume
  BY <1>9
<1>11. Reserved(r) /\ probe(r) \in Slots /\ x = table[probe(r)] /\ x.ref = r
  <2>1. Reserved(r) /\ probe(r) \in Slots /\ x = table[probe(r)] /\ probe(r) \in Held(r)
    BY <1>6, <1>7, <1>9, HeldFacts
  <2> QED BY <2>1 DEF Held
<1>12. PICK y : y = [x EXCEPT !.filled = v]
  OBVIOUS
<1>13. y \in Reservation /\ y.ref = r /\ y.requested = x.requested /\ y.filled = v /\ y.credit = x.credit
  BY <1>11, <1>12 DEF Reservation
<1>14. /\ table' = [table EXCEPT ![probe(r)] = y] /\ noted' = [noted EXCEPT ![r] = v]
       /\ Continue(c, Idle) /\ UNCHANGED <<counter, used, booked, uncut>>
  BY <1>1, <1>3, <1>5, <1>10, <1>11, <1>12 DEF NoteFilled, Noted, book
<1>15. y # Void /\ y \in Reservation \cup {Void}
  BY <1>13, LedgerAssumption
<1>16. PICK g : g = Idle
  OBVIOUS
<1>17. g \in FrameT /\ FrameInv(g) /\ TodoInv(g) /\ g.pc = "idle" /\ g.todo = <<>>
  BY <1>16, IdleFacts
<1>18. used' \in SUBSET Refs /\ noted' \in [Refs -> Nat] /\ booked' \in [Refs -> Nat] /\ Others(r) /\ noted'[r] = v
  BY <1>7, <1>14 DEF Others, Types
<1>19. Types' /\ CallsInv' /\ Only(r) /\ Frm(r)' = g /\ Held(r)' # {} /\ Res(r)' = y
  <2>1. table' = [table EXCEPT ![probe(r)] = y] /\ Continue(c, g) /\ y.ref = r /\ call[c].ref = r /\ probe(r) \in Slots
    BY <1>1, <1>3, <1>11, <1>13, <1>14, <1>16
  <2>2. UNCHANGED <<counter, uncut>>
    BY <1>14
  <2> QED BY <1>15, <1>16, <1>17, <1>18, <2>1, <2>2, TableMoves
<1>20. OrderInv(r)' /\ AgreeInv(r)'
  BY <1>5, <1>9, <1>10, <1>13, <1>14, <1>17, <1>18, <1>19 DEF OrderInv, AgreeInv, OrderFits, AgreeFits
<1>21. Stored(r, f, x, n, y, v)
  <2>1. x.requested \in Nat /\ x.filled \in Nat /\ x.credit \in Nat
    BY Numbers
  <2>2. \A d : OpenDone(f, x, r, d) = x.filled - v /\ CreditDone(f, x, r, d) = 0
    BY <1>5, <1>10 DEF OpenDone, CreditDone, Pcs
  <2> QED BY <1>5, <1>10, <1>13, <2>1, <2>2 DEF Stored, Own
<1>22. Even(r, f, x, n, g, y, v)
  BY <1>2, <1>4, <1>5, <1>13, <1>17, <1>21, EvenStored
<1>23. f = Frm(r) /\ uncut' = uncut /\ counter' = counter /\ y \in Reservation
  BY <1>4, <1>13, <1>14
<1> QED BY <1>4, <1>6, <1>8, <1>17, <1>18, <1>19, <1>20, <1>22, <1>23, EvenOrder

LEMMA ResizeStep ==
  ASSUME LedgerInv, ReservationsFindable, NEW c \in Callers, Resize(c)
  PROVE  LedgerInv'
<1>1. PICK f : f = call[c]
  OBVIOUS
<1>2. f.todo = <<>> /\ f # Idle /\ f.pc \in {"resize", "undo"}
  BY <1>1 DEF Resize, Ready, Idle, Frame
<1>3. PICK r \in Refs : r = f.ref
  BY <1>1, <1>2, ActiveCall
<1>4. f \in FrameT /\ FrameInv(f) /\ Frm(r) = f /\ Res(r) \in Reservation /\ OrderInv(r) /\ AgreeInv(r)
  BY <1>1, <1>2, <1>3, ActiveCall
<1>5. PICK x \in Reservation : x = Res(r)
  BY <1>4
<1>6. Types /\ CallsInv
  BY DEF LedgerInv
<1>7. PICK n \in Nat : n = noted[r]
  BY <1>6 DEF Types
<1>8. PICK v \in Int : v = f.volume
  BY <1>4 DEF FrameT
<1>9. OrderFits(r, f, x) /\ AgreeFits(r, f, x) /\ Held(r) # {}
  BY <1>2, <1>4, <1>5 DEF OrderInv, AgreeInv, OrderFits
<1>10. PICK w \in Nat : w = x.requested + v
  <2>1. booked[r] \in Nat
    BY <1>6 DEF Types
  <2> QED BY <1>2, <1>8, <1>9, <2>1 DEF OrderFits
<1>11. Reserved(r) /\ probe(r) \in Slots /\ x = table[probe(r)] /\ x.ref = r
  <2>1. Reserved(r) /\ probe(r) \in Slots /\ x = table[probe(r)] /\ probe(r) \in Held(r)
    BY <1>5, <1>6, <1>9, HeldFacts
  <2> QED BY <2>1 DEF Held
<1>12. PICK y : y = [x EXCEPT !.requested = w]
  OBVIOUS
<1>13. y \in Reservation /\ y.ref = r /\ y.requested = w /\ y.filled = x.filled /\ y.credit = x.credit
  BY <1>11, <1>12 DEF Reservation
<1>14. PICK g : g = IF f.pc = "undo" THEN Idle ELSE [f EXCEPT !.pc = "asked"]
  OBVIOUS
<1>15. /\ table' = [table EXCEPT ![probe(r)] = y]
       /\ Continue(c, g) /\ UNCHANGED <<counter, used, noted, booked, uncut>>
  BY <1>1, <1>3, <1>8, <1>10, <1>11, <1>12, <1>14 DEF Resize, book
<1>16. y # Void /\ y \in Reservation \cup {Void}
  BY <1>13, LedgerAssumption
<1>17. /\ g \in FrameT /\ FrameInv(g) /\ TodoInv(g) /\ g.todo = <<>> /\ (g = Idle \/ g.ref = r)
       /\ g.pc = IF f.pc = "undo" THEN "idle" ELSE "asked"
  <2>1. CASE f.pc = "undo"
    BY <1>14, <2>1, IdleFacts
  <2>2. CASE f.pc # "undo"
    <3>1. g = [f EXCEPT !.pc = "asked"] /\ "asked" \in Pcs
      BY <1>14, <2>2 DEF Pcs
    <3>2. g \in FrameT /\ g.pc = "asked" /\ g.todo = <<>> /\ g.ref = r
      BY <1>2, <1>3, <1>4, <3>1 DEF FrameT
    <3>3. TodoInv(g)
      BY <3>2, DueEmpty DEF TodoInv
    <3> QED BY <2>2, <3>2, <3>3, LedgerAssumption DEF FrameInv
  <2> QED BY <2>1, <2>2
<1>18. used' \in SUBSET Refs /\ noted' \in [Refs -> Nat] /\ booked' \in [Refs -> Nat] /\ Others(r)
  BY <1>6, <1>15 DEF Others, Types
<1>19. Types' /\ CallsInv' /\ Only(r) /\ Frm(r)' = g /\ Held(r)' # {} /\ Res(r)' = y
  <2>1. table' = [table EXCEPT ![probe(r)] = y] /\ Continue(c, g) /\ y.ref = r /\ call[c].ref = r /\ probe(r) \in Slots
    BY <1>1, <1>3, <1>11, <1>13, <1>15
  <2>2. UNCHANGED <<counter, uncut>> /\ g \in FrameT /\ FrameInv(g) /\ (g = Idle \/ g.ref = r)
    BY <1>15, <1>17
  <2> QED BY <1>16, <1>18, <2>1, <2>2, TableMoves
<1>20. OrderInv(r)' /\ AgreeInv(r)'
  <2>1. /\ noted'[r] = noted[r] /\ booked'[r] = booked[r] /\ uncut' = uncut /\ used' = used
        /\ g.pc = IF f.pc = "undo" THEN "idle" ELSE "asked"
    BY <1>15, <1>17
  <2>2. f.pc = "undo" => w = booked[r]
    BY <1>8, <1>9, <1>10 DEF OrderFits
  <2>3. uncut = {} => booked[r] > noted[r] /\ (f.pc = "resize" => w > noted[r])
    BY <1>8, <1>9, <1>10 DEF AgreeFits
  <2>4. OrderInv(r)'
    BY <1>2, <1>9, <1>13, <1>19, <2>1 DEF OrderInv, OrderFits
  <2>5. AgreeInv(r)'
    BY <1>2, <1>13, <1>19, <2>1, <2>2, <2>3 DEF AgreeInv, AgreeFits
  <2> QED BY <2>4, <2>5
<1>21. Stored(r, f, x, n, y, n)
  <2>1. x.requested \in Nat /\ x.filled \in Nat /\ x.credit \in Nat
    BY Numbers
  <2>2. \A d : OpenDone(f, x, r, d) = v /\ CreditDone(f, x, r, d) = 0
    BY <1>2, <1>8 DEF OpenDone, CreditDone, Pcs
  <2> QED BY <1>2, <1>10, <1>13, <2>1, <2>2 DEF Stored, Own
<1>22. Even(r, f, x, n, g, y, n)
  BY <1>2, <1>4, <1>13, <1>17, <1>21, EvenStored
<1>23. f = Frm(r) /\ uncut' = uncut /\ counter' = counter /\ y \in Reservation /\ noted'[r] = n
       /\ g \in FrameT /\ TodoInv(g)
  BY <1>4, <1>7, <1>13, <1>15, <1>17
<1> QED BY <1>4, <1>5, <1>7, <1>19, <1>20, <1>22, <1>23, EvenOrder

LEMMA ReplaceTakenStep ==
  ASSUME LedgerInv, ReservationsFindable, NEW c \in Callers, ReplaceTaken(c)
  PROVE  LedgerInv'
<1>1. PICK f : f = call[c]
  OBVIOUS
<1>2. f.todo = <<>> /\ f # Idle /\ f.pc = "asked"
  BY <1>1 DEF ReplaceTaken, Ready, Idle, Frame
<1>3. PICK r \in Refs : r = f.ref
  BY <1>1, <1>2, ActiveCall
<1>4. f \in FrameT /\ FrameInv(f) /\ Frm(r) = f /\ Res(r) \in Reservation /\ OrderInv(r) /\ AgreeInv(r)
  BY <1>1, <1>2, <1>3, ActiveCall
<1>5. PICK x \in Reservation : x = Res(r)
  BY <1>4
<1>6. Types /\ CallsInv
  BY DEF LedgerInv
<1>7. PICK n \in Nat : n = noted[r]
  BY <1>6 DEF Types
<1>8. OrderFits(r, f, x) /\ AgreeFits(r, f, x) /\ Held(r) # {}
  BY <1>2, <1>4, <1>5 DEF OrderInv, AgreeInv, OrderFits
<1>9. Of(r) = x
  BY <1>5, <1>6, <1>8, HeldFacts
<1>10. /\ x.requested > noted[r] /\ booked' = [booked EXCEPT ![r] = x.requested] /\ Continue(c, Idle)
       /\ UNCHANGED <<counter, table, used, noted, uncut>>
  BY <1>1, <1>3, <1>9 DEF ReplaceTaken
<1>11. PICK g : g = Idle
  OBVIOUS
<1>12. g \in FrameT /\ FrameInv(g) /\ TodoInv(g) /\ g.pc = "idle" /\ g.todo = <<>>
  BY <1>11, IdleFacts
<1>13. x.requested \in Nat /\ x.credit \in Nat /\ Own(x) \in Int
  BY Numbers
<1>14. Types' /\ CallsInv' /\ Only(r) /\ Frm(r)' = g /\ Held(r)' = Held(r) /\ Res(r)' = Res(r)
  <2>1. /\ booked' \in [Refs -> Nat] /\ \A e \in Refs : e # r => booked'[e] = booked[e]
    BY <1>6, <1>10, <1>13 DEF Types
  <2>2. counter' \in [Names -> [Dims -> Int]] /\ uncut' \in SUBSET Refs /\ UNCHANGED <<table, used, noted>>
    BY <1>6, <1>10 DEF Types
  <2>3. Continue(c, g) /\ call[c].ref = r
    BY <1>1, <1>3, <1>10, <1>11
  <2> QED BY <1>11, <1>12, <2>1, <2>2, <2>3, CallMoves
<1>15. booked'[r] = x.requested /\ noted'[r] = n /\ Res(r)' = x
  BY <1>5, <1>6, <1>7, <1>10, <1>14 DEF Types
<1>16. OrderInv(r)' /\ AgreeInv(r)'
  BY <1>8, <1>10, <1>12, <1>14, <1>15 DEF OrderInv, AgreeInv, OrderFits, AgreeFits
<1>17. Stored(r, f, x, n, x, n)
  <2>1. \A d : OpenDone(f, x, r, d) = 0 /\ CreditDone(f, x, r, d) = 0
    BY <1>2 DEF OpenDone, CreditDone, Pcs
  <2> QED BY <1>2, <1>13, <2>1 DEF Stored
<1>18. Even(r, f, x, n, g, x, n)
  BY <1>2, <1>4, <1>12, <1>17, EvenStored
<1>19. f = Frm(r) /\ uncut' = uncut /\ counter' = counter
  BY <1>4, <1>10
<1> QED BY <1>4, <1>5, <1>7, <1>12, <1>14, <1>15, <1>16, <1>18, <1>19, EvenOrder

-----------------------------------------------------------------------------
(* The invariant. *)

LEMMA LedgerInit ==
  ASSUME Init
  PROVE  LedgerInv
<1>1. Budget \in [Dims -> Nat] /\ OpenLimit \in [Dims -> Nat] /\ Void \notin Refs /\ IsFiniteSet(Refs)
  BY LedgerAssumption
<1>2. /\ counter["open"] = [d \in Dims |-> 0] /\ counter["position"] = [d \in Dims |-> 0] /\ counter["credit"] = Budget
      /\ table = [p \in Slots |-> Void] /\ call = [c \in Callers |-> Idle] /\ used = {} /\ uncut = {}
      /\ noted = [r \in Refs |-> 0] /\ booked = [r \in Refs |-> 0]
  BY DEF Init
<1>3. Idle \in FrameT /\ FrameInv(Idle) /\ Idle.ref = Void
  BY IdleFacts DEF Idle, Frame
<1>4. counter \in [Names -> [Dims -> Int]]
  BY <1>1 DEF Init, Names
<1>5. Types /\ CallsInv
  BY <1>2, <1>3, <1>4 DEF Types, CallsInv
<1>6. PICK f : f = Idle
  OBVIOUS
<1>7. ASSUME NEW r \in Refs
      PROVE  /\ Held(r) = {} /\ Frm(r) = f
             /\ Res(r) = [ref |-> r, requested |-> 0, filled |-> 0, credit |-> 0] /\ noted[r] = 0
  <2>1. Held(r) = {}
    BY <1>2 DEF Held
  <2>2. Frm(r) = f
    BY <1>1, <1>2, <1>3, <1>6 DEF Frm, Quiet
  <2> QED BY <1>2, <2>1, <2>2 DEF Res
<1>8. f.pc = "idle" /\ Due(f.todo, "open", 0) = 0 /\ f.todo = <<>>
  BY <1>6, DueEmpty DEF Idle, Frame
<1>9. \A r \in Refs : OrderInv(r) /\ AgreeInv(r)
  BY <1>2, <1>7, <1>8 DEF OrderInv, AgreeInv, OrderFits, AgreeFits
<1>10. ASSUME NEW d \in Dims, NEW r \in Refs
       PROVE  /\ OpenOf(d)[r] = 0 /\ CreditOf(d)[r] = 0 /\ PositionOf(d)[r] = 0
              /\ OpenTaken(d)[r] = 0 /\ CreditTaken(d)[r] = 0
  <2>1. PICK x \in Reservation : x = Res(r) /\ x.credit = 0 /\ Own(x) = 0
    BY <1>7 DEF Own, Reservation
  <2>2. Due(f.todo, "open", d) = 0 /\ Due(f.todo, "credit", d) = 0 /\ Due(f.todo, "position", d) = 0
    BY <1>8, DueEmpty
  <2>3. OpenDone(f, x, r, d) = 0 /\ CreditDone(f, x, r, d) = 0
    BY <1>6, IdleDone
  <2>4. Sign[r] * 0 = 0
    <3>1. Sign[r] \in {1, -1}
      BY LedgerAssumption
    <3> QED BY <3>1
  <2>5. /\ OpenShare(f, x, r, d) = 0 /\ CreditShare(f, x, r, d) = 0 /\ PositionShare(f, x, r, 0, d) = 0
        /\ OpenKept(f, x, r, d) = 0 /\ CreditKept(f, x, r, d) = 0
    BY <1>8, <2>1, <2>2, <2>3, <2>4 DEF OpenShare, CreditShare, PositionShare, OpenKept, CreditKept
  <2>6. Frm(r) = f /\ Res(r) = x /\ noted[r] = 0
    BY <1>7, <2>1
  <2> QED BY <2>5, <2>6 DEF OpenOf, CreditOf, PositionOf, OpenTaken, CreditTaken
<1>11. ASSUME NEW g, \A r \in Refs : g[r] = 0 PROVE SumFunctionOnSet(g, Refs) = 0
  <2>1. SumFunctionOnSet(g, {}) = SumFunctionOnSet(g, Refs)
    BY <1>1, <1>11, SumSupport
  <2> QED BY <2>1, SumEmpty
<1>12. ASSUME NEW d \in Dims
       PROVE  /\ SumFunctionOnSet(OpenOf(d), Refs) = 0 /\ SumFunctionOnSet(CreditOf(d), Refs) = 0
              /\ SumFunctionOnSet(PositionOf(d), Refs) = 0
              /\ SumFunctionOnSet(OpenTaken(d), Refs) = 0 /\ SumFunctionOnSet(CreditTaken(d), Refs) = 0
  BY <1>10, <1>11
<1>13. CounterInv
  BY <1>1, <1>2, <1>12 DEF CounterInv
<1>14. LimitInv
  BY <1>1, <1>2, <1>12 DEF LimitInv
<1> QED BY <1>5, <1>9, <1>13, <1>14 DEF LedgerInv

LEMMA LedgerKept ==
  ASSUME LedgerInv, UNCHANGED <<counter, table, call, used, noted, booked, uncut>>
  PROVE  LedgerInv'
<1>1. \A r : Frm(r)' = Frm(r) /\ Held(r)' = Held(r) /\ Res(r)' = Res(r)
  BY DEF Frm, Quiet, Held, Res
<1>2. Types' /\ CallsInv'
  BY DEF LedgerInv, Types, CallsInv
<1>3. \A r \in Refs : OrderInv(r)' /\ AgreeInv(r)'
  BY <1>1 DEF LedgerInv, OrderInv, AgreeInv, OrderFits, AgreeFits
<1>4. \A d : /\ OpenOf(d)' = OpenOf(d) /\ CreditOf(d)' = CreditOf(d) /\ PositionOf(d)' = PositionOf(d)
             /\ OpenTaken(d)' = OpenTaken(d) /\ CreditTaken(d)' = CreditTaken(d)
  BY <1>1 DEF OpenOf, CreditOf, PositionOf, OpenTaken, CreditTaken
<1>5. CounterInv' /\ LimitInv'
  BY <1>4 DEF LedgerInv, CounterInv, LimitInv
<1> QED BY <1>2, <1>3, <1>5 DEF LedgerInv

LEMMA LedgerNext ==
  ASSUME LedgerInv, ReservationsFindable, [Next]_vars
  PROVE  LedgerInv'
<1>1. CASE UNCHANGED vars
  BY <1>1, LedgerKept DEF vars
<1>2. ASSUME NEW d \in Halting, halt(d) PROVE LedgerInv'
  BY <1>2, LedgerKept DEF halt, book
<1>3. ASSUME NEW c \in Callers, Step(c) PROVE LedgerInv'
  BY <1>3, AtomicAddStep, reserve_exposureStep, reserve_creditStep, allocate_reservationStep,
     free_reservationStep, NoteFilledStep, ResizeStep, ReplaceTakenStep, ReplaceRefusedStep DEF Step
<1>4. ASSUME NEW c \in Callers, NEW r \in Refs, Call(c, r) PROVE LedgerInv'
  <2>1. ASSUME NEW v \in Volumes, reserve(c, r, v) PROVE LedgerInv'
    BY <2>1, reserveStep
  <2>2. ASSUME NEW v \in Volumes, adjust_replace(c, r, v) PROVE LedgerInv'
    BY <2>2, adjust_replaceStep
  <2>3. ASSUME release(c, r) PROVE LedgerInv'
    BY <2>3, releaseStep
  <2>4. ASSUME NEW v \in Volumes \cup {0}, NEW gone \in BOOLEAN, Seen(r, v, gone), reconcile(c, r, v, gone)
        PROVE  LedgerInv'
    BY <2>4, reconcileStep
  <2> QED BY <1>4, <2>1, <2>2, <2>3, <2>4 DEF Call
<1> QED BY <1>1, <1>2, <1>3, <1>4 DEF Next

-----------------------------------------------------------------------------
(* What the invariant says about the table. *)

\* The orders behind the slots of Through(d).
Behind(d) == {r \in Refs : Quiet(r) /\ Held(r) # {} /\ d \in Along(r)}

LEMMA SlotSum ==
  ASSUME Types, ReservationsFindable, NEW d, NEW F, NEW G,
         \A p \in Through(d) : G[p] \in Int /\ G[p] = F[table[p].ref]
  PROVE  SumFunctionOnSet(G, Through(d)) = SumFunctionOnSet(F, Behind(d))
<1>1. IsFiniteSet(Through(d))
  <2>1. TableCapacity \in Nat /\ 0 \in Int /\ TableCapacity - 1 \in Int
    BY LedgerAssumption
  <2>2. IsFiniteSet(Slots)
    BY <2>1, FS_Interval DEF Slots
  <2>3. Through(d) \in SUBSET Slots
    BY DEF Through, Settled
  <2> QED BY <2>2, <2>3, FS_Subset
<1>2. \A p \in Through(d) : /\ p \in Slots /\ table[p] \in Reservation /\ table[p] # Void /\ Quiet(table[p].ref)
                            /\ table[p].ref \in Refs /\ d \in Along(table[p].ref)
  BY DEF Through, Settled, Types, Reservation, Along
<1>3. PICK h : h = [p \in Through(d) |-> table[p].ref]
  OBVIOUS
<1>4. {h[p] : p \in Through(d)} = Behind(d)
  <2>1. ASSUME NEW p \in Through(d) PROVE h[p] \in Behind(d)
    BY <1>2, <1>3 DEF Behind, Held
  <2>2. ASSUME NEW r \in Behind(d) PROVE \E p \in Through(d) : h[p] = r
    <3>1. PICK p \in Slots : table[p] # Void /\ table[p].ref = r
      BY DEF Behind, Held
    <3>2. p \in Through(d)
      BY <3>1 DEF Behind, Through, Settled, Along
    <3> QED BY <1>3, <3>1, <3>2
  <2> QED BY <2>1, <2>2
<1>5. \A p, q \in Through(d) : h[p] = h[q] => p = q
  BY <1>2, <1>3 DEF ReservationsFindable
<1>6. IsFiniteSet({h[p] : p \in Through(d)})
  <2>1. Behind(d) \in SUBSET Refs /\ IsFiniteSet(Refs)
    BY LedgerAssumption DEF Behind
  <2> QED BY <1>4, <2>1, FS_Subset
<1>7. PICK T : T = Through(d)
  OBVIOUS
<1>8. /\ IsFiniteSet(T) /\ \A p \in T : G[p] \in Int /\ G[p] = F[h[p]]
      /\ \A p, q \in T : h[p] = h[q] => p = q
      /\ IsFiniteSet({h[p] : p \in T})
  BY <1>1, <1>3, <1>5, <1>6, <1>7
<1>9. SumFunctionOnSet(G, T) = SumFunctionOnSet(F, {h[p] : p \in T})
  BY <1>8, SumRenamed
<1> QED BY <1>4, <1>7, <1>9

\* The reservation in a settled slot is the one of its order.
LEMMA SlotIsRes ==
  ASSUME Types, ReservationsFindable, NEW p \in Slots, table[p] # Void
  PROVE  table[p].ref \in Refs /\ Res(table[p].ref) = table[p] /\ table[p] \in Reservation
<1>1. table[p] \in Reservation /\ table[p].ref \in Refs
  BY DEF Types, Reservation
<1>2. PICK r \in Refs : r = table[p].ref
  BY <1>1
<1>3. probe(r) = p
  BY <1>2 DEF ReservationsFindable
<1>4. Reserved(r)
  BY <1>3, ProbeFacts DEF Reserved
<1>5. Res(r) = table[p]
  BY <1>3, <1>4, HeldFacts
<1> QED BY <1>1, <1>2, <1>5

\* Nothing that was checked is negative.
LEMMA KeptNat ==
  ASSUME LedgerInv, ReservationsFindable, uncut = {}, NEW r \in Refs, NEW d \in Dims
  PROVE  OpenTaken(d)[r] \in Nat /\ CreditTaken(d)[r] \in Nat
<1>1. Types /\ CallsInv /\ OrderInv(r) /\ AgreeInv(r)
  BY DEF LedgerInv
<1>2. PICK f \in FrameT : f = Frm(r) /\ TodoInv(f) /\ (f = Idle \/ f.ref = r)
  BY <1>1, FrameTypes
<1>3. PICK x \in Reservation : x = Res(r)
  BY <1>1, HeldFacts
<1>4. OrderFits(r, f, x) /\ AgreeFits(r, f, x)
  BY <1>1, <1>2, <1>3 DEF OrderInv, AgreeInv
<1>5. f.todo \in Seq(AddT) /\ Distinct(f.todo) /\ f.volume \in Int /\ f.pc \in Pcs
  BY <1>2 DEF FrameT, TodoInv
<1>6. PICK o \in Int : o = Due(f.todo, "open", d) /\ o <= 0
  <2>1. Due(f.todo, "open", d) \in Int
    BY <1>5, DueCases
  <2>2. \/ Due(f.todo, "open", d) = 0
        \/ \E i \in DOMAIN f.todo : f.todo[i].counter = "open" /\ f.todo[i].dim = d /\ Due(f.todo, "open", d) = f.todo[i].by
    BY <1>5, DueCases
  <2> QED BY <1>2, <2>1, <2>2 DEF TodoInv
<1>7. PICK k \in Int : k = Due(f.todo, "credit", d) /\ k >= 0
  <2>1. Due(f.todo, "credit", d) \in Int
    BY <1>5, DueCases
  <2>2. \/ Due(f.todo, "credit", d) = 0
        \/ \E i \in DOMAIN f.todo : f.todo[i].counter = "credit" /\ f.todo[i].dim = d /\ Due(f.todo, "credit", d) = f.todo[i].by
    BY <1>5, DueCases
  <2> QED BY <1>2, <2>1, <2>2 DEF TodoInv
<1>8. /\ x.requested \in Nat /\ x.filled \in Nat /\ x.credit \in Nat /\ Own(x) = x.requested - x.filled
      /\ noted[r] \in Nat /\ booked[r] \in Nat
  BY <1>1, Numbers DEF Types
<1>9. Held(r) = {} => x.requested = 0 /\ x.filled = 0
  BY <1>3 DEF Res
<1>10. f.pc \in {"expose", "grow", "credit", "store"} => f.volume \in Nat
  <2>1. CASE Quiet(r)
    BY <1>2, <2>1, FrameQuiet DEF Idle, Frame
  <2>2. CASE ~Quiet(r)
    <3>1. PICK c \in Callers : call[c].ref = r
      BY <2>2 DEF Quiet
    <3>2. f = call[c]
      BY <1>1, <1>2, <3>1, FrameOf
    <3> QED BY <1>1, <3>2 DEF CallsInv, FrameInv
  <2> QED BY <2>1, <2>2
<1>11. Held(r) # {} => x.filled = noted[r] /\ booked[r] > noted[r]
  BY <1>4 DEF OrderFits, AgreeFits
<1>12. f.pc \in {"idle", "asked"} => Own(x) >= 0
  BY <1>4, <1>8, <1>9, <1>11 DEF AgreeFits, OrderFits
<1>13. f.pc # "idle" => Own(x) + OpenDone(f, x, r, d) >= 0 /\ OpenDone(f, x, r, d) \in Int
  <2>1. CASE f.pc \in {"expose", "credit", "store"}
    <3>1. Held(r) = {}
      BY <1>4, <2>1 DEF OrderFits
    <3> QED BY <1>8, <1>9, <1>10, <2>1, <3>1 DEF OpenDone
  <2>2. CASE f.pc = "grow"
    <3>1. Held(r) # {} /\ x.requested = booked[r]
      BY <1>4, <2>2 DEF OrderFits, AgreeFits
    <3> QED BY <1>8, <1>10, <1>11, <2>2, <3>1 DEF OpenDone
  <2>3. CASE f.pc \in {"resize", "undo"}
    <3>1. Held(r) # {} /\ x.requested + f.volume > noted[r]
      BY <1>4, <1>11, <2>3 DEF OrderFits, AgreeFits
    <3> QED BY <1>5, <1>8, <1>11, <2>3, <3>1 DEF OpenDone
  <2>4. CASE f.pc = "free"
    <3>1. Held(r) # {} /\ x.requested = booked[r]
      BY <1>4, <2>4 DEF OrderFits, AgreeFits
    <3> QED BY <1>8, <1>11, <2>4, <3>1 DEF OpenDone
  <2>5. CASE f.pc = "note"
    <3>1. Held(r) # {} /\ x.requested = booked[r] /\ f.volume < booked[r]
      BY <1>4, <2>5 DEF OrderFits, AgreeFits
    <3> QED BY <1>5, <1>8, <1>11, <2>5, <3>1 DEF OpenDone
  <2>6. CASE f.pc = "asked"
    BY <1>8, <1>12, <2>6 DEF OpenDone
  <2> QED BY <1>5, <2>1, <2>2, <2>3, <2>4, <2>5, <2>6 DEF Pcs
<1>14. OpenKept(f, x, r, d) \in Nat
  <2>1. CASE f.pc = "idle"
    BY <1>8, <1>12, <2>1 DEF OpenKept
  <2>2. CASE f.pc # "idle"
    <3>1. OpenShare(f, x, r, d) = IF d \in Along(r) THEN Own(x) + OpenDone(f, x, r, d) - o ELSE 0
      BY <1>6 DEF OpenShare
    <3>2. PICK w \in Int : w = OpenDone(f, x, r, d)
      BY <1>13, <2>2
    <3> QED BY <1>6, <1>8, <1>13, <2>2, <3>1, <3>2 DEF OpenKept
  <2> QED BY <2>1, <2>2
<1>15. CreditKept(f, x, r, d) \in Nat
  <2>1. CASE f.pc = "idle"
    BY <1>8, <2>1 DEF CreditKept
  <2>2. CASE f.pc # "idle"
    <3>1. CreditDone(f, x, r, d) \in Int /\ x.credit + CreditDone(f, x, r, d) >= 0
      BY <1>5, <1>8, <1>10 DEF CreditDone, Pcs
    <3>2. CreditShare(f, x, r, d) = IF d \in Along(r) THEN x.credit + CreditDone(f, x, r, d) + k ELSE 0
      BY <1>7 DEF CreditShare
    <3> QED BY <1>7, <1>8, <2>2, <3>1, <3>2 DEF CreditKept
  <2> QED BY <2>1, <2>2
<1> QED BY <1>2, <1>3, <1>14, <1>15 DEF OpenTaken, CreditTaken

LEMMA LimitsKept ==
  ASSUME LedgerInv, ReservationsFindable
  PROVE  NeverOversubscribed
<1> SUFFICES ASSUME uncut = {}, NEW d \in Dims
             PROVE  OpenVolume(d) <= OpenLimit[d] /\ CreditHeld(d) <= Budget[d]
  BY DEF NeverOversubscribed
<1>1. Types /\ LimitInv /\ IsFiniteSet(Refs)
  BY LedgerAssumption DEF LedgerInv
<1>2. PICK a, b : a = OpenTaken(d) /\ b = CreditTaken(d)
  OBVIOUS
<1>3. PICK G, K : /\ G = [p \in Through(d) |-> table[p].requested - table[p].filled]
                  /\ K = [p \in Through(d) |-> table[p].credit]
  OBVIOUS
<1>4. ASSUME NEW p \in Through(d)
      PROVE  G[p] \in Int /\ G[p] = a[table[p].ref] /\ K[p] \in Int /\ K[p] = b[table[p].ref]
  <2>1. p \in Slots /\ table[p] # Void /\ Quiet(table[p].ref) /\ d \in Along(table[p].ref)
    BY DEF Through, Settled, Along
  <2>2. table[p].ref \in Refs /\ Res(table[p].ref) = table[p] /\ table[p] \in Reservation
    BY <1>1, <2>1, SlotIsRes
  <2>3. PICK r \in Refs : r = table[p].ref
    BY <2>2
  <2>4. Frm(r) = Idle /\ Idle.pc = "idle" /\ Res(r) = table[p]
    BY <2>1, <2>2, <2>3, FrameQuiet, IdleFacts
  <2>5. a[r] = Own(table[p]) /\ b[r] = table[p].credit
    BY <1>2, <2>1, <2>3, <2>4 DEF OpenTaken, CreditTaken, OpenKept, CreditKept
  <2>6. G[p] = Own(table[p]) /\ K[p] = table[p].credit
    BY <1>3 DEF Own
  <2>7. Own(table[p]) \in Int /\ table[p].credit \in Int
    BY <2>2 DEF Own, Reservation
  <2> QED BY <2>3, <2>5, <2>6, <2>7
<1>5. /\ SumFunctionOnSet(G, Through(d)) = SumFunctionOnSet(a, Behind(d))
      /\ SumFunctionOnSet(K, Through(d)) = SumFunctionOnSet(b, Behind(d))
  <2>1. \A p \in Through(d) : G[p] \in Int /\ G[p] = a[table[p].ref]
    BY <1>4
  <2>2. \A p \in Through(d) : K[p] \in Int /\ K[p] = b[table[p].ref]
    BY <1>4
  <2>3. SumFunctionOnSet(G, Through(d)) = SumFunctionOnSet(a, Behind(d))
    BY <1>1, <2>1, SlotSum
  <2>4. SumFunctionOnSet(K, Through(d)) = SumFunctionOnSet(b, Behind(d))
    BY <1>1, <2>2, SlotSum
  <2> QED BY <2>3, <2>4
<1>6. /\ SumFunctionOnSet(a, Behind(d)) <= SumFunctionOnSet(a, Refs)
      /\ SumFunctionOnSet(b, Behind(d)) <= SumFunctionOnSet(b, Refs)
  <2>1. Behind(d) \in SUBSET Refs
    BY DEF Behind
  <2>2. \A r \in Refs : a[r] \in Nat /\ b[r] \in Nat
    BY <1>2, KeptNat
  <2> QED BY <1>1, <2>1, <2>2, SumSubset
<1>7. SumFunctionOnSet(a, Refs) <= OpenLimit[d] /\ SumFunctionOnSet(b, Refs) <= Budget[d]
  BY <1>1, <1>2 DEF LimitInv
<1>8. /\ SumFunctionOnSet(a, Refs) \in Int /\ SumFunctionOnSet(b, Refs) \in Int
      /\ SumFunctionOnSet(a, Behind(d)) \in Int /\ SumFunctionOnSet(b, Behind(d)) \in Int
  <2>1. Behind(d) \in SUBSET Refs
    BY DEF Behind
  <2>2. IsFiniteSet(Behind(d))
    BY <1>1, <2>1, FS_Subset
  <2>3. \A r \in Refs : a[r] \in Int /\ b[r] \in Int
    BY <1>2, KeptNat
  <2> QED BY <1>1, <2>1, <2>2, <2>3, SumInt
<1>9. OpenVolume(d) = SumFunctionOnSet(G, Through(d)) /\ CreditHeld(d) = SumFunctionOnSet(K, Through(d))
  BY <1>3 DEF OpenVolume, CreditHeld
<1>10. OpenLimit[d] \in Int /\ Budget[d] \in Int
  BY LedgerAssumption
<1> QED BY <1>5, <1>6, <1>7, <1>8, <1>9, <1>10

LEMMA CountersKept ==
  ASSUME LedgerInv, ReservationsFindable
  PROVE  CountersExact
<1> SUFFICES ASSUME AllIdle, NEW d \in Dims
             PROVE  /\ uncut = {} => counter.open[d] = OpenVolume(d)
                    /\ counter.credit[d] = Budget[d] - CreditHeld(d)
                    /\ counter.position[d] = Filled(d)
  BY DEF CountersExact
<1>1. Types /\ CounterInv /\ IsFiniteSet(Refs)
  BY LedgerAssumption DEF LedgerInv
<1>2. PICK o, k, p : o = OpenOf(d) /\ k = CreditOf(d) /\ p = PositionOf(d)
  OBVIOUS
<1>3. \A r \in Refs : Quiet(r)
  BY LedgerAssumption DEF AllIdle, Quiet, Idle, Frame
<1>4. PICK f : f = Idle
  OBVIOUS
<1>5. ASSUME NEW r \in Refs
      PROVE  /\ o[r] = IF d \in Along(r) THEN Own(Res(r)) ELSE 0
             /\ k[r] = IF d \in Along(r) THEN Res(r).credit ELSE 0
             /\ p[r] = IF d \in Along(r) THEN Sign[r] * noted[r] ELSE 0
             /\ Own(Res(r)) \in Int /\ Res(r).credit \in Int /\ Sign[r] * noted[r] \in Int
             /\ Held(r) = {} => Own(Res(r)) = 0 /\ Res(r).credit = 0
  <2>1. PICK x \in Reservation : x = Res(r)
    BY <1>1, HeldFacts
  <2>2. PICK n \in Nat : n = noted[r]
    BY <1>1 DEF Types
  <2>3. Frm(r) = f
    BY <1>3, <1>4, FrameQuiet
  <2>4. /\ \A e : OpenDone(f, x, r, e) = 0 /\ CreditDone(f, x, r, e) = 0
        /\ Owes(f.todo, r, {}, 0, {}, 0, {}, 0) /\ f.pc = "idle" /\ f.volume = 0
    BY <1>4, IdleDone
  <2>5. Due(f.todo, "open", d) = 0 /\ Due(f.todo, "credit", d) = 0 /\ Due(f.todo, "position", d) = 0
    BY <2>4 DEF Owes
  <2>6. Own(x) \in Int /\ x.credit \in Nat /\ Sign[r] * n \in Int
    BY Numbers
  <2>7. /\ OpenShare(f, x, r, d) = IF d \in Along(r) THEN Own(x) ELSE 0
        /\ CreditShare(f, x, r, d) = IF d \in Along(r) THEN x.credit ELSE 0
    BY <2>4, <2>5, <2>6 DEF OpenShare, CreditShare
  <2>8. PositionShare(f, x, r, n, d) = IF d \in Along(r) THEN Sign[r] * n ELSE 0
    BY <2>4, <2>5, <2>6 DEF PositionShare
  <2>9. o[r] = OpenShare(f, x, r, d) /\ k[r] = CreditShare(f, x, r, d) /\ p[r] = PositionShare(f, x, r, n, d)
    BY <1>2, <2>1, <2>2, <2>3 DEF OpenOf, CreditOf, PositionOf
  <2>10. Held(r) = {} => Own(x) = 0 /\ x.credit = 0
    BY <2>1 DEF Res, Own
  <2> QED BY <2>1, <2>2, <2>6, <2>7, <2>8, <2>9, <2>10
<1>6. PICK G, K : /\ G = [q \in Through(d) |-> table[q].requested - table[q].filled]
                  /\ K = [q \in Through(d) |-> table[q].credit]
  OBVIOUS
<1>7. ASSUME NEW q \in Through(d)
      PROVE  G[q] \in Int /\ G[q] = o[table[q].ref] /\ K[q] \in Int /\ K[q] = k[table[q].ref]
  <2>1. q \in Slots /\ table[q] # Void /\ d \in Along(table[q].ref)
    BY DEF Through, Settled, Along
  <2>2. PICK r \in Refs : r = table[q].ref /\ Res(r) = table[q]
    BY <1>1, <2>1, SlotIsRes
  <2>3. G[q] = Own(Res(r)) /\ K[q] = Res(r).credit
    BY <1>6, <2>2 DEF Own
  <2> QED BY <1>5, <2>1, <2>2, <2>3
<1>8. /\ SumFunctionOnSet(G, Through(d)) = SumFunctionOnSet(o, Behind(d))
      /\ SumFunctionOnSet(K, Through(d)) = SumFunctionOnSet(k, Behind(d))
  <2>1. \A q \in Through(d) : G[q] \in Int /\ G[q] = o[table[q].ref]
    BY <1>7
  <2>2. \A q \in Through(d) : K[q] \in Int /\ K[q] = k[table[q].ref]
    BY <1>7
  <2>3. SumFunctionOnSet(G, Through(d)) = SumFunctionOnSet(o, Behind(d))
    BY <1>1, <2>1, SlotSum
  <2>4. SumFunctionOnSet(K, Through(d)) = SumFunctionOnSet(k, Behind(d))
    BY <1>1, <2>2, SlotSum
  <2> QED BY <2>3, <2>4
<1>9. /\ SumFunctionOnSet(o, Behind(d)) = SumFunctionOnSet(o, Refs)
      /\ SumFunctionOnSet(k, Behind(d)) = SumFunctionOnSet(k, Refs)
  <2>1. Behind(d) \in SUBSET Refs
    BY DEF Behind
  <2>2. \A r \in Refs : o[r] \in Int /\ k[r] \in Int
    BY <1>5
  <2>3. \A r \in Refs \ Behind(d) : o[r] = 0 /\ k[r] = 0
    BY <1>3, <1>5 DEF Behind
  <2> QED BY <1>1, <2>1, <2>2, <2>3, SumSupport
<1>10. OpenVolume(d) = SumFunctionOnSet(G, Through(d)) /\ CreditHeld(d) = SumFunctionOnSet(K, Through(d))
  BY <1>6 DEF OpenVolume, CreditHeld
<1>11. Filled(d) = SumFunctionOnSet(p, Refs)
  <2>1. PICK S \in SUBSET Refs : S = {r \in Refs : d \in ToSet(Path[r])}
    OBVIOUS
  <2>2. PICK g : g = [r \in Refs |-> Sign[r] * noted[r]]
    OBVIOUS
  <2>3. \A r \in Refs : p[r] \in Int
    BY <1>5
  <2>4. \A r \in Refs \ S : p[r] = 0
    BY <1>5, <2>1 DEF Along
  <2>5. SumFunctionOnSet(p, S) = SumFunctionOnSet(p, Refs)
    BY <1>1, <2>3, <2>4, SumSupport
  <2>6. \A r \in S : p[r] \in Int /\ p[r] = g[r]
    BY <1>5, <2>1, <2>2 DEF Along
  <2>7. IsFiniteSet(S)
    BY <1>1, FS_Subset
  <2>8. SumFunctionOnSet(p, S) = SumFunctionOnSet(g, S)
    BY <2>6, <2>7, SumSame
  <2> QED BY <2>1, <2>2, <2>5, <2>8 DEF Filled
<1>12. /\ uncut = {} => counter["open"][d] = SumFunctionOnSet(o, Refs)
       /\ counter["credit"][d] = Budget[d] - SumFunctionOnSet(k, Refs)
       /\ counter["position"][d] = SumFunctionOnSet(p, Refs)
  BY <1>1, <1>2 DEF CounterInv
<1> QED BY <1>8, <1>9, <1>10, <1>11, <1>12
-----------------------------------------------------------------------------
(* Between calls every counter is what the reservations and the fills add up to, whatever    *)
(* order the atomic adds, the checks and the unwinding of the threads came in, provided each *)
(* reservation is found by its own probe run.                                                *)
THEOREM LedgerExact == Spec /\ []ReservationsFindable => []CountersExact
<1>1. Init => LedgerInv
  BY LedgerInit
<1>2. LedgerInv /\ ReservationsFindable /\ [Next]_vars => LedgerInv'
  BY LedgerNext
<1>3. LedgerInv /\ ReservationsFindable => CountersExact
  BY CountersKept
<1> QED BY <1>1, <1>2, <1>3, PTL DEF Spec

(* No interleaving of reserve, adjust_replace, reconcile and release lets the admitted       *)
(* reservations exceed the limit or the budget of a dimension, provided each reservation is  *)
(* found by its own probe run and the order book refuses no decrease.                        *)
THEOREM LimitsHold == Spec /\ []ReservationsFindable => []NeverOversubscribed
<1>1. Init => LedgerInv
  BY LedgerInit
<1>2. LedgerInv /\ ReservationsFindable /\ [Next]_vars => LedgerInv'
  BY LedgerNext
<1>3. LedgerInv /\ ReservationsFindable => NeverOversubscribed
  BY LimitsKept
<1> QED BY <1>1, <1>2, <1>3, PTL DEF Spec

-----------------------------------------------------------------------------
(* Without collisions. *)

HomesApart == \A r, e \in Refs : Home[r] = Home[e] => r = e

\* Every reservation is where the probing for it begins.
InPlace == \A p \in Slots : table[p] # Void => Home[table[p].ref] = p

LEMMA ProbeHome ==
  ASSUME HomesApart, Types, InPlace, NEW r \in Refs
  PROVE  probe(r) = Home[r] /\ Home[r] \in Slots
<1> DEFINE stops == {k \in Slots : Stops(r, Pos(r, k))}
<1>1. TableCapacity \in Nat /\ Home[r] \in Slots /\ Home[r] \in Nat /\ Home[r] < TableCapacity
  BY LedgerAssumption DEF Slots
<1>2. 0 \in Slots
  BY <1>1 DEF Slots
<1>3. Pos(r, 0) = Home[r]
  BY <1>1 DEF Pos
<1>4. Stops(r, Home[r])
  <2>1. ASSUME table[Home[r]] # Void PROVE table[Home[r]].ref = r
    <3>1. table[Home[r]] \in Reservation
      BY <1>1, <2>1 DEF Types
    <3>2. table[Home[r]].ref \in Refs
      BY <3>1 DEF Reservation
    <3>3. Home[table[Home[r]].ref] = Home[r]
      BY <1>1, <2>1 DEF InPlace
    <3> QED BY <3>2, <3>3 DEF HomesApart
  <2> QED BY <2>1 DEF Stops
<1>5. 0 \in stops
  BY <1>2, <1>3, <1>4
<1>6. \A k \in stops : k \in Nat
  BY <1>1 DEF Slots
<1> HIDE DEF stops
<1>7. Min(stops) = 0
  <2>1. \A k \in stops : 0 <= k /\ k \in Nat
    BY <1>6
  <2>2. \A m \in stops : (\A k \in stops : m <= k) => m = 0
    BY <1>5, <2>1
  <2> QED BY <1>5, <2>1, <2>2 DEF Min
<1>8. probe(r) = Pos(r, Min(stops))
  BY <1>5 DEF probe, stops
<1> QED BY <1>1, <1>3, <1>7, <1>8

LEMMA PlacesFind ==
  ASSUME HomesApart, Types, InPlace
  PROVE  ReservationsFindable
<1> SUFFICES ASSUME NEW p \in Slots, table[p] # Void PROVE probe(table[p].ref) = p
  BY DEF ReservationsFindable
<1>1. table[p].ref \in Refs
  BY DEF Types, Reservation
<1> QED BY <1>1, ProbeHome DEF InPlace

\* A store of r's reservation, or of none, where the probing for r ends.
LEMMA PlaceStored ==
  ASSUME HomesApart, Types, InPlace, NEW r \in Refs, NEW z, z = Void \/ z.ref = r,
         table' = [table EXCEPT ![probe(r)] = z]
  PROVE  InPlace'
<1>1. probe(r) = Home[r] /\ Home[r] \in Slots
  BY ProbeHome
<1>2. \A p \in Slots : table'[p] = IF p = Home[r] THEN z ELSE table[p]
  BY <1>1 DEF Types
<1> QED BY <1>2 DEF InPlace

LEMMA PlacesNext ==
  ASSUME HomesApart, LedgerInv, InPlace, [Next]_vars
  PROVE  InPlace'
<1>1. Types /\ ReservationsFindable
  BY PlacesFind DEF LedgerInv
<1>2. ASSUME table' = table PROVE InPlace'
  BY <1>2 DEF InPlace
<1>3. ASSUME NEW c \in Callers, call[c].todo = <<>>, call[c].pc # "idle"
      PROVE  /\ call[c].ref \in Refs
             /\ call[c].pc \in {"free", "note", "note_gone", "resize", "undo"} =>
                  probe(call[c].ref) \in Slots /\ table[probe(call[c].ref)] \in Reservation
                  /\ table[probe(call[c].ref)].ref = call[c].ref
  <2>1. call[c] # Idle
    BY <1>3 DEF Idle, Frame
  <2>2. PICK r \in Refs : r = call[c].ref /\ call[c] \in FrameT /\ Frm(r) = call[c] /\ OrderInv(r)
    BY <1>1, <2>1, ActiveCall
  <2>3. ASSUME call[c].pc \in {"free", "note", "note_gone", "resize", "undo"}
        PROVE  probe(r) \in Slots /\ table[probe(r)] \in Reservation /\ table[probe(r)].ref = r
    <3>1. Held(r) # {}
      BY <2>2, <2>3 DEF OrderInv, OrderFits, FrameT, Pcs
    <3>2. probe(r) \in Held(r)
      BY <1>1, <3>1, HeldFacts
    <3> QED BY <1>1, <3>2 DEF Held, Types
  <2> QED BY <2>2, <2>3
<1>4. ASSUME NEW c \in Callers, allocate_reservation(c) PROVE InPlace'
  <2>1. call[c].todo = <<>> /\ call[c].pc # "idle"
    BY <1>4 DEF allocate_reservation, Ready
  <2>2. PICK r \in Refs : r = call[c].ref
    BY <1>3, <2>1
  <2>3. PICK z : z = [ref |-> r, requested |-> call[c].volume, filled |-> 0, credit |-> call[c].volume]
    OBVIOUS
  <2>4. table' = table \/ table' = [table EXCEPT ![probe(r)] = z]
    BY <1>4, <2>2, <2>3 DEF allocate_reservation
  <2>5. z.ref = r
    BY <2>3
  <2> QED BY <1>1, <1>2, <2>4, <2>5, PlaceStored
<1>5. ASSUME NEW c \in Callers, free_reservation(c) PROVE InPlace'
  <2>1. call[c].todo = <<>> /\ call[c].pc # "idle"
    BY <1>5 DEF free_reservation, Ready
  <2>2. PICK r \in Refs : r = call[c].ref
    BY <1>3, <2>1
  <2>3. PICK z : z = Void
    OBVIOUS
  <2>4. table' = [table EXCEPT ![probe(r)] = z]
    BY <1>5, <2>2, <2>3 DEF free_reservation
  <2> QED BY <1>1, <2>3, <2>4, PlaceStored
<1>6. ASSUME NEW c \in Callers, NoteFilled(c) PROVE InPlace'
  <2>1. call[c].todo = <<>> /\ call[c].pc \in {"note", "note_gone"}
    BY <1>6 DEF NoteFilled, Ready
  <2>2. PICK r \in Refs : r = call[c].ref
    BY <1>3, <2>1
  <2>3. table[probe(r)] \in Reservation /\ table[probe(r)].ref = r
    BY <1>3, <2>1, <2>2
  <2>4. PICK z : z = [table[probe(r)] EXCEPT !.filled = call[c].volume]
    OBVIOUS
  <2>5. table' = [table EXCEPT ![probe(r)] = z]
    BY <1>6, <2>2, <2>4 DEF NoteFilled, Noted
  <2>6. z.ref = r
    BY <2>3, <2>4 DEF Reservation
  <2> QED BY <1>1, <2>5, <2>6, PlaceStored
<1>7. ASSUME NEW c \in Callers, Resize(c) PROVE InPlace'
  <2>1. call[c].todo = <<>> /\ call[c].pc \in {"resize", "undo"}
    BY <1>7 DEF Resize, Ready
  <2>2. PICK r \in Refs : r = call[c].ref
    BY <1>3, <2>1
  <2>3. table[probe(r)] \in Reservation /\ table[probe(r)].ref = r
    BY <1>3, <2>1, <2>2
  <2>4. PICK z : z = [table[probe(r)] EXCEPT !.requested = table[probe(r)].requested + call[c].volume]
    OBVIOUS
  <2>5. table' = [table EXCEPT ![probe(r)] = z]
    BY <1>7, <2>2, <2>4 DEF Resize
  <2>6. z.ref = r
    BY <2>3, <2>4 DEF Reservation
  <2> QED BY <1>1, <2>5, <2>6, PlaceStored
<1>8. ASSUME NEW c \in Callers, Step(c) PROVE InPlace'
  BY <1>2, <1>4, <1>5, <1>6, <1>7, <1>8
     DEF Step, AtomicAdd, reserve_exposure, reserve_credit, ReplaceTaken, ReplaceRefused
<1>9. ASSUME NEW c \in Callers, NEW r \in Refs, Call(c, r) PROVE InPlace'
  <2>1. table' = table
    BY <1>9 DEF Call, reserve, adjust_replace, release, reconcile
  <2> QED BY <1>2, <2>1
<1>10. ASSUME NEW d \in Halting, halt(d) PROVE InPlace'
  BY <1>2, <1>10 DEF halt
<1> QED BY <1>2, <1>8, <1>9, <1>10 DEF Next, vars

(* The hypothesis of the two theorems can be met: when no two orders begin probing at the     *)
(* same slot, release and reconcile always find the reservation. The code does not ensure     *)
(* that (hash % capacity): collisions, and deletion without tombstones, can lose one.         *)
LEMMA ApartFindable == HomesApart => (Spec => []ReservationsFindable)
<1> SUFFICES ASSUME HomesApart PROVE Spec => []ReservationsFindable
  OBVIOUS
<1>1. Init => LedgerInv /\ InPlace
  <2>1. Init => InPlace
    BY DEF Init, InPlace
  <2> QED BY <2>1, LedgerInit
<1>2. LedgerInv /\ InPlace /\ [Next]_vars => LedgerInv' /\ InPlace'
  <2> SUFFICES ASSUME LedgerInv, InPlace, [Next]_vars PROVE LedgerInv' /\ InPlace'
    OBVIOUS
  <2>1. Types /\ ReservationsFindable
    BY PlacesFind DEF LedgerInv
  <2> QED BY <2>1, LedgerNext, PlacesNext
<1>3. LedgerInv /\ InPlace => ReservationsFindable
  BY PlacesFind DEF LedgerInv
<1> QED BY <1>1, <1>2, <1>3, PTL DEF Spec
=============================================================================
