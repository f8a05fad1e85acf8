------------------------------ MODULE OmsProofs ------------------------------
(***************************************************************************)
(* The order manager.                                                      *)
(*                                                                         *)
(* What the order book guarantees for any references, capacity and volumes *)
(* and any sequence of calls; and, on top of that, that reports are        *)
(* applied exactly once and in the venue's order, for any number of        *)
(* orders, any gap pool and cache, and any stream a venue sends.           *)
(*                                                                         *)
(* The order journal: stop() leaves no accepted record unflushed, and what *)
(* recovery rebuilds from the log a crash leaves is the book as the log's  *)
(* records show it, for any number of orders, shards and records.          *)
(***************************************************************************)
EXTENDS ReportSequencer, LiveJournal, SequenceTheorems, DataProofs

-----------------------------------------------------------------------------
(* The order book. The lemmas on Insert and Settle are used again below. *)

\* The inductive invariant of the book.
BookInv == OmsTypeOK /\ OrdersSound

\* A record that may stand in the book as a live order.
Sound(o) == /\ o \in Order
            /\ reserves_exposure(o.state)
            /\ o.filled_volume <= o.requested_volume
            /\ o.requested_volume > 0

LEMMA SoundOrders == BookInv => \A r \in live : Sound(order[r])
BY DEF BookInv, OmsTypeOK, OrdersSound, Sound

\* A state outside the terminal ones and new_order reserves exposure; no transition leads
\* back to new_order (legal()).
LEMMA LegalTarget ==
  ASSUME NEW a \in OrderStates, NEW b \in OrderStates, legal(a, b)
  PROVE  b # "new_order" /\ (is_terminal(b) \/ reserves_exposure(b))
BY DEF legal, Successors, is_terminal, reserves_exposure, Terminal, OrderStates

\* Adding a sound order keeps the book sound (restore, create).
LEMMA InsertSound ==
  ASSUME BookInv, NEW r \in Refs, NEW o, Sound(o), Insert(r, o), reserved' \in Int
  PROVE  BookInv'
BY DEF BookInv, OmsTypeOK, OrdersSound, Sound, Insert

\* Settling a live order as any record within its volume keeps the book sound: it is
\* either terminal, and gone, or sound.
LEMMA SettleSound ==
  ASSUME BookInv, NEW r \in live, NEW o \in Order, Settle(r, o),
         is_terminal(o.state) \/ Sound(o)
  PROVE  BookInv'
<1>1. o.requested_volume \in Int /\ reserved \in Int
  BY DEF Order, BookInv, OmsTypeOK
<1>2. reserved' \in Int
  BY <1>1 DEF Settle, Released
<1>3. NoOrder \in Order
  BY DEF NoOrder, NewOrder, Order, OrderStates
<1>4. live' \subseteq Refs /\ order' \in [Refs -> Order]
  BY <1>3 DEF Settle, BookInv, OmsTypeOK
<1>5. ASSUME NEW q \in live' PROVE Sound(order'[q])
  <2>1. q \in live
    BY <1>5 DEF Settle
  <2>2. CASE q = r
    BY <2>2, <1>5 DEF Settle, Reclaims, BookInv, OmsTypeOK
  <2>3. CASE q # r
    BY <2>1, <2>3, SoundOrders DEF Settle, BookInv, OmsTypeOK
  <2> QED BY <2>2, <2>3
<1> QED BY <1>2, <1>4, <1>5 DEF BookInv, OmsTypeOK, OrdersSound, Sound

\* fill() leaves an order that is sound or finished, whether it succeeds or not.
LEMMA AfterFillSound ==
  ASSUME NEW o, Sound(o), NEW v \in Nat
  PROVE  /\ AfterFill(o, v) \in Order
         /\ is_terminal(AfterFill(o, v).state) \/ Sound(AfterFill(o, v))
<1> DEFINE b == AddFill(o, v)
<1>1. CASE ~Fillable(o, v)
  BY <1>1 DEF AfterFill, Sound
<1>2. CASE Fillable(o, v)
  <2>1. b \in Order /\ b.state = o.state /\ b.filled_volume <= b.requested_volume
        /\ b.requested_volume = o.requested_volume
    BY <1>2 DEF Sound, Order, AddFill, Fillable, remaining
  <2>2. FillTarget(b) \in OrderStates
    BY DEF FillTarget, OrderStates
  <2>3. CASE legal(o.state, FillTarget(b))
    <3>1. AfterFill(o, v) = [b EXCEPT !.state = FillTarget(b)]
      BY <1>2, <2>3 DEF AfterFill
    <3>2. is_terminal(FillTarget(b)) \/ reserves_exposure(FillTarget(b))
      BY <2>2, <2>3, LegalTarget DEF Sound, Order
    <3>3. [b EXCEPT !.state = FillTarget(b)] \in Order
      BY <2>1, <2>2 DEF Order
    <3> QED BY <2>1, <3>1, <3>2, <3>3 DEF Sound, Order
  <2>4. CASE ~legal(o.state, FillTarget(b))
    BY <1>2, <2>1, <2>4 DEF AfterFill, Sound
  <2> QED BY <2>3, <2>4
<1> QED BY <1>1, <1>2

LEMMA TransitionSound ==
  ASSUME BookInv, NEW r \in Refs, NEW s \in OrderStates, transition(r, s)
  PROVE  BookInv'
<1> DEFINE o == [order[r] EXCEPT !.state = s]
<1>1. r \in live /\ Sound(order[r]) /\ Settle(r, o)
  BY SoundOrders DEF transition
<1>2. o \in Order /\ o.state = s
  BY <1>1 DEF Sound, Order
<1>3. is_terminal(s) \/ reserves_exposure(s)
  BY <1>1, LegalTarget DEF transition, Sound, Order
<1>4. is_terminal(o.state) \/ Sound(o)
  BY <1>1, <1>2, <1>3 DEF Sound, Order
<1> QED BY <1>1, <1>2, <1>4, SettleSound

LEMMA FillSound ==
  ASSUME BookInv, NEW r \in Refs, NEW v \in Nat, fill(r, v)
  PROVE  BookInv'
<1>1. r \in live /\ Sound(order[r]) /\ Settle(r, AfterFill(order[r], v))
  BY SoundOrders DEF fill
<1> QED BY <1>1, AfterFillSound, SettleSound

LEMMA CreateSound ==
  ASSUME BookInv, NEW r \in Refs, NEW v \in Nat \ {0}, create(r, v)
  PROVE  BookInv'
<1>1. Sound(NewOrder("pending_send", v, 0))
  BY DEF Sound, Order, NewOrder, OrderStates, reserves_exposure, is_terminal, Terminal
<1>2. reserved' \in Int
  BY DEF create, BookInv, OmsTypeOK
<1> QED BY <1>1, <1>2, InsertSound DEF create

\* The order book is sound for ever: live orders reserve exposure, are not terminal, and
\* are never filled beyond what was asked for - although fill() adds its volume before it
\* knows whether the transition is legal.
THEOREM BookSound == OmsSpec => [](OmsTypeOK /\ OrdersSound)
<1>1. OmsInit => BookInv
  BY DEF OmsInit, BookInv, OmsTypeOK, OrdersSound, NoOrder, NewOrder, Order, OrderStates
<1>2. BookInv /\ [OmsNext]_omsVars => BookInv'
  <2> SUFFICES ASSUME BookInv, [OmsNext]_omsVars PROVE BookInv'
    OBVIOUS
  <2>1. CASE UNCHANGED omsVars
    BY <2>1 DEF omsVars, BookInv, OmsTypeOK, OrdersSound
  <2>2. ASSUME NEW r \in Refs, NEW v \in Volumes, create(r, v) PROVE BookInv'
    BY <2>2, CreateSound, OmsAssumption
  <2>3. ASSUME NEW r \in Refs, NEW v \in Volumes, fill(r, v) PROVE BookInv'
    BY <2>3, FillSound, OmsAssumption
  <2>4. ASSUME NEW r \in Refs, NEW v \in Volumes, recover_fill(r, v) PROVE BookInv'
    <3>1. Sound(order[r]) /\ Fillable(order[r], v) /\ v \in Nat
      BY <2>4, SoundOrders, OmsAssumption DEF recover_fill
    <3>2. Sound(AddFill(order[r], v))
      BY <3>1 DEF Sound, Order, AddFill, Fillable, remaining
    <3> QED BY <2>4, <3>2 DEF recover_fill, BookInv, OmsTypeOK, OrdersSound, Sound
  <2>5. ASSUME NEW r \in Refs, NEW v \in Volumes, NEW s \in RestoredStates,
               NEW f \in Volumes \cup {0}, restore(r, s, v, f)
        PROVE  BookInv'
    <3>1. v \in Nat /\ v > 0 /\ f \in Nat /\ f <= v
      BY <2>5, OmsAssumption DEF restore
    <3>2. Sound(NewOrder(s, v, f))
      BY <3>1 DEF Sound, Order, NewOrder, OrderStates, RestoredStates, reserves_exposure,
                  is_terminal, Terminal
    <3>3. reserved' \in Int
      BY <2>5, <3>1 DEF restore, BookInv, OmsTypeOK
    <3> QED BY <2>5, <3>2, <3>3, InsertSound DEF restore
  <2>6. ASSUME NEW r \in Refs, NEW s \in OrderStates, transition(r, s) PROVE BookInv'
    BY <2>6, TransitionSound
  <2>7. ASSUME NEW r \in Refs, NEW t \in Terminal, resolve_unknown(r, t) PROVE BookInv'
    BY <2>7, TransitionSound DEF resolve_unknown, Terminal, OrderStates
  <2>8. ASSUME NEW r \in Refs, mark_unknown_on_restart(r) PROVE BookInv'
    <3>1. Sound([order[r] EXCEPT !.state = "unknown"])
      BY <2>8, SoundOrders DEF mark_unknown_on_restart, Sound, Order, OrderStates,
                               reserves_exposure, is_terminal, Terminal
    <3> QED BY <2>8, <3>1 DEF mark_unknown_on_restart, BookInv, OmsTypeOK, OrdersSound, Sound
  <2> QED BY <2>1, <2>2, <2>3, <2>4, <2>5, <2>6, <2>7, <2>8 DEF OmsNext
<1> QED BY <1>1, <1>2, PTL DEF OmsSpec, BookInv
-----------------------------------------------------------------------------
(* The sequencer. *)

\* A venue's stream: how it starts, and how each report follows from the one before it.
Opens(rep) == rep.kind \in {"ack", "reject"} /\ rep.cum = 0

Follows(rep, prev) ==
  /\ rep.kind \notin {"ack", "reject"}
  /\ rep.cum = prev.cum + (IF rep.kind = "fill" THEN rep.volume ELSE 0)
  /\ rep.req = IF rep.kind = "replace_ack" THEN rep.volume ELSE prev.req

VenueNumbers ==
  \A r \in Refs : \A n \in 1 .. Len(venue[r]) :
    /\ n = 1 => Opens(venue[r][n])
    /\ n > 1 => Follows(venue[r][n], venue[r][n-1])

\* Nothing is applied or held that the venue has not sent.
OnlySentReports ==
  /\ \A r \in live : order[r].last_applied_seq <= Len(venue[r])
  /\ \A i \in GapSlots : slots[i] # None => slots[i][2] <= Len(venue[slots[i][1]])

\* Before its first report an order has the size the venue was sent.
FirstReport ==
  \A r \in live \ refused :
    order[r].last_applied_seq = 0 /\ venue[r] # <<>>
      => venue[r][1].req = order[r].requested_volume

HeldLive ==
  \A i \in GapSlots : slots[i] # None => slots[i][1] \in live \cup {draining}

NoneReady ==
  \A r \in live \ refused : r # draining =>
    \A i \in GapSlots : slots[i] # <<r, order[r].last_applied_seq + 1>>

SeqInv == /\ TypeOK
          /\ OrdersSound
          /\ VenueNumbers
          /\ OnlySentReports
          /\ FirstReport
          /\ ExactlyOnce
          /\ HeldLive
          /\ NoneReady

LEMMA ReportTyped ==
  ASSUME TypeOK, NEW r \in Refs, NEW n \in 1 .. Len(venue[r])
  PROVE  venue[r][n] \in Report
BY DEF TypeOK

\* The Oms call a report makes leaves a sound order or a finished one.
LEMMA ResultSound ==
  ASSUME NEW o, Sound(o), NEW rep \in Report
  PROVE  /\ Result(o, rep) \in Order
         /\ is_terminal(Result(o, rep).state) \/ Sound(Result(o, rep))
         /\ ~Accepts(o, rep) => Sound(Result(o, rep)) /\ Result(o, rep).last_applied_seq = o.last_applied_seq
<1>1. rep.volume \in Nat /\ rep.kind \in Kinds /\ o \in Order
  BY DEF Report, Sound
<1>2. CASE rep.kind = "fill"
  <2>1. Result(o, rep) = AfterFill(o, rep.volume) /\ (Accepts(o, rep) <=> FillOk(o, rep.volume))
    BY <1>2 DEF Result, Accepts
  <2>2. ASSUME ~FillOk(o, rep.volume)
        PROVE  /\ AfterFill(o, rep.volume).state = o.state
               /\ AfterFill(o, rep.volume).last_applied_seq = o.last_applied_seq
    BY <2>2, <1>1 DEF FillOk, AfterFill, AddFill, Order
  <2> QED BY <1>1, <2>1, <2>2, AfterFillSound DEF Sound, reserves_exposure
<1>3. CASE rep.kind # "fill" /\ ~Accepts(o, rep)
  BY <1>3 DEF Result, Sound
<1>4. CASE rep.kind = "replace_ack" /\ Accepts(o, rep)
  <2>1. Result(o, rep) = [o EXCEPT !.requested_volume = rep.volume]
    BY <1>4 DEF Result
  <2>2. rep.volume > o.filled_volume
    BY <1>4 DEF Accepts, Replaceable
  <2> QED BY <1>1, <1>4, <2>1, <2>2 DEF Sound, Order
<1>5. CASE rep.kind \notin {"fill", "replace_ack"} /\ Accepts(o, rep)
  <2> DEFINE t == ReportTarget(rep.kind)
  <2>1. Result(o, rep) = [o EXCEPT !.state = t]
    BY <1>5 DEF Result
  <2>2. t \in OrderStates
    BY <1>1, <1>5 DEF ReportTarget, Kinds, OrderStates
  <2>3. is_terminal(t) \/ reserves_exposure(t)
    BY <1>1, <1>5, <2>2, LegalTarget DEF Accepts, Order
  <2> QED BY <1>1, <1>5, <2>1, <2>2, <2>3 DEF Sound, Order
<1> QED BY <1>2, <1>3, <1>4, <1>5

\* An accepted report moves the order's volumes exactly as the report says.
LEMMA ResultVolumes ==
  ASSUME NEW o, Sound(o), NEW rep \in Report, Accepts(o, rep)
  PROVE  /\ Result(o, rep).filled_volume
              = o.filled_volume + (IF rep.kind = "fill" THEN rep.volume ELSE 0)
         /\ Result(o, rep).requested_volume
              = IF rep.kind = "replace_ack" THEN rep.volume ELSE o.requested_volume
<1>1. rep.volume \in Nat /\ o \in Order
  BY DEF Report, Sound
<1>2. CASE rep.kind = "fill"
  <2>1. Fillable(o, rep.volume) /\ legal(o.state, FillTarget(AddFill(o, rep.volume)))
    BY <1>2 DEF Accepts, FillOk
  <2>2. Result(o, rep) = [AddFill(o, rep.volume) EXCEPT !.state = FillTarget(AddFill(o, rep.volume))]
    BY <1>2, <2>1 DEF Result, AfterFill
  <2> QED BY <1>1, <1>2, <2>2 DEF AddFill, Order
<1>3. CASE rep.kind = "replace_ack"
  BY <1>1, <1>3 DEF Result, Order
<1>4. CASE rep.kind \notin {"fill", "replace_ack"}
  BY <1>1, <1>4 DEF Result, Order
<1> QED BY <1>2, <1>3, <1>4

\* apply_one on the report an order waits for: the book stays sound, other orders are
\* untouched, and the order ends where the venue had it, or is marked refused.
LEMMA ApplyEffect ==
  ASSUME SeqInv, NEW r \in live, NEW n, n = order[r].last_applied_seq + 1,
         n <= Len(venue[r]), apply_one(r, n)
  PROVE  /\ BookInv'
         /\ live' \subseteq live
         /\ live \ {r} \subseteq live'
         /\ \A q \in Refs \ {r} : order'[q] = order[q]
         /\ ring' \in [CacheSlots -> Refs \cup {None}]
         /\ write' \in Nat
         /\ finished' \in Seq(Refs)
         /\ refused' \subseteq Refs /\ refused \subseteq refused'
         /\ (Accepts(order[r], venue[r][n]) /\ r \in live') =>
              /\ order'[r].last_applied_seq = n
              /\ r \notin refused => /\ order'[r].filled_volume = venue[r][n].cum
                                     /\ order'[r].requested_volume = venue[r][n].req
         /\ ~Accepts(order[r], venue[r][n]) =>
              r \in refused' /\ live' = live /\ order'[r].last_applied_seq = order[r].last_applied_seq
<1> DEFINE o == order[r]
           rep == venue[r][n]
           after == Result(o, rep)
<1>1. BookInv /\ Sound(o) /\ r \in Refs /\ o \in Order
  BY SoundOrders DEF SeqInv, TypeOK, BookInv, OmsTypeOK
<1>2. n \in 1 .. Len(venue[r]) /\ n \in Nat
  BY <1>1 DEF Order, SeqInv, TypeOK
<1>3. rep \in Report
  BY <1>1, <1>2, ReportTyped DEF SeqInv
<1>4. after \in Order /\ (is_terminal(after.state) \/ Sound(after))
  BY <1>1, <1>3, ResultSound
<1>5. ring \in [CacheSlots -> Refs \cup {None}] /\ write \in Nat /\ finished \in Seq(Refs)
      /\ refused \subseteq Refs /\ order \in [Refs -> Order] /\ live \subseteq Refs
  BY DEF SeqInv, TypeOK, OmsTypeOK
<1>6. CASE Accepts(o, rep)
  <2> DEFINE b == Stamp(after, n)
  <2>1. /\ Settle(r, b)
        /\ refused' = refused
        /\ IF is_terminal(after.state) THEN record(r) /\ finished' = Append(finished, r)
           ELSE UNCHANGED <<ring, write, finished>>
    BY <1>6 DEF apply_one
  <2>2. /\ b \in Order /\ b.state = after.state /\ b.last_applied_seq = n
        /\ b.filled_volume = after.filled_volume /\ b.requested_volume = after.requested_volume
    BY <1>2, <1>4 DEF Stamp, Order
  <2>3. is_terminal(b.state) \/ Sound(b)
    BY <1>4, <2>2 DEF Sound
  <2>4. BookInv'
    BY <1>1, <2>1, <2>2, <2>3, SettleSound
  <2>5. /\ live' \subseteq live /\ live \ {r} \subseteq live'
        /\ \A q \in Refs \ {r} : order'[q] = order[q]
        /\ r \in live' => order'[r] = b
    BY <1>1, <1>5, <2>1 DEF Settle
  <2>6. ring' \in [CacheSlots -> Refs \cup {None}] /\ write' \in Nat /\ finished' \in Seq(Refs)
    <3>1. ASSUME NEW f \in [CacheSlots -> Refs \cup {None}], NEW x
          PROVE  [f EXCEPT ![x] = r] \in [CacheSlots -> Refs \cup {None}]
      BY <1>1
    <3>2. CASE is_terminal(after.state)
      <4>1. write' = write + 1 /\ finished' = Append(finished, r)
            /\ \E x : ring' = [ring EXCEPT ![x] = r]
        BY <2>1, <3>2 DEF record
      <4>2. write' \in Nat /\ finished' \in Seq(Refs)
        BY <1>1, <1>5, <4>1
      <4> QED BY <1>5, <3>1, <4>1, <4>2
    <3>3. CASE ~is_terminal(after.state)
      BY <1>5, <2>1, <3>3
    <3> QED BY <3>2, <3>3
  <2>7. ASSUME r \notin refused
        PROVE  after.filled_volume = rep.cum /\ after.requested_volume = rep.req
    <3>1. /\ after.filled_volume = o.filled_volume + (IF rep.kind = "fill" THEN rep.volume ELSE 0)
          /\ after.requested_volume = IF rep.kind = "replace_ack" THEN rep.volume
                                      ELSE o.requested_volume
      BY <1>1, <1>3, <1>6, ResultVolumes
    <3>2. CASE n = 1
      <4>1. o.last_applied_seq = 0 /\ venue[r] # <<>>
        BY <1>1, <1>2, <3>2 DEF Order, SeqInv, TypeOK
      <4>2. o.filled_volume = 0 /\ rep.req = o.requested_volume
        BY <2>7, <3>2, <4>1 DEF SeqInv, ExactlyOnce, FirstReport
      <4>3. rep.kind \in {"ack", "reject"} /\ rep.cum = 0
        BY <1>1, <1>2, <3>2 DEF SeqInv, VenueNumbers, Opens
      <4> QED BY <3>1, <4>2, <4>3
    <3>3. CASE n > 1
      <4>1. o.filled_volume = venue[r][n-1].cum /\ o.requested_volume = venue[r][n-1].req
        BY <1>1, <2>7, <3>3 DEF SeqInv, ExactlyOnce, Order
      <4>2. /\ rep.cum = venue[r][n-1].cum + (IF rep.kind = "fill" THEN rep.volume ELSE 0)
            /\ rep.req = IF rep.kind = "replace_ack" THEN rep.volume ELSE venue[r][n-1].req
        BY <1>1, <1>2, <3>3 DEF SeqInv, VenueNumbers, Follows
      <4> QED BY <3>1, <4>1, <4>2
    <3> QED BY <1>2, <3>2, <3>3
  <2> QED BY <1>5, <1>6, <2>1, <2>2, <2>4, <2>5, <2>6, <2>7
<1>7. CASE ~Accepts(o, rep)
  <2>1. /\ Settle(r, after)
        /\ refused' = refused \cup {r}
        /\ UNCHANGED <<ring, write, finished>>
    BY <1>7 DEF apply_one
  <2>2. Sound(after) /\ after.last_applied_seq = o.last_applied_seq
    BY <1>1, <1>3, <1>7, ResultSound
  <2>3. BookInv'
    BY <1>1, <1>4, <2>1, SettleSound
  <2>4. live' = live /\ order' = [order EXCEPT ![r] = after]
    BY <2>1, <2>2 DEF Settle, Reclaims, Sound, reserves_exposure
  <2> QED BY <1>1, <1>5, <1>7, <2>1, <2>2, <2>3, <2>4
<1> QED BY <1>6, <1>7

\* What apply_one keeps of the invariant whatever happens to the pool.
LEMMA ApplyKeeps ==
  ASSUME SeqInv, NEW r \in live, NEW n, n = order[r].last_applied_seq + 1,
         n <= Len(venue[r]), apply_one(r, n), UNCHANGED venue
  PROVE  /\ VenueNumbers' /\ FirstReport' /\ ExactlyOnce'
         /\ \A q \in live' : order'[q].last_applied_seq <= Len(venue'[q])
<1>1. live \subseteq Refs /\ order \in [Refs -> Order] /\ n \in Nat /\ n > 0
  BY DEF SeqInv, TypeOK, OmsTypeOK, Order
<1>2. VenueNumbers'
  BY DEF SeqInv, VenueNumbers
<1>3. \A q \in live' : q \in live /\ (q # r => order'[q] = order[q] /\ (q \notin refused' => q \notin refused))
  BY <1>1, ApplyEffect
<1>4. \A q \in live' : order'[q].last_applied_seq <= Len(venue'[q])
  BY <1>1, <1>3, ApplyEffect DEF SeqInv, OnlySentReports
<1>5. r \in live' /\ r \notin refused' =>
        /\ order'[r].last_applied_seq = n /\ order'[r].filled_volume = venue[r][n].cum
        /\ order'[r].requested_volume = venue[r][n].req
  BY ApplyEffect
<1>6. FirstReport'
  BY <1>1, <1>3, <1>5 DEF SeqInv, FirstReport
<1>7. ExactlyOnce'
  BY <1>1, <1>3, <1>5 DEF SeqInv, ExactlyOnce
<1> QED BY <1>2, <1>4, <1>6, <1>7

\* A report the venue adds in accordance with its own book.
LEMMA VenueSaysKeeps ==
  ASSUME SeqInv, NEW r \in Refs, NEW k \in Kinds, NEW v \in Nat, NEW c \in Nat, NEW q \in Nat,
         VenueSays(r, k, v, c, q),
         venue[r] = <<>> => /\ k \in {"ack", "reject"} /\ c = 0
                            /\ r \in live => q = order[r].requested_volume,
         venue[r] # <<>> => /\ k \notin {"ack", "reject"}
                            /\ c = LastReport(r).cum + (IF k = "fill" THEN v ELSE 0)
                            /\ q = IF k = "replace_ack" THEN v ELSE LastReport(r).req
  PROVE  SeqInv'
<1> DEFINE rep == [kind |-> k, volume |-> v, cum |-> c, req |-> q]
<1>1. /\ venue' = [venue EXCEPT ![r] = Append(venue[r], rep)]
      /\ UNCHANGED <<live, order, reserved, slots, ring, write, draining, cancels, refused, finished>>
  BY DEF VenueSays, omsVars, seqVars, history
<1>2. rep \in Report /\ venue \in [Refs -> Seq(Report)] /\ venue[r] \in Seq(Report)
  BY DEF Report, SeqInv, TypeOK
<1>3. venue' \in [Refs -> Seq(Report)]
  BY <1>1, <1>2
<1>4. /\ venue'[r] = Append(venue[r], rep) /\ Len(venue'[r]) = Len(venue[r]) + 1
      /\ venue'[r][Len(venue[r]) + 1] = rep
      /\ \A n \in 1 .. Len(venue[r]) : venue'[r][n] = venue[r][n]
      /\ Len(venue[r]) \in Nat
  BY <1>1, <1>2
<1>5. \A p \in Refs : p # r => venue'[p] = venue[p]
  BY <1>1, <1>2
<1>6. \A p \in Refs : Len(venue[p]) <= Len(venue'[p]) /\ Len(venue[p]) \in Nat
  BY <1>2, <1>4, <1>5
<1>7. TypeOK'
  BY <1>1, <1>3 DEF SeqInv, TypeOK, OmsTypeOK
<1>8. OrdersSound' /\ HeldLive' /\ NoneReady'
  BY <1>1 DEF SeqInv, OrdersSound, HeldLive, NoneReady
<1>9. OnlySentReports'
  <2>1. live \subseteq Refs /\ order \in [Refs -> Order] /\ slots \in [GapSlots -> Held \cup {None}]
    BY DEF SeqInv, TypeOK, OmsTypeOK
  <2>2. \A p \in live : order[p].last_applied_seq <= Len(venue'[p])
    BY <1>6, <2>1 DEF SeqInv, OnlySentReports, Order
  <2>3. ASSUME NEW i \in GapSlots, slots[i] # None PROVE slots[i][2] <= Len(venue'[slots[i][1]])
    <3>1. slots[i][1] \in Refs /\ slots[i][2] \in Nat /\ slots[i][2] <= Len(venue[slots[i][1]])
      BY <2>1, <2>3 DEF Held, SeqInv, OnlySentReports
    <3> QED BY <1>6, <3>1
  <2> QED BY <1>1, <2>2, <2>3 DEF OnlySentReports
<1>10. VenueNumbers'
  <2> SUFFICES ASSUME NEW p \in Refs, NEW n \in 1 .. Len(venue'[p])
               PROVE  VenueNumbers!(p)!(n)'
    BY DEF VenueNumbers
  <2>1. CASE p # r
    BY <1>5, <2>1 DEF SeqInv, VenueNumbers
  <2>2. CASE p = r /\ n <= Len(venue[r])
    <3>1. n \in 1 .. Len(venue[r]) /\ venue'[r][n] = venue[r][n]
      BY <1>4, <2>2
    <3>2. n > 1 => venue'[r][n-1] = venue[r][n-1]
      BY <1>4, <3>1
    <3> QED BY <2>2, <3>1, <3>2 DEF SeqInv, VenueNumbers
  <2>3. CASE p = r /\ n = Len(venue[r]) + 1
    <3>1. CASE venue[r] = <<>>
      <4>1. n = 1 /\ Opens(rep)
        BY <2>3, <3>1 DEF Opens
      <4> QED BY <1>4, <2>3, <4>1
    <3>2. CASE venue[r] # <<>>
      <4>1. Len(venue[r]) >= 1 /\ Follows(rep, LastReport(r))
        BY <1>2, <3>2 DEF Follows
      <4>2. venue'[r][n-1] = LastReport(r) /\ venue'[r][n] = rep /\ n > 1
        BY <1>4, <2>3, <4>1 DEF LastReport
      <4> QED BY <2>3, <4>1, <4>2
    <3> QED BY <3>1, <3>2
  <2> QED BY <1>4, <2>1, <2>2, <2>3
<1>11. FirstReport'
  BY <1>1, <1>2, <1>4, <1>5 DEF SeqInv, FirstReport, TypeOK, OmsTypeOK
<1>12. ExactlyOnce'
  <2> SUFFICES ASSUME NEW p \in live \ refused PROVE ExactlyOnce!(p)'
    BY <1>1 DEF ExactlyOnce
  <2>1. p \in Refs /\ order[p].last_applied_seq \in Nat
    BY DEF SeqInv, TypeOK, OmsTypeOK, Order
  <2>2. ExactlyOnce!(p)
    BY DEF SeqInv, ExactlyOnce
  <2> QED BY <1>1, <1>4, <1>5, <2>1, <2>2
<1> QED BY <1>7, <1>8, <1>9, <1>10, <1>11, <1>12 DEF SeqInv

\* A transition of the client's: volumes and numbers stay.
LEMMA ClientMoveKeeps ==
  ASSUME SeqInv, NEW r \in Refs, NEW s \in OrderStates, ~is_terminal(s), transition(r, s),
         UNCHANGED <<seqVars, venue, history>>, cancels' \subseteq Refs
  PROVE  SeqInv'
<1>1. BookInv
  BY DEF BookInv, SeqInv, TypeOK
<1>2. BookInv'
  BY <1>1, TransitionSound
<1>3. r \in live /\ live' = live /\ order \in [Refs -> Order]
      /\ order' = [order EXCEPT ![r] = [order[r] EXCEPT !.state = s]]
  BY <1>1 DEF transition, Settle, Reclaims, BookInv, OmsTypeOK, Order
<1>4. \A p \in Refs : /\ order'[p].last_applied_seq = order[p].last_applied_seq
                      /\ order'[p].filled_volume = order[p].filled_volume
                      /\ order'[p].requested_volume = order[p].requested_volume
  BY <1>3 DEF Order
<1>5. UNCHANGED <<slots, ring, write, draining, venue, refused, finished>>
  BY DEF seqVars, history
<1>6. TypeOK' /\ OrdersSound'
  BY <1>2, <1>5 DEF SeqInv, TypeOK, BookInv
<1>7. live \subseteq Refs
  BY <1>1 DEF BookInv, OmsTypeOK
<1>8. VenueNumbers' /\ HeldLive'
  BY <1>3, <1>5 DEF SeqInv, VenueNumbers, HeldLive
<1>9. OnlySentReports' /\ FirstReport' /\ NoneReady'
  BY <1>3, <1>4, <1>5, <1>7 DEF SeqInv, OnlySentReports, FirstReport, NoneReady
<1>10. ExactlyOnce'
  BY <1>3, <1>4, <1>5, <1>7 DEF SeqInv, ExactlyOnce
<1> QED BY <1>6, <1>8, <1>9, <1>10 DEF SeqInv

LEMMA CreateKeeps ==
  ASSUME SeqInv, NEW r \in Refs, NEW v \in Nat \ {0}, ClientCreates(r, v)
  PROVE  SeqInv'
<1>1. BookInv /\ create(r, v) /\ draining = None /\ venue[r] = <<>>
  BY DEF BookInv, SeqInv, TypeOK, ClientCreates
<1>2. BookInv'
  BY <1>1, CreateSound
<1>3. /\ r \notin live /\ live' = live \cup {r} /\ live \subseteq Refs
      /\ order \in [Refs -> Order] /\ order' = [order EXCEPT ![r] = NewOrder("pending_send", v, 0)]
  BY <1>1 DEF create, Insert, BookInv, OmsTypeOK
<1>4. /\ order'[r].last_applied_seq = 0 /\ order'[r].filled_volume = 0
      /\ \A p \in Refs : p # r => order'[p] = order[p]
  BY <1>3 DEF NewOrder
<1>5. UNCHANGED <<slots, ring, write, draining, venue, cancels, refused, finished>>
  BY DEF ClientCreates, seqVars, envVars, history
<1>6. TypeOK' /\ OrdersSound'
  BY <1>2, <1>5 DEF SeqInv, TypeOK, BookInv
<1>7. VenueNumbers' /\ HeldLive'
  BY <1>3, <1>5 DEF SeqInv, VenueNumbers, HeldLive
<1>8. OnlySentReports' /\ FirstReport' /\ ExactlyOnce'
  <2>1. Len(venue[r]) = 0
    BY <1>1
  <2>2. OnlySentReports'
    BY <1>3, <1>4, <1>5, <2>1 DEF SeqInv, OnlySentReports
  <2>3. FirstReport' /\ ExactlyOnce'
    BY <1>1, <1>3, <1>4, <1>5 DEF SeqInv, FirstReport, ExactlyOnce
  <2> QED BY <2>2, <2>3
<1>9. NoneReady'
  <2>1. \A i \in GapSlots : slots[i] # <<r, 1>>
    <3> SUFFICES ASSUME NEW i \in GapSlots, slots[i] = <<r, 1>> PROVE FALSE
      OBVIOUS
    <3>1. slots[i] # None /\ slots[i][1] = r
      BY SequencerAssumption DEF Held
    <3>2. r \in live \cup {None}
      BY <1>1, <3>1 DEF SeqInv, HeldLive
    <3> QED BY <1>3, <3>2, SequencerAssumption
  <2> QED BY <1>3, <1>4, <1>5, <2>1 DEF SeqInv, NoneReady
<1> QED BY <1>6, <1>7, <1>8, <1>9 DEF SeqInv

LEMMA HoldKeeps ==
  ASSUME SeqInv, NEW r \in Refs, NEW n \in 1 .. Len(venue[r]), draining = None, hold(r, n)
  PROVE  SeqInv'
<1>1. r \in live /\ n > order[r].last_applied_seq + 1
  BY DEF hold, Outcome
<1>2. PICK i \in GapSlots : slots' = [slots EXCEPT ![i] = <<r, n>>]
  BY DEF hold
<1>3. UNCHANGED <<live, order, reserved, ring, write, draining, venue, cancels, refused, finished>>
  BY DEF hold, omsVars, envVars, history
<1>4. <<r, n>> \in Held /\ slots \in [GapSlots -> Held \cup {None}] /\ venue[r] \in Seq(Report)
      /\ order \in [Refs -> Order] /\ live \subseteq Refs
  BY DEF Held, SeqInv, TypeOK, OmsTypeOK
<1>5. slots' \in [GapSlots -> Held \cup {None}]
  BY <1>2, <1>4
<1>6. slots'[i] = <<r, n>> /\ \A j \in GapSlots : j # i => slots'[j] = slots[j]
  BY <1>2, <1>4
<1>7. TypeOK'
  BY <1>3, <1>5 DEF SeqInv, TypeOK, OmsTypeOK
<1>8. OrdersSound' /\ VenueNumbers' /\ FirstReport' /\ ExactlyOnce'
  BY <1>3 DEF SeqInv, OrdersSound, VenueNumbers, FirstReport, ExactlyOnce
<1>9. OnlySentReports' /\ HeldLive'
  BY <1>1, <1>3, <1>6 DEF SeqInv, OnlySentReports, HeldLive
<1>10. NoneReady'
  <2>1. \A p \in live : order[p].last_applied_seq \in Nat
    BY <1>4 DEF Order
  <2>2. \A p \in live : <<r, n>> # <<p, order[p].last_applied_seq + 1>>
    BY <1>1, <2>1
  <2> QED BY <1>3, <1>6, <2>2 DEF SeqInv, NoneReady
<1> QED BY <1>7, <1>8, <1>9, <1>10 DEF SeqInv

\* The report an order waits for is applied, with a pool that only loses reports: kept when
\* the order is the one being drained, or refused, or the pool is empty.
LEMMA ApplyStep ==
  ASSUME SeqInv, NEW r \in live, NEW n, n = order[r].last_applied_seq + 1,
         n <= Len(venue[r]), apply_one(r, n), UNCHANGED <<venue, cancels>>,
         draining \in {r, None},
         slots' \in [GapSlots -> Held \cup {None}],
         \A i \in GapSlots : slots'[i] \in {slots[i], None},
         \/ Accepts(order[r], venue[r][n]) /\ draining' = r
         \/ ~Accepts(order[r], venue[r][n]) /\ draining' = None
         \/ (\A i \in GapSlots : slots'[i] = None) /\ draining' = None
  PROVE  SeqInv'
<1>1. live \subseteq Refs /\ r \in Refs
  BY DEF SeqInv, TypeOK, OmsTypeOK
<1>2. TypeOK' /\ OrdersSound'
  <2>1. BookInv' /\ ring' \in [CacheSlots -> Refs \cup {None}] /\ write' \in Nat
        /\ finished' \in Seq(Refs) /\ refused' \subseteq Refs
    BY ApplyEffect
  <2>2. draining' \in Refs \cup {None} /\ venue' \in [Refs -> Seq(Report)] /\ cancels' \subseteq Refs
    BY <1>1 DEF SeqInv, TypeOK
  <2> QED BY <2>1, <2>2 DEF TypeOK, BookInv
<1>3. VenueNumbers' /\ FirstReport' /\ ExactlyOnce'
      /\ \A q \in live' : order'[q].last_applied_seq <= Len(venue'[q])
  BY ApplyKeeps
<1>4. OnlySentReports'
  BY <1>3 DEF SeqInv, OnlySentReports
<1>5. HeldLive'
  <2> SUFFICES ASSUME NEW i \in GapSlots, slots'[i] # None PROVE slots'[i][1] \in live' \cup {draining'}
    BY DEF HeldLive
  <2>1. slots'[i] = slots[i] /\ slots[i] # None
    OBVIOUS
  <2>2. slots[i] \in Held /\ slots[i][1] \in Refs
    BY <2>1 DEF SeqInv, TypeOK, Held
  <2>3. slots[i][1] \in live
    BY <2>1, <2>2, SequencerAssumption DEF SeqInv, HeldLive
  <2>4. CASE ~Accepts(order[r], venue[r][n])
    BY <2>1, <2>3, <2>4, ApplyEffect
  <2>5. CASE Accepts(order[r], venue[r][n])
    BY <2>1, <2>3, <2>5, ApplyEffect
  <2> QED BY <2>4, <2>5
<1>6. NoneReady'
  <2> SUFFICES ASSUME NEW q \in live' \ refused', q # draining', NEW i \in GapSlots,
                      slots'[i] = <<q, order'[q].last_applied_seq + 1>>
               PROVE  FALSE
    BY DEF NoneReady
  <2>1. slots'[i] # None
    <3>1. q \in Refs /\ order'[q].last_applied_seq \in Nat
      BY <1>2 DEF TypeOK, OmsTypeOK, Order
    <3>2. <<q, order'[q].last_applied_seq + 1>> \in Held
      BY <3>1 DEF Held
    <3> QED BY <3>2, SequencerAssumption
  <2>2. q # r
    BY <2>1, ApplyEffect
  <2>3. q \in live /\ q \notin refused /\ order'[q] = order[q] /\ slots'[i] = slots[i]
    BY <1>1, <2>1, <2>2, ApplyEffect
  <2>4. q # draining
    BY <1>1, <2>2, <2>3, SequencerAssumption
  <2> QED BY <2>3, <2>4 DEF SeqInv, NoneReady
<1> QED BY <1>2, <1>3, <1>4, <1>5, <1>6 DEF SeqInv

\* A report of a live order that is in sequence.
LEMMA InSequenceKeeps ==
  ASSUME SeqInv, NEW r \in Refs, NEW n \in 1 .. Len(venue[r]), draining = None,
         ApplyInSequence(r, n)
  PROVE  SeqInv'
<1>1. /\ apply_one(r, n) /\ UNCHANGED <<slots, venue, cancels>>
      /\ draining' = IF Outcome(r, n) = "applied" /\ NeedsDrain THEN r ELSE None
      /\ Outcome(r, n) \in {"applied", "illegal"}
  BY DEF ApplyInSequence
<1>2. r \in live /\ ~IsDuplicate(r, n) /\ ~(n > order[r].last_applied_seq + 1)
  BY <1>1 DEF Outcome
<1>3. Outcome(r, n) = IF Accepts(order[r], venue[r][n]) THEN "applied" ELSE "illegal"
  BY <1>2 DEF Outcome
<1>4. order[r].last_applied_seq \in Nat /\ venue[r] \in Seq(Report)
      /\ slots \in [GapSlots -> Held \cup {None}]
  BY DEF SeqInv, TypeOK, OmsTypeOK, Order
<1>5. n = order[r].last_applied_seq + 1 /\ n <= Len(venue[r])
  BY <1>2, <1>4 DEF IsDuplicate
<1>6. \/ Accepts(order[r], venue[r][n]) /\ draining' = r
      \/ ~Accepts(order[r], venue[r][n]) /\ draining' = None
      \/ (\A i \in GapSlots : slots'[i] = None) /\ draining' = None
  BY <1>1, <1>3 DEF NeedsDrain
<1> QED BY <1>1, <1>2, <1>4, <1>5, <1>6, ApplyStep

\* One turn of drain()'s loop.
LEMMA DrainKeeps ==
  ASSUME SeqInv, drain
  PROVE  SeqInv'
<1>1. /\ slots \in [GapSlots -> Held \cup {None}] /\ order \in [Refs -> Order]
      /\ live \subseteq Refs /\ draining \in Refs \cup {None}
  BY DEF SeqInv, TypeOK, OmsTypeOK
<1>2. CASE DrainGone
  <2>1. /\ draining \in Refs \ live /\ draining' = None
        /\ \A i \in GapSlots : slots'[i] = IF slots[i] # None /\ slots[i][1] = draining
                                             THEN None ELSE slots[i]
        /\ slots' \in [GapSlots -> Held \cup {None}]
        /\ UNCHANGED <<live, order, reserved, ring, write, venue, cancels, refused, finished>>
    BY <1>1, <1>2 DEF DrainGone, discard_all_for, omsVars, envVars, history
  <2>2. TypeOK' /\ OrdersSound' /\ VenueNumbers' /\ FirstReport' /\ ExactlyOnce'
    BY <2>1 DEF SeqInv, TypeOK, OmsTypeOK, OrdersSound, VenueNumbers, FirstReport, ExactlyOnce
  <2>3. OnlySentReports' /\ HeldLive'
    BY <2>1 DEF SeqInv, OnlySentReports, HeldLive
  <2>4. NoneReady'
    <3> SUFFICES ASSUME NEW q \in live \ refused, NEW i \in GapSlots,
                        slots'[i] = <<q, order[q].last_applied_seq + 1>>
                 PROVE  FALSE
      BY <2>1 DEF NoneReady
    <3>1. <<q, order[q].last_applied_seq + 1>> \in Held
      BY <1>1 DEF Held, Order
    <3>2. slots[i] = <<q, order[q].last_applied_seq + 1>>
      BY <2>1, <3>1, SequencerAssumption
    <3> QED BY <2>1, <3>2 DEF SeqInv, NoneReady
  <2> QED BY <2>2, <2>3, <2>4 DEF SeqInv
<1>3. CASE DrainNext
  <2> DEFINE n == order[draining].last_applied_seq + 1
  <2>1. PICK i \in GapSlots :
          /\ slots[i] = <<draining, n>>
          /\ slots' = [slots EXCEPT ![i] = None]
          /\ draining' = IF Accepts(order[draining], venue[draining][n]) THEN draining ELSE None
          /\ apply_one(draining, n)
    BY <1>3 DEF DrainNext, Takes, NextReport
  <2>2. draining \in live /\ UNCHANGED <<venue, cancels>>
    BY <1>3 DEF DrainNext
  <2>3. n \in Nat \ {0}
    BY <1>1, <2>2 DEF Order
  <2>4. slots[i] # None /\ slots[i][1] = draining /\ slots[i][2] = n
    BY <1>1, <2>1, <2>2, <2>3, SequencerAssumption DEF Held
  <2>5. n <= Len(venue[draining])
    BY <2>4 DEF SeqInv, OnlySentReports
  <2>6. slots' \in [GapSlots -> Held \cup {None}] /\ \A j \in GapSlots : slots'[j] \in {slots[j], None}
    BY <1>1, <2>1
  <2> HIDE DEF n
  <2>7. n = order[draining].last_applied_seq + 1
    BY DEF n
  <2> QED BY <2>1, <2>2, <2>5, <2>6, <2>7, ApplyStep
<1>4. CASE DrainDone
  <2>1. /\ draining \in live /\ draining' = None
        /\ \A i \in GapSlots : slots[i] # <<draining, order[draining].last_applied_seq + 1>>
        /\ UNCHANGED <<live, order, reserved, slots, ring, write, venue, cancels, refused, finished>>
    BY <1>4 DEF DrainDone, NextReport, omsVars, envVars, history
  <2>2. TypeOK' /\ OrdersSound' /\ VenueNumbers' /\ FirstReport' /\ ExactlyOnce'
    BY <2>1 DEF SeqInv, TypeOK, OmsTypeOK, OrdersSound, VenueNumbers, FirstReport, ExactlyOnce
  <2>3. OnlySentReports' /\ HeldLive' /\ NoneReady'
    BY <2>1 DEF SeqInv, OnlySentReports, HeldLive, NoneReady
  <2> QED BY <2>2, <2>3 DEF SeqInv
<1> QED BY <1>2, <1>3, <1>4 DEF drain

LEMMA VenueKeeps ==
  ASSUME SeqInv, NEW r \in Refs,
         \/ \E v \in Volumes : VenueFills(r, v) \/ VenueReplaces(r, v)
         \/ \E k \in {"ack", "reject"} : VenueAnswers(r, k)
         \/ \E k \in {"cancel_pending", "cancelled"} : VenueCancels(r, k)
  PROVE  SeqInv'
<1>1. ASSUME venue[r] # <<>> PROVE LastReport(r).cum \in Nat /\ LastReport(r).req \in Nat
  <2>1. venue[r] \in Seq(Report) /\ Len(venue[r]) \in 1 .. Len(venue[r])
    BY <1>1 DEF SeqInv, TypeOK
  <2>2. LastReport(r) \in Report
    BY <2>1 DEF LastReport
  <2> QED BY <2>2 DEF Report
<1>2. Volumes \subseteq Nat
  BY OmsAssumption
<1>3. ASSUME NEW v \in Volumes, VenueFills(r, v) PROVE SeqInv'
  BY <1>1, <1>2, <1>3, VenueSaysKeeps DEF VenueFills, Working, Kinds
<1>4. ASSUME NEW v \in Volumes, VenueReplaces(r, v) PROVE SeqInv'
  BY <1>1, <1>2, <1>4, VenueSaysKeeps DEF VenueReplaces, Working, Kinds
<1>5. ASSUME NEW k \in {"ack", "reject"}, VenueAnswers(r, k) PROVE SeqInv'
  <2>1. order[r].requested_volume \in Nat
    BY DEF SeqInv, TypeOK, OmsTypeOK, Order
  <2> QED BY <1>5, <2>1, VenueSaysKeeps DEF VenueAnswers, Kinds
<1>6. ASSUME NEW k \in {"cancel_pending", "cancelled"}, VenueCancels(r, k) PROVE SeqInv'
  BY <1>1, <1>6, VenueSaysKeeps DEF VenueCancels, Working, Kinds
<1> QED BY <1>3, <1>4, <1>5, <1>6

LEMMA InitSafe == Init => SeqInv
<1> SUFFICES ASSUME Init PROVE SeqInv
  OBVIOUS
<1>1. TypeOK
  <2>1. OmsTypeOK
    BY DEF Init, OmsInit, OmsTypeOK, Order, NoOrder, NewOrder, OrderStates
  <2>2. <<>> \in Seq(Report) /\ <<>> \in Seq(Refs)
    OBVIOUS
  <2> QED BY <2>1, <2>2 DEF Init, TypeOK
<1>2. OrdersSound /\ OnlySentReports /\ FirstReport /\ ExactlyOnce /\ HeldLive /\ NoneReady
  BY DEF Init, OmsInit, OrdersSound, OnlySentReports, FirstReport, ExactlyOnce, HeldLive, NoneReady
<1>3. VenueNumbers
  BY DEF Init, VenueNumbers
<1> QED BY <1>1, <1>2, <1>3 DEF SeqInv

LEMMA NextSafe == SeqInv /\ [Next]_vars => SeqInv'
<1> SUFFICES ASSUME SeqInv, [Next]_vars PROVE SeqInv'
  OBVIOUS
<1>1. CASE UNCHANGED vars
  BY <1>1 DEF vars, omsVars, seqVars, envVars, history, SeqInv, TypeOK, OmsTypeOK, OrdersSound,
     VenueNumbers, OnlySentReports, FirstReport, ExactlyOnce, HeldLive, NoneReady
<1>2. ASSUME NEW r \in Refs, Environment(r) PROVE SeqInv'
  <2>1. ASSUME NEW v \in Volumes, ClientCreates(r, v) PROVE SeqInv'
    BY <2>1, OmsAssumption, CreateKeeps
  <2>2. CASE ClientSends(r)
    <3>1. transition(r, "sent") /\ UNCHANGED <<seqVars, venue, history>> /\ cancels' \subseteq Refs
      BY <2>2 DEF ClientSends, envVars, SeqInv, TypeOK
    <3>2. "sent" \in OrderStates /\ ~is_terminal("sent")
      BY DEF OrderStates, is_terminal, Terminal
    <3> QED BY <3>1, <3>2, ClientMoveKeeps
  <2>3. CASE ClientCancels(r)
    <3>1. transition(r, "cancel_pending") /\ UNCHANGED <<seqVars, venue, history>>
          /\ cancels' \subseteq Refs
      BY <2>3 DEF ClientCancels, SeqInv, TypeOK
    <3>2. "cancel_pending" \in OrderStates /\ ~is_terminal("cancel_pending")
      BY DEF OrderStates, is_terminal, Terminal
    <3> QED BY <3>1, <3>2, ClientMoveKeeps
  <2> QED BY <1>2, <2>1, <2>2, <2>3, VenueKeeps DEF Environment
<1>3. ASSUME NEW r \in Refs, NEW n \in 1 .. MaxReports[r], process(r, n) PROVE SeqInv'
  <2>1. draining = None /\ n \in 1 .. Len(venue[r])
    BY <1>3 DEF process
  <2>2. CASE Drop(r, n)
    BY <1>1, <2>2 DEF Drop
  <2> QED BY <1>3, <2>1, <2>2, HoldKeeps, InSequenceKeeps DEF process
<1> QED BY <1>1, <1>2, <1>3, DrainKeeps DEF Next

\* What process() and drain() promise, for every number of orders, size of pool and cache,
\* and stream of reports: the book is sound, every report took effect exactly once and in the
\* venue's order, no report that could be applied is left in the pool, and no slot is kept
\* for an order that is gone.
THEOREM SequencerSafe ==
  Spec => [](TypeOK /\ OrdersSound /\ ExactlyOnce /\ NoReadyReportStranded /\ HeldOnlyForLive)
<1>1. SeqInv => NoReadyReportStranded
  BY SequencerAssumption DEF SeqInv, NoneReady, NoReadyReportStranded, TypeOK, OmsTypeOK
<1>2. SeqInv => HeldOnlyForLive
  <2> SUFFICES ASSUME SeqInv, draining = None, NEW i \in GapSlots, slots[i] # None
               PROVE  slots[i][1] \in live
    BY DEF HeldOnlyForLive
  <2>1. slots[i][1] \in Refs
    BY DEF SeqInv, TypeOK, Held
  <2> QED BY <2>1, SequencerAssumption DEF SeqInv, HeldLive
<1>3. SeqInv => TypeOK /\ OrdersSound /\ ExactlyOnce
  BY DEF SeqInv
<1> QED BY <1>1, <1>2, <1>3, InitSafe, NextSafe, PTL DEF Spec

\* drain()'s cascade misses nothing: with no drain in progress, no report in the pool is the
\* next one of a live order.
THEOREM NothingStranded == Spec => []NoReadyReportStranded
BY SequencerSafe, PTL
-----------------------------------------------------------------------------
(* The cache of finished orders. *)

\* The k-th order that finished is at position k-1 of a ring of CacheCapacity slots, until it
\* is overwritten a lap later, and nothing else is in the ring.
Recent(k) == k + CacheCapacity > Len(finished)

CacheInv ==
  /\ write = Len(finished)
  /\ \A k \in 1 .. Len(finished) : Recent(k) => ring[(k - 1) % CacheCapacity] = finished[k]
  /\ \A i \in CacheSlots : i < write =>
       \E k \in 1 .. Len(finished) : Recent(k) /\ (k - 1) % CacheCapacity = i

LEMMA RecordKeeps ==
  ASSUME TypeOK, CacheInv, NEW r \in Refs, record(r), finished' = Append(finished, r)
  PROVE  CacheInv'
<1> DEFINE L == Len(finished)
           C == CacheCapacity
           w == L % C
<1>1. C \in Nat \ {0} /\ L \in Nat /\ finished \in Seq(Refs) /\ ring \in [CacheSlots -> Refs \cup {None}]
  BY SequencerAssumption DEF TypeOK
<1>2. w \in CacheSlots /\ (L < C => w = L)
  BY <1>1 DEF CacheSlots
<1>3. /\ Len(finished') = L + 1 /\ finished'[L + 1] = r
      /\ \A k \in 1 .. L : finished'[k] = finished[k]
  BY <1>1
<1>4. /\ write' = L + 1 /\ ring'[w] = r
      /\ \A i \in CacheSlots : i # w => ring'[i] = ring[i]
  BY <1>1, <1>2 DEF record, CacheInv
<1>5. \A k \in 1 .. L + 1 : k - 1 \in Nat /\ (k - 1) % C \in CacheSlots
  BY <1>1 DEF CacheSlots
<1> HIDE DEF L, C, w
<1>6. ASSUME NEW k \in 1 .. L + 1, k + C > L + 1
      PROVE  ring'[(k - 1) % C] = finished'[k]
  <2>1. CASE k = L + 1
    <3>1. k - 1 = L
      BY <1>1, <2>1
    <3> QED BY <1>3, <1>4, <2>1, <3>1 DEF w
  <2>2. CASE k # L + 1
    <3>1. k \in 1 .. L /\ k - 1 \in Nat /\ k - 1 < L /\ L < (k - 1) + C /\ k + C > L
      BY <1>1, <1>6, <2>2
    <3>2. (k - 1) % C # w
      BY <1>1, <3>1, ModDiffer DEF w
    <3>3. ring[(k - 1) % C] = finished[k]
      BY <3>1 DEF CacheInv, Recent, L, C
    <3> QED BY <1>3, <1>4, <1>5, <3>1, <3>2, <3>3
  <2> QED BY <2>1, <2>2
<1>7. ASSUME NEW i \in CacheSlots, i < L + 1
      PROVE  \E k \in 1 .. L + 1 : k + C > L + 1 /\ (k - 1) % C = i
  <2>1. CASE i = w
    <3>1. L + 1 \in 1 .. L + 1 /\ (L + 1) + C > L + 1 /\ (L + 1) - 1 = L
      BY <1>1
    <3> QED BY <2>1, <3>1 DEF w
  <2>2. CASE i # w
    <3>1. i \in Int /\ i < C
      BY <1>1 DEF CacheSlots, C
    <3>2. i < L
      BY <1>1, <1>2, <1>7, <2>2, <3>1
    <3>3. PICK k \in 1 .. L : k + C > L /\ (k - 1) % C = i
      BY <3>2 DEF CacheInv, Recent, L, C
    <3>4. k + C # L + 1
      <4>1. SUFFICES ASSUME k + C = L + 1 PROVE FALSE
        OBVIOUS
      <4>2. (k - 1) + C = L /\ k - 1 \in Nat
        BY <1>1, <4>1
      <4>3. ((k - 1) + C) % C = (k - 1) % C
        BY <1>1, <4>2, ModLap
      <4> QED BY <2>2, <3>3, <4>2, <4>3 DEF w
    <3>5. k \in 1 .. L + 1 /\ k + C > L + 1
      BY <1>1, <3>3, <3>4
    <3> QED BY <3>3, <3>5
  <2> QED BY <2>1, <2>2
<1> QED BY <1>3, <1>4, <1>6, <1>7 DEF CacheInv, Recent, C

LEMMA CacheStep == SeqInv /\ CacheInv /\ [Next]_vars => CacheInv'
<1> SUFFICES ASSUME SeqInv, CacheInv, [Next]_vars PROVE CacheInv'
  OBVIOUS
<1>1. TypeOK
  BY DEF SeqInv
<1>2. CASE UNCHANGED <<ring, write, finished>>
  BY <1>2 DEF CacheInv, Recent
<1>3. ASSUME NEW r \in Refs, NEW n, apply_one(r, n) PROVE CacheInv'
  BY <1>1, <1>2, <1>3, RecordKeeps DEF apply_one
<1>4. CASE UNCHANGED vars
  BY <1>2, <1>4 DEF vars, seqVars, envVars, history
<1>5. ASSUME NEW r \in Refs, Environment(r) PROVE CacheInv'
  BY <1>2, <1>5 DEF Environment, ClientCreates, ClientSends, ClientCancels, VenueFills,
     VenueReplaces, VenueAnswers, VenueCancels, VenueSays, seqVars, envVars, history
<1>6. ASSUME NEW r \in Refs, NEW n \in 1 .. MaxReports[r], process(r, n) PROVE CacheInv'
  <2>1. CASE Drop(r, n)
    BY <1>4, <2>1 DEF Drop
  <2>2. CASE hold(r, n)
    BY <1>2, <2>2 DEF hold, envVars, history
  <2>3. CASE ApplyInSequence(r, n)
    BY <1>3, <2>3 DEF ApplyInSequence
  <2> QED BY <1>6, <2>1, <2>2, <2>3 DEF process
<1>7. CASE drain
  <2>1. CASE DrainGone \/ DrainDone
    BY <1>2, <2>1 DEF DrainGone, DrainDone, envVars, history
  <2>2. CASE DrainNext
    <3>1. draining \in Refs
      BY <1>1, <2>2 DEF DrainNext, TypeOK, OmsTypeOK
    <3> QED BY <1>3, <2>2, <3>1 DEF DrainNext
  <2> QED BY <1>7, <2>1, <2>2 DEF drain
<1> QED BY <1>4, <1>5, <1>6, <1>7 DEF Next

\* The cache forgets an order exactly when CacheCapacity later ones have finished: a report
\* for an order out of the book is terminal_late if it is one of those, unknown_order if not.
THEOREM LateRecognised == Spec => []LateReportsRecognised
<1>1. Init => CacheInv
  BY DEF Init, CacheInv
<1>2. ASSUME TypeOK, CacheInv PROVE LateReportsRecognised
  <2> DEFINE recent == {finished[k] : k \in {i \in DOMAIN finished : i + CacheCapacity > Len(finished)}}
  <2>1. finished \in Seq(Refs) /\ CacheCapacity \in Nat \ {0}
    BY <1>2, SequencerAssumption DEF TypeOK
  <2>2. ASSUME NEW r PROVE contains(r) <=> r \in recent
    <3>1. ASSUME contains(r) PROVE r \in recent
      <4>1. PICK i \in CacheSlots : i < write /\ ring[i] = r
        BY <3>1 DEF contains
      <4>2. PICK k \in 1 .. Len(finished) : Recent(k) /\ (k - 1) % CacheCapacity = i
        BY <1>2, <4>1 DEF CacheInv
      <4>3. finished[k] = r
        BY <1>2, <4>1, <4>2 DEF CacheInv
      <4> QED BY <2>1, <4>2, <4>3 DEF Recent
    <3>2. ASSUME r \in recent PROVE contains(r)
      <4>1. PICK k \in 1 .. Len(finished) : Recent(k) /\ finished[k] = r
        BY <2>1, <3>2 DEF Recent
      <4> DEFINE i == (k - 1) % CacheCapacity
      <4>2. ring[i] = r
        BY <1>2, <4>1 DEF CacheInv
      <4>3. k - 1 \in Nat /\ k - 1 < Len(finished)
        BY <2>1
      <4>4. i \in CacheSlots /\ i <= k - 1
        BY <2>1, <4>3 DEF CacheSlots
      <4>5. i < write
        BY <1>2, <2>1, <4>3, <4>4 DEF CacheInv, CacheSlots
      <4> QED BY <4>2, <4>4, <4>5 DEF contains
    <3> QED BY <3>1, <3>2
  <2>3. ASSUME NEW r \in Refs \ live, NEW n \in 1 .. MaxReports[r]
        PROVE  Outcome(r, n) = IF contains(r) THEN "terminal_late" ELSE "unknown_order"
    BY DEF Outcome
  <2> HIDE DEF recent
  <2>4. \A r \in Refs \ live : \A n \in 1 .. MaxReports[r] :
          Outcome(r, n) = IF r \in recent THEN "terminal_late" ELSE "unknown_order"
    BY <2>2, <2>3
  <2> QED BY <2>4 DEF LateReportsRecognised, recent
<1>3. SeqInv => TypeOK
  BY DEF SeqInv
<1> QED BY <1>1, <1>2, <1>3, InitSafe, NextSafe, CacheStep, PTL DEF Spec
-----------------------------------------------------------------------------
(* Reserved exposure. *)

LiveVolume == SumFunctionOnSet([r \in Refs |-> order[r].requested_volume], live)

NoReplacement ==
  \A r \in Refs : \A n \in 1 .. MaxReports[r] : n \in DOMAIN venue[r] => venue[r][n].kind # "replace_ack"

ReserveInv ==
  /\ IsFiniteSet(live)
  /\ \A r \in Refs : Len(venue[r]) <= MaxReports[r]
  /\ NoReplacement => reserved = LiveVolume

\* What an order asks for is not changed, or it leaves the book and gives just that back.
LEMMA SettleReserved ==
  ASSUME BookInv, IsFiniteSet(live), reserved = LiveVolume,
         NEW r \in live, NEW o \in Order, Settle(r, o), is_terminal(o.state) \/ Sound(o),
         o.requested_volume = order[r].requested_volume
  PROVE  reserved' = LiveVolume'
<1> DEFINE v == [q \in Refs |-> order[q].requested_volume]
           w == [q \in Refs |-> order'[q].requested_volume]
<1>1. live \subseteq Refs /\ order \in [Refs -> Order] /\ r \in Refs /\ reserves_exposure(order[r].state)
  BY DEF BookInv, OmsTypeOK, OrdersSound
<1>2. \A q \in live : v[q] \in Int
  BY <1>1 DEF Order
<1>3. /\ live' = IF Reclaims(o.state) THEN live \ {r} ELSE live
      /\ \A q \in live' : w[q] = v[q]
  BY <1>1 DEF Settle
<1>4. live' \subseteq live /\ IsFiniteSet(live')
  BY <1>3, FS_Subset
<1> HIDE DEF v, w
<1>5. SumFunctionOnSet(v, live') = SumFunctionOnSet(w, live')
  <2>1. \A q \in live' : v[q] \in Int /\ v[q] = w[q]
    BY <1>2, <1>3, <1>4
  <2> QED BY <1>4, <2>1, SumSame
<1>6. CASE is_terminal(o.state)
  <2>1. live' = live \ {r} /\ ~reserves_exposure(o.state)
    BY <1>3, <1>6 DEF Reclaims, reserves_exposure
  <2>2. reserved' = reserved - v[r]
    BY <1>1, <2>1 DEF Settle, Released, v
  <2>3. SumFunctionOnSet(v, live) = v[r] + SumFunctionOnSet(v, live \ {r})
    BY <1>2, SumRemove
  <2>4. SumFunctionOnSet(v, live') \in Int /\ v[r] \in Int
    BY <1>2, <1>4, SumInt
  <2>5. reserved = SumFunctionOnSet(v, live)
    BY DEF LiveVolume, v
  <2>6. reserved' = SumFunctionOnSet(w, live')
    BY <1>5, <2>1, <2>2, <2>3, <2>4, <2>5
  <2> QED BY <2>6 DEF LiveVolume, w
<1>7. CASE Sound(o) /\ ~is_terminal(o.state)
  <2>1. live' = live /\ reserved' = reserved
    BY <1>3, <1>7 DEF Reclaims, Sound, Settle
  <2> QED BY <1>5, <2>1 DEF LiveVolume, v, w
<1> QED BY <1>6, <1>7

LEMMA CreateReserved ==
  ASSUME BookInv, IsFiniteSet(live), reserved = LiveVolume,
         NEW r \in Refs, NEW n \in Nat, create(r, n)
  PROVE  reserved' = LiveVolume' /\ IsFiniteSet(live')
<1> DEFINE v == [q \in Refs |-> order[q].requested_volume]
           w == [q \in Refs |-> order'[q].requested_volume]
<1>1. live \subseteq Refs /\ order \in [Refs -> Order]
  BY DEF BookInv, OmsTypeOK
<1>2. /\ r \notin live /\ live' = live \cup {r} /\ reserved' = reserved + n
      /\ order' = [order EXCEPT ![r] = NewOrder("pending_send", n, 0)]
  BY DEF create, Insert
<1>3. w[r] = n /\ \A q \in live : w[q] = v[q] /\ v[q] \in Int
  BY <1>1, <1>2 DEF NewOrder, Order
<1> HIDE DEF v, w
<1>4. SumFunctionOnSet(w, live) = SumFunctionOnSet(v, live) /\ SumFunctionOnSet(v, live) \in Int
  BY <1>3, SumSame, SumInt
<1>5. SumFunctionOnSet(w, live \cup {r}) = w[r] + SumFunctionOnSet(w, live)
  BY <1>2, <1>3, SumAdd
<1>6. reserved = SumFunctionOnSet(v, live)
  BY DEF LiveVolume, v
<1>7. w[r] \in Int /\ n \in Int
  BY <1>3
<1>8. reserved' = SumFunctionOnSet(w, live \cup {r})
  BY <1>2, <1>3, <1>4, <1>5, <1>6, <1>7
<1> QED BY <1>2, <1>8, FS_AddElement DEF LiveVolume, w

LEMMA ApplyReserved ==
  ASSUME SeqInv, ReserveInv, NoReplacement, NEW r \in live, NEW n,
         n = order[r].last_applied_seq + 1, n <= Len(venue[r]), apply_one(r, n)
  PROVE  reserved' = LiveVolume'
<1> DEFINE o == order[r]
           rep == venue[r][n]
           after == Result(o, rep)
<1>1. BookInv /\ Sound(o) /\ r \in Refs /\ o \in Order
  BY SoundOrders DEF SeqInv, TypeOK, BookInv, OmsTypeOK
<1>2. n \in 1 .. Len(venue[r]) /\ n \in Nat /\ Len(venue[r]) <= MaxReports[r] /\ venue[r] \in Seq(Report)
  BY <1>1 DEF Order, SeqInv, TypeOK, ReserveInv
<1>3. rep \in Report
  BY <1>1, <1>2, ReportTyped DEF SeqInv
<1>4. rep.kind # "replace_ack"
  <2>1. n \in 1 .. MaxReports[r] /\ n \in DOMAIN venue[r]
    BY <1>1, <1>2, SequencerAssumption
  <2> QED BY <1>1, <2>1 DEF NoReplacement
<1>5. /\ after \in Order /\ (is_terminal(after.state) \/ Sound(after))
      /\ ~Accepts(o, rep) => Sound(after)
  BY <1>1, <1>3, ResultSound
<1>6. after.requested_volume = o.requested_volume
  <2>1. CASE Accepts(o, rep)
    BY <1>1, <1>3, <1>4, <2>1, ResultVolumes
  <2>2. CASE ~Accepts(o, rep) /\ rep.kind # "fill"
    BY <2>2 DEF Result
  <2>3. CASE ~Accepts(o, rep) /\ rep.kind = "fill"
    <3>1. after = AfterFill(o, rep.volume) /\ ~FillOk(o, rep.volume)
      BY <2>3 DEF Result, Accepts
    <3>2. AfterFill(o, rep.volume) \in {o, AddFill(o, rep.volume)}
      BY <3>1 DEF AfterFill, FillOk
    <3> QED BY <1>1, <3>1, <3>2 DEF AddFill, Order
  <2> QED BY <2>1, <2>2, <2>3
<1>7. IsFiniteSet(live) /\ reserved = LiveVolume
  BY DEF ReserveInv
<1>8. CASE Accepts(o, rep)
  <2> DEFINE b == Stamp(after, n)
  <2>1. Settle(r, b)
    BY <1>8 DEF apply_one
  <2>2. /\ b \in Order /\ b.state = after.state
        /\ b.requested_volume = after.requested_volume /\ b.filled_volume = after.filled_volume
    BY <1>2, <1>5 DEF Stamp, Order
  <2>3. is_terminal(b.state) \/ Sound(b)
    BY <1>5, <2>2 DEF Sound
  <2> HIDE DEF b
  <2> QED BY <1>1, <1>6, <1>7, <2>1, <2>2, <2>3, SettleReserved
<1>9. CASE ~Accepts(o, rep)
  <2>1. Settle(r, after)
    BY <1>9 DEF apply_one
  <2> HIDE DEF after
  <2> QED BY <1>1, <1>5, <1>6, <1>7, <2>1, SettleReserved
<1> QED BY <1>8, <1>9

\* The pool, the venue and the drain's bookkeeping have no part in it.
LEMMA ReserveStep == SeqInv /\ ReserveInv /\ [Next]_vars => ReserveInv'
<1> SUFFICES ASSUME SeqInv, ReserveInv, [Next]_vars PROVE ReserveInv'
  OBVIOUS
<1>1. BookInv /\ TypeOK /\ live \subseteq Refs /\ order \in [Refs -> Order]
      /\ venue \in [Refs -> Seq(Report)] /\ IsFiniteSet(live)
  BY DEF SeqInv, BookInv, TypeOK, OmsTypeOK, ReserveInv
<1>2. ASSUME UNCHANGED <<omsVars, venue>> PROVE ReserveInv'
  BY <1>2 DEF omsVars, ReserveInv, NoReplacement, LiveVolume
<1>3. ASSUME NEW r \in live, NEW n, n = order[r].last_applied_seq + 1, n <= Len(venue[r]),
             apply_one(r, n), UNCHANGED venue
      PROVE  ReserveInv'
  <2>1. NoReplacement' => reserved' = LiveVolume'
    BY <1>3, ApplyReserved DEF NoReplacement
  <2>2. live' \subseteq live
    BY <1>3, ApplyEffect
  <2>3. IsFiniteSet(live')
    BY <1>1, <2>2, FS_Subset
  <2> QED BY <1>3, <2>1, <2>3 DEF ReserveInv
<1>4. ASSUME NEW r \in Refs, NEW k, NEW v, NEW c, NEW q, VenueSays(r, k, v, c, q) PROVE ReserveInv'
  <2> DEFINE rep == [kind |-> k, volume |-> v, cum |-> c, req |-> q]
  <2>1. /\ venue' = [venue EXCEPT ![r] = Append(venue[r], rep)] /\ Len(venue[r]) < MaxReports[r]
        /\ UNCHANGED <<live, order, reserved>>
    BY <1>4 DEF VenueSays, omsVars
  <2>2. venue[r] \in Seq(Report) /\ MaxReports[r] \in Nat
    BY <1>1, SequencerAssumption
  <2>3. Len(venue'[r]) = Len(venue[r]) + 1 /\ \A n \in 1 .. Len(venue[r]) : venue'[r][n] = venue[r][n]
    BY <1>1, <2>1, <2>2
  <2>4. \A p \in Refs \ {r} : venue'[p] = venue[p]
    BY <1>1, <2>1
  <2>5. \A p \in Refs : Len(venue'[p]) <= MaxReports[p]
    BY <2>1, <2>2, <2>3, <2>4 DEF ReserveInv
  <2>6. NoReplacement' => NoReplacement
    <3> SUFFICES ASSUME NoReplacement', NEW p \in Refs, NEW n \in 1 .. MaxReports[p], n \in DOMAIN venue[p]
                 PROVE  venue[p][n].kind # "replace_ack"
      BY DEF NoReplacement
    <3>1. venue[p] \in Seq(Report) /\ n \in 1 .. Len(venue[p])
      BY <1>1
    <3>2. venue'[p][n] = venue[p][n]
      BY <2>3, <2>4, <3>1
    <3>3. n \in DOMAIN venue'[p]
      <4>1. CASE p = r
        <5>1. DOMAIN venue'[r] = 1 .. Len(venue[r]) + 1
          BY <1>1, <2>1, <2>2
        <5> QED BY <2>2, <3>1, <4>1, <5>1
      <4> QED BY <2>4, <4>1
    <3> QED BY <3>2, <3>3 DEF NoReplacement
  <2>7. LiveVolume' = LiveVolume
    BY <2>1 DEF LiveVolume
  <2> QED BY <2>1, <2>5, <2>6, <2>7 DEF ReserveInv
<1>5. ASSUME NEW r \in Refs, Environment(r) PROVE ReserveInv'
  <2>1. ASSUME NEW v \in Volumes, ClientCreates(r, v) PROVE ReserveInv'
    <3>1. create(r, v) /\ UNCHANGED venue /\ v \in Nat
      BY <2>1, OmsAssumption DEF ClientCreates, envVars
    <3>2. live' = live \cup {r}
      BY <3>1 DEF create, Insert
    <3>3. IsFiniteSet(live')
      BY <1>1, <3>2, FS_AddElement
    <3>4. NoReplacement' => reserved' = LiveVolume'
      BY <1>1, <3>1, CreateReserved DEF ReserveInv, NoReplacement
    <3> QED BY <3>1, <3>3, <3>4 DEF ReserveInv
  <2>2. ASSUME NEW s \in {"sent", "cancel_pending"}, transition(r, s), UNCHANGED venue PROVE ReserveInv'
    <3> DEFINE o == [order[r] EXCEPT !.state = s]
    <3>1. r \in live /\ Sound(order[r]) /\ Settle(r, o)
      BY <1>1, <2>2, SoundOrders DEF transition
    <3>2. o \in Order /\ Sound(o) /\ ~is_terminal(o.state) /\ o.requested_volume = order[r].requested_volume
      BY <3>1 DEF Sound, Order, OrderStates, reserves_exposure, is_terminal, Terminal
    <3>3. live' = live
      BY <3>1, <3>2 DEF Settle, Reclaims
    <3> HIDE DEF o
    <3>4. NoReplacement' => reserved' = LiveVolume'
      BY <1>1, <2>2, <3>1, <3>2, SettleReserved DEF ReserveInv, NoReplacement
    <3> QED BY <1>1, <2>2, <3>3, <3>4 DEF ReserveInv
  <2>3. CASE ClientSends(r) \/ ClientCancels(r)
    BY <2>2, <2>3 DEF ClientSends, ClientCancels, envVars
  <2> QED BY <1>4, <1>5, <2>1, <2>3
          DEF Environment, VenueFills, VenueReplaces, VenueAnswers, VenueCancels
<1>6. CASE UNCHANGED vars
  BY <1>2, <1>6 DEF vars, envVars
<1>7. ASSUME NEW r \in Refs, NEW n \in 1 .. MaxReports[r], process(r, n) PROVE ReserveInv'
  <2>1. CASE Drop(r, n)
    BY <1>6, <2>1 DEF Drop
  <2>2. CASE hold(r, n)
    BY <1>2, <2>2 DEF hold, envVars
  <2>3. CASE ApplyInSequence(r, n)
    <3>1. apply_one(r, n) /\ UNCHANGED venue /\ Outcome(r, n) \in {"applied", "illegal"}
          /\ n \in 1 .. Len(venue[r])
      BY <1>7, <2>3 DEF ApplyInSequence, process
    <3>2. r \in live /\ ~IsDuplicate(r, n) /\ ~(n > order[r].last_applied_seq + 1)
      BY <3>1 DEF Outcome
    <3>3. n = order[r].last_applied_seq + 1 /\ n <= Len(venue[r])
      BY <1>1, <3>1, <3>2 DEF IsDuplicate, Order
    <3> QED BY <1>3, <3>1, <3>2, <3>3
  <2> QED BY <1>7, <2>1, <2>2, <2>3 DEF process
<1>8. CASE drain
  <2>1. CASE DrainGone \/ DrainDone
    BY <1>2, <2>1 DEF DrainGone, DrainDone, envVars
  <2>2. CASE DrainNext
    <3> DEFINE n == order[draining].last_applied_seq + 1
    <3>1. draining \in live /\ UNCHANGED venue
      BY <2>2 DEF DrainNext
    <3>2. PICK i \in GapSlots : slots[i] = <<draining, n>> /\ apply_one(draining, n)
      BY <2>2 DEF DrainNext, Takes, NextReport
    <3>3. <<draining, n>> \in Held
      BY <1>1, <3>1 DEF Held, Order
    <3>4. slots[i] # None /\ slots[i][1] = draining /\ slots[i][2] = n
      BY <3>2, <3>3, SequencerAssumption
    <3>5. n <= Len(venue[draining])
      BY <3>4 DEF SeqInv, OnlySentReports
    <3> HIDE DEF n
    <3>6. n = order[draining].last_applied_seq + 1
      BY DEF n
    <3> QED BY <1>3, <3>1, <3>2, <3>5, <3>6
  <2> QED BY <1>8, <2>1, <2>2 DEF drain
<1> QED BY <1>5, <1>6, <1>7, <1>8 DEF Next

\* Exposure is neither leaked nor released twice: as long as no order is replaced, reserved_
\* is what the live orders ask for, whatever reports were refused, repeated or late.
THEOREM ReservedExact == Spec => []ReservedIsLiveVolume
<1>1. Init => ReserveInv
  <2> SUFFICES ASSUME Init PROVE ReserveInv
    OBVIOUS
  <2>1. live = {} /\ reserved = 0 /\ \A r \in Refs : Len(venue[r]) = 0
    BY DEF Init, OmsInit
  <2>2. LiveVolume = 0
    BY <2>1, SumEmpty DEF LiveVolume
  <2>3. \A r \in Refs : 0 <= MaxReports[r]
    BY SequencerAssumption
  <2> QED BY <2>1, <2>2, <2>3, FS_EmptySet DEF ReserveInv
<1>2. ReserveInv => ReservedIsLiveVolume
  BY DEF ReserveInv, ReservedIsLiveVolume, NoReplacement, LiveVolume
<1> QED BY <1>1, <1>2, InitSafe, NextSafe, ReserveStep, PTL DEF Spec

-----------------------------------------------------------------------------
(* The journal: the order of its records, and the invariant that they tell the book. *)

\* When an operation makes several records, their kinds tell their order; Pos numbers the
\* records in the order the workers made them.
Sub(kind) == CASE kind = "order_state" -> 1
               [] kind = "acknowledgement" -> 2
               [] OTHER -> 0
Pos(item) == 3 * item.ts + Sub(item.kind)

\* The records of a shard, from the oldest place to the youngest.
Boxed(s) == Range(outbox[s]) \cup Range(emitting[s])
All == Range(wal) \cup UNION {Boxed(s) : s \in ShardSet}

Of(item) == ShardOf[item.ref]

Rising(q) == \A i, j \in 1 .. Len(q) : i < j /\ Of(q[i]) = Of(q[j]) => Pos(q[i]) < Pos(q[j])
AllBefore(A, B) == \A a \in A, b \in B : Of(a) = Of(b) => Pos(a) < Pos(b)

\* Each place holds the records in the order they were made, and each shard's records are its
\* own; the records of one operation are about one order.
PlaceInv ==
  /\ Rising(wal)
  /\ \A s \in ShardSet : /\ Rising(outbox[s]) /\ Rising(emitting[s])
                         /\ AllBefore(Range(wal), Range(outbox[s]))
                         /\ AllBefore(Range(wal), Range(emitting[s]))
                         /\ AllBefore(Range(outbox[s]), Range(emitting[s]))
                         /\ \A a \in Boxed(s) : Of(a) = s
  /\ \A a, b \in All : a.ts = b.ts => a.ref = b.ref
  /\ mode = "up" => \A a \in All : a.ts < seq
  /\ mode # "up" => \A s \in ShardSet : outbox[s] = <<>> /\ emitting[s] = <<>>

\* What the writer thread still has to do about the records stop() found.
StopInv ==
  /\ running => owed = {} /\ writer.pc \in {"drain", "flush"}
  /\ mode = "up" => owed \subseteq Accepted
  /\ mode # "up" => owed = {}
  /\ (writer.pc = "final" /\ ~writer.any) =>
       \A s \in ShardSet : s < writer.at => owed \cap Range(outbox[s]) = {}
  /\ writer.pc = "last" => owed \subseteq Range(wal)
  /\ writer.pc = "done" => owed = {}
  /\ writer.pc = "flush" => writer.at = 1

\* What replay has for an order whose last record has this image: a command restores as sent.
Seen(image) == IF image.state = "pending_send" THEN [image EXCEPT !.state = "sent"] ELSE image

\* Replaying record b on what a record with this image left gives b's image, and is accepted.
Joins(image, b) == b.kind # "command" /\ Replayed(b, Seen(image)) = Seen(b.image)
Fits(image, b) == Valid(b, TRUE, Seen(image))

\* Record b follows record a of the same order. A replacement recovery refuses is the last.
Link(a, b) == /\ ~is_terminal(a.image.state)
              /\ Joins(a.image, b)
              /\ b.ref \notin resized => Fits(a.image, b)
OpensChain(b) == b.kind = "command" /\ b.image = NewOrder("pending_send", b.y, 0)

Precedes(a, b) == a.ref = b.ref /\ Pos(a) < Pos(b)
Next2(a, b) == Precedes(a, b) /\ ~\E c \in All : Precedes(a, c) /\ Precedes(c, b)
First(b) == ~\E a \in All : Precedes(a, b)
Latest(b) == ~\E a \in All : Precedes(b, a)

ChainInv ==
  /\ \A b \in All : b.ref \notin dropped /\ First(b) => OpensChain(b)
  /\ \A a, b \in All : b.ref \notin dropped /\ Next2(a, b) => Link(a, b)

\* The last record of an order whose changes were all journaled shows the order as it is.
LatestAt(r) ==
  /\ ops[r] = 0 => r \notin live /\ \A a \in All : a.ref # r
  /\ \A a \in All : a.ref = r /\ r \notin dropped \cup Unlogged /\ Latest(a) =>
       IF r \in live THEN Seen(order[r]) = Seen(a.image) ELSE is_terminal(a.image.state)
  /\ r \in live /\ r \notin dropped \cup Unlogged => \E a \in All : a.ref = r
LatestInv == mode = "up" => \A r \in Refs : LatestAt(r)

\* A live order in the running book is open.
UpInv == mode = "up" => \A r \in live : ~is_terminal(order[r].state) /\ order[r].state # "unknown"
-----------------------------------------------------------------------------
(* Types. *)

LEMMA OrderTyped ==
  /\ NoOrder \in Order
  /\ \A v \in Nat : NewOrder("pending_send", v, 0) \in Order /\ NewOrder("sent", v, 0) \in Order
  /\ \A v, f \in Nat : NewOrder("unknown", v, f) \in Order
BY DEF NoOrder, NewOrder, Order, OrderStates

LEMMA LegalTyped ==
  ASSUME NEW a, NEW t, legal(a, t)
  PROVE  t \in OrderStates
BY DEF legal, Successors, OrderStates, Terminal

LEMMA FillTyped ==
  ASSUME NEW o \in Order, NEW v \in Nat
  PROVE  /\ AddFill(o, v) \in Order /\ AddFill(o, v).state = o.state
         /\ AddFill(o, v).filled_volume = o.filled_volume + v
         /\ AddFill(o, v).requested_volume = o.requested_volume
         /\ FillTarget(AddFill(o, v)) \in OrderStates
         /\ AfterFill(o, v) \in Order
<1>1. AddFill(o, v) \in Order /\ AddFill(o, v).state = o.state
      /\ AddFill(o, v).filled_volume = o.filled_volume + v
      /\ AddFill(o, v).requested_volume = o.requested_volume
  BY DEF AddFill, Order
<1>2. FillTarget(AddFill(o, v)) \in OrderStates
  BY DEF FillTarget, OrderStates
<1>3. [AddFill(o, v) EXCEPT !.state = FillTarget(AddFill(o, v))] \in Order
  BY <1>1, <1>2 DEF Order
<1> QED BY <1>1, <1>2, <1>3 DEF AfterFill

LEMMA MovedTyped ==
  ASSUME NEW o \in Order, NEW t \in OrderStates
  PROVE  Moved(o, t) \in Order
BY DEF Moved, Order

LEMMA ReportsTyped ==
  ASSUME NEW rep \in Reports
  PROVE  rep.kind \in Kinds /\ rep.volume \in Nat
<1>1. CASE rep \in [kind : {"fill", "replace_ack"}, volume : Volumes]
  BY <1>1, OmsAssumption DEF Kinds
<1>2. CASE rep \in [kind : Kinds \ {"fill", "replace_ack"}, volume : {0}]
  BY <1>2
<1> QED BY <1>1, <1>2 DEF Reports

LEMMA TargetTyped ==
  ASSUME NEW k \in Kinds, k \notin {"fill", "replace_ack"}
  PROVE  ReportTarget(k) \in OrderStates
BY DEF Kinds, ReportTarget, OrderStates

LEMMA ResultTyped ==
  ASSUME NEW o \in Order, NEW rep \in Reports
  PROVE  Result(o, rep) \in Order
<1>1. rep.kind \in Kinds /\ rep.volume \in Nat
  BY ReportsTyped
<1>2. CASE rep.kind = "fill"
  BY <1>1, <1>2, FillTyped DEF Result
<1>3. CASE rep.kind = "replace_ack"
  BY <1>1, <1>3 DEF Result, Order
<1>4. CASE rep.kind \notin {"fill", "replace_ack"}
  <2>1. ReportTarget(rep.kind) \in OrderStates
    BY <1>1, <1>4, TargetTyped
  <2>2. [o EXCEPT !.state = ReportTarget(rep.kind)] \in Order
    BY <2>1 DEF Order
  <2> QED BY <1>1, <1>4, <2>2 DEF Result
<1> QED BY <1>2, <1>3, <1>4
-----------------------------------------------------------------------------
(* What the records of an operation say. *)

\* Records of one operation on order r, in order.
Fresh(r, records) ==
  /\ records \in Seq(Record)
  /\ \A i \in 1 .. Len(records) : records[i].ref = r /\ records[i].ts = seq
  /\ \A i, j \in 1 .. Len(records) : i < j => Pos(records[i]) < Pos(records[j])

Before(o, records, i) == IF i = 1 THEN o ELSE records[i-1].image

\* They lead from order o to order n.
Told(o, records, n) ==
  /\ \A i \in 1 .. Len(records) : Joins(Before(o, records, i), records[i])
  /\ \A i \in 1 .. Len(records) : i < Len(records) => ~is_terminal(records[i].image.state)
  /\ IF records = <<>> THEN Seen(n) = Seen(o) ELSE records[Len(records)].image = n

Checked(o, records) == \A i \in 1 .. Len(records) : Fits(Before(o, records, i), records[i])

LEMMA RecTyped ==
  ASSUME NEW k \in RecordKinds, NEW r \in Refs, NEW f \in OrderStates, NEW t \in OrderStates,
         NEW x \in Nat, NEW y \in Nat, NEW i \in Order, seq \in Nat
  PROVE  /\ Rec(k, r, f, t, x, y, i) \in Record
         /\ Rec(k, r, f, t, x, y, i).ref = r /\ Rec(k, r, f, t, x, y, i).ts = seq
         /\ Pos(Rec(k, r, f, t, x, y, i)) = 3 * seq + Sub(k)
BY DEF Rec, Record, Pos

LEMMA PosTyped ==
  ASSUME NEW a \in Record
  PROVE  /\ Sub(a.kind) \in 0 .. 2 /\ Pos(a) \in Nat /\ a.ts \in Nat /\ a.ref \in Refs
         /\ Pos(a) = 3 * a.ts + Sub(a.kind)
<1>1. Sub(a.kind) \in 0 .. 2
  BY DEF Sub
<1>2. a.ts \in Nat /\ a.ref \in Refs
  BY DEF Record
<1> QED BY <1>1, <1>2 DEF Pos

\* An operation with one record, and one with two.
LEMMA OneRecord ==
  ASSUME NEW r, NEW a \in Record, a.ref = r, a.ts = seq
  PROVE  Fresh(r, <<a>>)
BY DEF Fresh

LEMMA TwoRecords ==
  ASSUME NEW r, NEW a \in Record, NEW b \in Record, a.ref = r, a.ts = seq, b.ref = r, b.ts = seq,
         Pos(a) < Pos(b)
  PROVE  Fresh(r, <<a, b>>)
BY DEF Fresh

LEMMA OneTold ==
  ASSUME NEW o, NEW a, Joins(o, a)
  PROVE  Told(o, <<a>>, a.image) /\ (Fits(o, a) => Checked(o, <<a>>))
BY DEF Told, Checked, Before

LEMMA TwoTold ==
  ASSUME NEW o, NEW a, NEW b, Joins(o, a), Joins(a.image, b), ~is_terminal(a.image.state)
  PROVE  /\ Told(o, <<a, b>>, b.image)
         /\ Fits(o, a) /\ Fits(a.image, b) => Checked(o, <<a, b>>)
BY DEF Told, Checked, Before

\* A record of a transition.
LEMMA StateRecTells ==
  ASSUME NEW r \in Refs, NEW o \in Order, NEW t \in OrderStates, legal(o.state, t), seq \in Nat,
         o.state # "pending_send", t # "pending_send"
  PROVE  LET a == StateRec(r, o, t, Moved(o, t)) IN
         /\ a \in Record /\ a.ref = r /\ a.ts = seq /\ Pos(a) = 3 * seq + 1
         /\ a.image = Moved(o, t) /\ Joins(o, a) /\ Fits(o, a)
<1> DEFINE a == StateRec(r, o, t, Moved(o, t))
<1>1. Moved(o, t) \in Order /\ o.filled_volume \in Nat /\ o.requested_volume \in Nat
      /\ o.state \in OrderStates /\ "order_state" \in RecordKinds
  BY MovedTyped DEF Order, RecordKinds
<1>2. a \in Record /\ a.ref = r /\ a.ts = seq /\ Pos(a) = 3 * seq + Sub("order_state")
  BY <1>1, RecTyped DEF StateRec
<1>3. a.kind = "order_state" /\ a.from = o.state /\ a.to = t /\ a.x = o.filled_volume
      /\ a.y = o.requested_volume /\ a.image = Moved(o, t)
  BY DEF StateRec, Rec
<1>4. Seen(o) = o
  BY DEF Seen
<1>6. Moved(o, t).state = t
  BY DEF Moved, Order
<1>7. Seen(Moved(o, t)) = Moved(o, t)
  BY <1>6 DEF Seen
<1>8. Replayed(a, o) = Moved(o, t) /\ Valid(a, TRUE, o)
  BY <1>3 DEF Replayed, Valid, Moved
<1> HIDE DEF a
<1>9. Joins(o, a) /\ Fits(o, a)
  BY <1>3, <1>4, <1>7, <1>8 DEF Joins, Fits
<1>10. Sub("order_state") = 1
  BY DEF Sub
<1> QED BY <1>2, <1>3, <1>9, <1>10 DEF a

\* A record without volumes changes nothing.
LEMMA ConfirmTells ==
  ASSUME NEW r \in Refs, NEW o \in Order, seq \in Nat, NEW k,
         k \in {"acknowledgement", "rejection", "cancel"}
  PROVE  LET a == Confirm(k, r, o) IN
         /\ a \in Record /\ a.ref = r /\ a.ts = seq /\ Pos(a) = 3 * seq + Sub(k)
         /\ a.image = o /\ a.kind = k /\ Joins(o, a)
         /\ (o.state # "pending_send" /\ Valid(a, TRUE, o)) => Fits(o, a)
<1> DEFINE a == Confirm(k, r, o)
<1>1. k \in RecordKinds /\ NoState \in OrderStates /\ 0 \in Nat
  BY DEF RecordKinds, NoState, OrderStates
<1>2. a \in Record /\ a.ref = r /\ a.ts = seq /\ Pos(a) = 3 * seq + Sub(k)
  BY <1>1, RecTyped DEF Confirm
<1>3. a.image = o /\ a.kind = k
  BY DEF Confirm, Rec
<1>4. Replayed(a, Seen(o)) = Seen(o)
  BY <1>3 DEF Replayed
<1> HIDE DEF a
<1>5. Joins(o, a) /\ ((o.state # "pending_send" /\ Valid(a, TRUE, o)) => Fits(o, a))
  BY <1>3, <1>4 DEF Joins, Fits, Seen
<1> QED BY <1>2, <1>3, <1>5 DEF a

LEMMA TransitionTells ==
  ASSUME NEW r \in Refs, NEW o \in Order, NEW t \in OrderStates, legal(o.state, t), seq \in Nat,
         t # "pending_send"
  PROVE  LET q == TransitionRecords(r, o, t) IN
         /\ Fresh(r, q) /\ Told(o, q, Moved(o, t)) /\ Checked(o, q)
         /\ o.state # "pending_send" /\ t # "acknowledged"
              => q = <<StateRec(r, o, t, Moved(o, t))>>
<1> DEFINE q == TransitionRecords(r, o, t)
           a == StateRec(r, o, t, Moved(o, t))
           c == Confirm("acknowledgement", r, Moved(o, t))
<1>1. CASE o.state = "pending_send"
  <2>1. t = "sent"
    BY <1>1 DEF legal, Successors
  <2>2. q = <<>>
    BY <1>1, <2>1 DEF TransitionRecords
  <2>3. Seen(Moved(o, t)) = Seen(o)
    BY <1>1, <2>1 DEF Seen, Moved, Order
  <2> QED BY <1>1, <2>2, <2>3 DEF Fresh, Told, Checked
<1>2. CASE o.state # "pending_send"
  <2>1. /\ a \in Record /\ a.ref = r /\ a.ts = seq /\ Pos(a) = 3 * seq + 1
        /\ a.image = Moved(o, t) /\ Joins(o, a) /\ Fits(o, a)
    BY <1>2, StateRecTells
  <2>2. Moved(o, t) \in Order /\ Moved(o, t).state = t
    BY MovedTyped DEF Moved, Order
  <2>3. CASE t = "acknowledged"
    <3>1. /\ c \in Record /\ c.ref = r /\ c.ts = seq /\ Pos(c) = 3 * seq + Sub("acknowledgement")
          /\ c.image = Moved(o, t) /\ c.kind = "acknowledgement" /\ Joins(Moved(o, t), c)
          /\ (Moved(o, t).state # "pending_send" /\ Valid(c, TRUE, Moved(o, t))) => Fits(Moved(o, t), c)
      BY <2>2, ConfirmTells
    <3>2. Valid(c, TRUE, Moved(o, t))
      BY <2>2, <2>3, <3>1 DEF Valid
    <3>3. q = <<a, c>>
      BY <1>2, <2>3 DEF TransitionRecords
    <3>4. ~is_terminal(t) /\ Sub("acknowledgement") = 2
      BY <2>3 DEF is_terminal, Terminal, Sub
    <3> HIDE DEF q, a, c
    <3>5. Fresh(r, q)
      BY <2>1, <3>1, <3>3, <3>4, TwoRecords
    <3>6. Told(o, q, Moved(o, t)) /\ Checked(o, q)
      <4>1. Joins(a.image, c) /\ Fits(a.image, c) /\ ~is_terminal(a.image.state)
        BY <2>1, <2>2, <2>3, <3>1, <3>2, <3>4
      <4> QED BY <2>1, <3>1, <3>3, <4>1, TwoTold
    <3> QED BY <1>2, <2>3, <3>5, <3>6 DEF q
  <2>4. CASE t # "acknowledged"
    <3>1. q = <<a>>
      BY <1>2, <2>4 DEF TransitionRecords
    <3> HIDE DEF q, a
    <3>2. Fresh(r, q) /\ Told(o, q, Moved(o, t)) /\ Checked(o, q)
      BY <2>1, <3>1, OneRecord, OneTold
    <3> QED BY <3>1, <3>2 DEF q, a
  <2> QED BY <2>3, <2>4
<1> QED BY <1>1, <1>2

LEMMA FillTells ==
  ASSUME NEW r \in Refs, NEW o \in Order, NEW v \in Nat, FillOk(o, v), seq \in Nat
  PROVE  LET q == FillRecords(r, o, v) IN
         Fresh(r, q) /\ Told(o, q, AfterFill(o, v)) /\ Checked(o, q)
<1> DEFINE b == AddFill(o, v)
           t == FillTarget(b)
           a == Rec("fill", r, NoState, NoState, v, 0, b)
           c == StateRec(r, b, t, Moved(b, t))
           q == FillRecords(r, o, v)
<1>1. b \in Order /\ b.state = o.state /\ t \in OrderStates /\ t # "pending_send" /\ t # "sent"
  BY FillTyped DEF FillTarget
<1>2. legal(o.state, t) /\ Fillable(o, v)
  BY DEF FillOk
<1>3. o.state # "pending_send" /\ ~is_terminal(o.state)
  BY <1>1, <1>2 DEF legal, Successors, is_terminal, Terminal
<1>4. "fill" \in RecordKinds /\ NoState \in OrderStates /\ 0 \in Nat /\ Sub("fill") = 0
  BY DEF RecordKinds, NoState, OrderStates, Sub
<1>5. a \in Record /\ a.ref = r /\ a.ts = seq /\ Pos(a) = 3 * seq + Sub("fill")
  BY <1>1, <1>4, RecTyped
<1>6. a.kind = "fill" /\ a.image = b /\ a.x = v
  BY DEF Rec
<1>7. Seen(o) = o /\ Seen(b) = b
  BY <1>1, <1>3 DEF Seen
<1>8. Replayed(a, o) = b /\ Valid(a, TRUE, o)
  BY <1>2, <1>6 DEF Replayed, Valid
<1>9. /\ c \in Record /\ c.ref = r /\ c.ts = seq /\ Pos(c) = 3 * seq + 1
      /\ c.image = Moved(b, t) /\ Joins(b, c) /\ Fits(b, c)
  BY <1>1, <1>2, <1>3, StateRecTells
<1>10. AfterFill(o, v) = Moved(b, t)
  BY <1>2 DEF AfterFill, Moved
<1>11. q = <<a, c>>
  BY DEF FillRecords
<1> HIDE DEF a, b, c, t, q
<1>12. Joins(o, a) /\ Fits(o, a)
  BY <1>6, <1>7, <1>8 DEF Joins, Fits
<1>13. Fresh(r, q)
  BY <1>4, <1>5, <1>9, <1>11, TwoRecords
<1>14. Joins(a.image, c) /\ Fits(a.image, c) /\ ~is_terminal(a.image.state)
  BY <1>1, <1>3, <1>6, <1>9
<1>15. Told(o, q, AfterFill(o, v)) /\ Checked(o, q)
  BY <1>9, <1>10, <1>11, <1>12, <1>14, TwoTold
<1> QED BY <1>13, <1>15 DEF q

LEMMA ReplaceTells ==
  ASSUME NEW r \in Refs, NEW o \in Order, NEW v \in Nat, Replaceable(o, v), seq \in Nat
  PROVE  LET n == [o EXCEPT !.requested_volume = v]
             q == <<Rec("replace", r, NoState, NoState, o.requested_volume, v, n)>>
         IN /\ Fresh(r, q) /\ Told(o, q, n)
            /\ o.state = "acknowledged" => Checked(o, q)
<1> DEFINE n == [o EXCEPT !.requested_volume = v]
           a == Rec("replace", r, NoState, NoState, o.requested_volume, v, n)
<1>1. n \in Order /\ n.state = o.state /\ o.requested_volume \in Nat /\ o.filled_volume \in Nat
  BY DEF Order
<1>2. "replace" \in RecordKinds /\ NoState \in OrderStates
  BY DEF RecordKinds, NoState, OrderStates
<1>3. a \in Record /\ a.ref = r /\ a.ts = seq
  BY <1>1, <1>2, RecTyped
<1>4. a.kind = "replace" /\ a.image = n /\ a.x = o.requested_volume /\ a.y = v
  BY DEF Rec
<1>5. Replayed(a, Seen(o)) = Seen(n)
  BY <1>1, <1>4 DEF Replayed, Seen, Order
<1>6. ASSUME o.state = "acknowledged" PROVE Valid(a, TRUE, o) /\ Seen(o) = o
  <2>1. o.filled_volume <= v
    BY <1>1 DEF Replaceable
  <2> HIDE DEF a
  <2>2. Valid(a, TRUE, o)
    BY <1>4, <1>6, <2>1 DEF Valid
  <2> QED BY <1>6, <2>2 DEF Seen
<1> HIDE DEF a
<1>7. Joins(o, a) /\ (o.state = "acknowledged" => Fits(o, a))
  BY <1>4, <1>5, <1>6 DEF Joins, Fits
<1> QED BY <1>3, <1>4, <1>7, OneRecord, OneTold DEF a

LEMMA PairUp == ASSUME NEW a, NEW c PROVE <<a>> \o <<c>> = <<a, c>>
<1> DEFINE S == {a, c}
<1>1. <<a>> \in Seq(S) /\ <<c>> \in Seq(S) /\ <<a, c>> \in Seq(S)
  OBVIOUS
<1>2. /\ <<a>> \o <<c>> \in Seq(S) /\ Len(<<a>> \o <<c>>) = 2
      /\ (<<a>> \o <<c>>)[1] = a /\ (<<a>> \o <<c>>)[2] = c
  BY <1>1
<1>3. \A i \in 1 .. 2 : (<<a>> \o <<c>>)[i] = <<a, c>>[i]
  BY <1>2
<1> QED BY <1>1, <1>2, <1>3, SeqEqual

\* The end of an order: its confirmation, then the transition.
LEMMA EndTells ==
  ASSUME NEW r \in Refs, NEW o \in Order, seq \in Nat, NEW t \in OrderStates, legal(o.state, t),
         t \notin {"pending_send", "acknowledged"}, o.state # "pending_send", ~is_terminal(o.state),
         NEW a \in Record, a.ref = r, a.ts = seq, Pos(a) = 3 * seq, a.image = o,
         Joins(o, a), Fits(o, a)
  PROVE  LET q == <<a>> \o TransitionRecords(r, o, t) IN
         Fresh(r, q) /\ Told(o, q, Moved(o, t)) /\ Checked(o, q)
<1> DEFINE c == StateRec(r, o, t, Moved(o, t))
           q == <<a>> \o TransitionRecords(r, o, t)
<1>1. /\ c \in Record /\ c.ref = r /\ c.ts = seq /\ Pos(c) = 3 * seq + 1
      /\ c.image = Moved(o, t) /\ Joins(o, c) /\ Fits(o, c)
  BY StateRecTells
<1>2. TransitionRecords(r, o, t) = <<c>>
  BY TransitionTells
<1> HIDE DEF c
<1>3. q = <<a, c>>
  BY <1>2, PairUp
<1> HIDE DEF q
<1>4. Fresh(r, q)
  BY <1>1, <1>3, TwoRecords
<1>5. Told(o, q, Moved(o, t)) /\ Checked(o, q)
  BY <1>1, <1>3, TwoTold
<1> QED BY <1>4, <1>5 DEF q

\* The records of a report that was accepted lead to the order it leaves, and recovery
\* accepts them, unless it is a replacement of an order that is not acknowledged.
LEMMA ReportTells ==
  ASSUME NEW r \in Refs, NEW o \in Order, NEW rep \in Reports, Accepts(o, rep), seq \in Nat,
         o.state # "unknown"
  PROVE  LET q == ReportRecords(r, o, rep) IN
         /\ Fresh(r, q) /\ Told(o, q, Result(o, rep))
         /\ ~(rep.kind = "replace_ack" /\ o.state # "acknowledged") => Checked(o, q)
<1>0. rep.kind \in Kinds /\ rep.volume \in Nat
  BY ReportsTyped
<1>1. CASE rep.kind = "fill"
  BY <1>0, <1>1, FillTells DEF ReportRecords, Accepts, Result
<1>2. CASE rep.kind = "replace_ack"
  <2>1. Result(o, rep) = [o EXCEPT !.requested_volume = rep.volume] /\ Replaceable(o, rep.volume)
    BY <1>2 DEF Result, Accepts
  <2> QED BY <1>0, <1>2, <2>1, ReplaceTells DEF ReportRecords
<1>3. CASE rep.kind \notin {"fill", "replace_ack"}
  <2> DEFINE t == ReportTarget(rep.kind)
  <2>1. legal(o.state, t) /\ t \in OrderStates /\ Result(o, rep) = Moved(o, t)
    BY <1>0, <1>3, TargetTyped DEF Accepts, Result, Moved
  <2>2. CASE rep.kind = "cancelled"
    <3> DEFINE a == Confirm("cancel", r, o)
    <3>1. t = "cancelled" /\ o.state = "cancel_pending"
      BY <2>1, <2>2 DEF ReportTarget, legal, Successors
    <3>2. /\ a \in Record /\ a.ref = r /\ a.ts = seq /\ Pos(a) = 3 * seq + Sub("cancel")
          /\ a.image = o /\ a.kind = "cancel" /\ Joins(o, a)
          /\ (o.state # "pending_send" /\ Valid(a, TRUE, o)) => Fits(o, a)
      BY ConfirmTells
    <3>3. ReportRecords(r, o, rep) = <<a>> \o TransitionRecords(r, o, t)
      BY <2>2, <3>1 DEF ReportRecords
    <3> HIDE DEF a, t
    <3>4. Valid(a, TRUE, o) /\ Sub("cancel") = 0 /\ ~is_terminal(o.state)
      BY <3>1, <3>2 DEF Valid, Sub, is_terminal, Terminal
    <3>5. Fits(o, a) /\ Pos(a) = 3 * seq
      BY <3>1, <3>2, <3>4
    <3> QED BY <2>1, <3>1, <3>2, <3>3, <3>4, <3>5, EndTells
  <2>3. CASE rep.kind = "reject"
    <3> DEFINE a == Confirm("rejection", r, o)
    <3>1. t = "rejected" /\ o.state = "sent"
      BY <2>1, <2>3 DEF ReportTarget, legal, Successors
    <3>2. /\ a \in Record /\ a.ref = r /\ a.ts = seq /\ Pos(a) = 3 * seq + Sub("rejection")
          /\ a.image = o /\ a.kind = "rejection" /\ Joins(o, a)
          /\ (o.state # "pending_send" /\ Valid(a, TRUE, o)) => Fits(o, a)
      BY ConfirmTells
    <3>3. ReportRecords(r, o, rep) = <<a>> \o TransitionRecords(r, o, t)
      BY <2>3, <3>1 DEF ReportRecords
    <3> HIDE DEF a, t
    <3>4. Valid(a, TRUE, o) /\ Sub("rejection") = 0 /\ ~is_terminal(o.state)
      BY <3>1, <3>2 DEF Valid, Sub, is_terminal, Terminal
    <3>5. Fits(o, a) /\ Pos(a) = 3 * seq
      BY <3>1, <3>2, <3>4
    <3> QED BY <2>1, <3>1, <3>2, <3>3, <3>4, <3>5, EndTells
  <2>4. CASE rep.kind \in {"ack", "cancel_pending"}
    <3>1. t # "pending_send"
      BY <2>4 DEF ReportTarget
    <3>2. ReportRecords(r, o, rep) = TransitionRecords(r, o, t)
      BY <2>4 DEF ReportRecords
    <3> HIDE DEF t
    <3> QED BY <2>1, <2>4, <3>1, <3>2, TransitionTells
  <2> QED BY <1>0, <1>3, <2>2, <2>3, <2>4 DEF Kinds
<1> QED BY <1>1, <1>2, <1>3
-----------------------------------------------------------------------------
(* Type correctness. *)

LEMMA SettleTyped ==
  ASSUME OmsTypeOK, NEW r \in live, NEW o \in Order, Settle(r, o)
  PROVE  OmsTypeOK'
<1>1. reserved' \in Int
  BY DEF Settle, OmsTypeOK, Released, Order
<1>2. order' \in [Refs -> Order]
  BY OrderTyped DEF Settle, OmsTypeOK
<1>3. live' \subseteq Refs
  BY DEF Settle, OmsTypeOK
<1> QED BY <1>1, <1>2, <1>3 DEF OmsTypeOK

LEMMA CreateTyped ==
  ASSUME OmsTypeOK, NEW r \in Refs, NEW v \in Nat, create(r, v)
  PROVE  OmsTypeOK'
BY OrderTyped DEF create, Insert, OmsTypeOK

\* A worker's step: the book, the records, the history.
LEMMA EmitsTyped ==
  ASSUME JournalTypeOK, NEW r \in Refs, NEW q \in Seq(Record), Emits(r, q), OmsTypeOK',
         \A marked \in {dropped', miscounted', drained', resized'} : marked \subseteq Refs
  PROVE  JournalTypeOK'
<1>1. emitting' \in [ShardSet -> Seq(Record)]
  BY DEF Emits, JournalTypeOK
<1>2. ops' \in [Refs -> Nat] /\ seq' \in Nat
  BY DEF Emits, JournalTypeOK
<1> QED BY <1>1, <1>2 DEF Emits, JournalTypeOK

\* What each operation of a worker does to the book and which records it makes.
Works(r, q, n) ==
  /\ Free(r) /\ Emits(r, q) /\ Fresh(r, q)
  /\ OmsTypeOK' /\ dropped' = dropped /\ resized \subseteq resized'
  /\ miscounted \subseteq miscounted' /\ drained \subseteq drained' /\ resized' \subseteq Refs
  /\ miscounted' \subseteq Refs /\ drained' \subseteq Refs
  /\ live' = IF is_terminal(n.state) THEN live \ {r} ELSE live \cup {r}
  /\ order' = [order EXCEPT ![r] = IF is_terminal(n.state) THEN NoOrder ELSE n]
  /\ n \in Order /\ n.state # "unknown"

LEMMA WorksTyped ==
  ASSUME JournalTypeOK, NEW r \in Refs, NEW q, NEW n, Works(r, q, n)
  PROVE  JournalTypeOK'
<1>1. q \in Seq(Record) /\ Emits(r, q) /\ OmsTypeOK'
  BY DEF Works, Fresh
<1>2. \A marked \in {dropped', miscounted', drained', resized'} : marked \subseteq Refs
  BY DEF Works, JournalTypeOK
<1> QED BY <1>1, <1>2, EmitsTyped

LEMMA PushTyped ==
  ASSUME JournalTypeOK, NEW s \in ShardSet, Push(s)
  PROVE  JournalTypeOK'
<1>1. emitting[s] \in Seq(Record) /\ emitting[s] # <<>> /\ outbox[s] \in Seq(Record)
      /\ Len(outbox[s]) <= OutboxCapacity /\ OutboxCapacity \in Nat
  BY JournalAssumption DEF JournalTypeOK, Push
<1>2. Head(emitting[s]) \in Record /\ Tail(emitting[s]) \in Seq(Record)
  BY <1>1
<1>3. emitting' \in [ShardSet -> Seq(Record)]
  BY <1>2 DEF Push, JournalTypeOK
<1>4. outbox' \in [ShardSet -> Seq(Record)] /\ \A t \in ShardSet : Len(outbox'[t]) <= OutboxCapacity
  <2>1. CASE outbox' = [outbox EXCEPT ![s] = Append(@, Head(emitting[s]))] /\ HasSpace(s)
    <3>1. Append(outbox[s], Head(emitting[s])) \in Seq(Record)
          /\ Len(Append(outbox[s], Head(emitting[s]))) <= OutboxCapacity
      BY <1>1, <1>2, <2>1 DEF HasSpace
    <3> QED BY <2>1, <3>1 DEF JournalTypeOK
  <2>2. CASE outbox' = outbox
    BY <2>2 DEF JournalTypeOK
  <2> QED BY <2>1, <2>2 DEF Push
<1>5. dropped' \subseteq Refs
  BY <1>2 DEF Push, JournalTypeOK, Record
<1>6. OmsTypeOK'
  BY DEF Push, omsVars, OmsTypeOK, JournalTypeOK
<1> QED BY <1>3, <1>4, <1>5, <1>6 DEF Push, JournalTypeOK

LEMMA PopTyped ==
  ASSUME JournalTypeOK, Pop
  PROVE  /\ JournalTypeOK' /\ writer.at \in ShardSet
         /\ outbox[writer.at] \in Seq(Record) /\ Head(outbox[writer.at]) \in Record
<1>1. writer.at \in ShardSet
  BY JournalAssumption DEF Pop, JournalTypeOK, ShardSet
<1>2. outbox[writer.at] \in Seq(Record) /\ outbox[writer.at] # <<>>
      /\ Len(outbox[writer.at]) <= OutboxCapacity
  BY <1>1 DEF Pop, JournalTypeOK
<1>3. Head(outbox[writer.at]) \in Record /\ Tail(outbox[writer.at]) \in Seq(Record)
      /\ Len(Tail(outbox[writer.at])) <= OutboxCapacity
  BY <1>2, JournalAssumption
<1>4. outbox' \in [ShardSet -> Seq(Record)] /\ \A t \in ShardSet : Len(outbox'[t]) <= OutboxCapacity
  BY <1>3 DEF Pop, JournalTypeOK
<1>5. wal' \in Seq(Record) /\ flushed' \in 0 .. Len(wal') /\ owed' \subseteq Record
  <2>1. wal \in Seq(Record) /\ flushed \in 0 .. Len(wal) /\ flushed' = flushed
        /\ owed \subseteq Record /\ owed' \subseteq owed
        /\ (wal' = wal \/ wal' = Append(wal, Head(outbox[writer.at])))
    BY DEF Pop, JournalTypeOK
  <2> QED BY <1>3, <2>1
<1>6. dropped' \subseteq Refs
  BY <1>3 DEF Pop, JournalTypeOK, Record
<1>7. writer' \in [pc : {"drain", "flush", "final", "last", "done"}, at : 1 .. Shards + 1,
                   any : BOOLEAN]
  BY DEF Pop, JournalTypeOK
<1>8. OmsTypeOK'
  BY DEF Pop, omsVars, OmsTypeOK, JournalTypeOK
<1>9. JournalTypeOK'
  BY <1>4, <1>5, <1>6, <1>7, <1>8 DEF Pop, JournalTypeOK
<1> QED BY <1>1, <1>2, <1>3, <1>9

LEMMA InAccepted ==
  ASSUME NEW a
  PROVE  a \in Accepted <=> a \in Range(wal) \/ \E s \in ShardSet : a \in Range(outbox[s])
BY Zenon DEF Accepted

LEMMA WriterTyped ==
  ASSUME JournalTypeOK, NextShard \/ EndPass \/ Flush \/ Stop
  PROVE  JournalTypeOK'
<1> DEFINE W == [pc : {"drain", "flush", "final", "last", "done"}, at : 1 .. Shards + 1, any : BOOLEAN]
<1>1. Shards \in Nat \ {0}
  BY JournalAssumption
<1>2. CASE NextShard
  <2>1. writer \in W /\ writer.at <= Shards /\ writer' = [writer EXCEPT !.at = writer.at + 1]
    BY <1>2 DEF NextShard, JournalTypeOK
  <2>2. writer.at + 1 \in 1 .. Shards + 1
    BY <1>1, <2>1
  <2>3. writer' \in W
    BY <2>1, <2>2
  <2> QED BY <1>2, <2>3 DEF NextShard, JournalTypeOK, OmsTypeOK, omsVars, notes
<1>3. CASE EndPass
  <2>1. writer' \in W
    BY <1>1, <1>3 DEF EndPass, AfterPass, LoopHead, JournalTypeOK
  <2> QED BY <1>3, <2>1 DEF EndPass, JournalTypeOK, OmsTypeOK, omsVars, notes
<1>4. CASE Flush
  <2>1. writer' \in W
    BY <1>4 DEF Flush, LoopHead, JournalTypeOK
  <2>2. flushed' \in 0 .. Len(wal') /\ owed' \subseteq Record
    BY <1>4 DEF Flush, JournalTypeOK
  <2> QED BY <1>4, <2>1, <2>2 DEF Flush, JournalTypeOK, OmsTypeOK, omsVars, notes
<1>5. CASE Stop
  <2>1. \A s \in ShardSet : Range(outbox[s]) \subseteq Record
    <3> TAKE s \in ShardSet
    <3>1. outbox[s] \in Seq(Record)
      BY DEF JournalTypeOK
    <3> QED BY <3>1 DEF Range
  <2>2. Range(wal) \subseteq Record
    BY DEF Range, JournalTypeOK
  <2>3. Accepted \subseteq Record
    <3> SUFFICES ASSUME NEW x \in Accepted PROVE x \in Record
      OBVIOUS
    <3>1. x \in Range(wal) \/ \E s \in ShardSet : x \in Range(outbox[s])
      BY InAccepted
    <3> QED BY <2>1, <2>2, <3>1
  <2>4. owed' \subseteq Record
    BY <1>5, <2>3 DEF Stop
  <2> QED BY <1>5, <2>4 DEF Stop, JournalTypeOK, OmsTypeOK, omsVars, notes
<1> QED BY <1>2, <1>3, <1>4, <1>5

LEMMA CrashTyped ==
  ASSUME JournalTypeOK, NEW k \in 0 .. Len(wal), Crash(k)
  PROVE  JournalTypeOK'
<1>1. wal' \in Seq(Record) /\ Len(wal') = k
  BY DEF Crash, JournalTypeOK
<1>2. OmsTypeOK'
  BY OrderTyped DEF Crash, OmsTypeOK
<1>3. flushed' \in 0 .. Len(wal')
  BY <1>1 DEF Crash
<1>4. \A s \in ShardSet : Len(outbox'[s]) <= OutboxCapacity
  BY JournalAssumption DEF Crash
<1>5. /\ emitting' \in [ShardSet -> Seq(Record)] /\ outbox' \in [ShardSet -> Seq(Record)]
      /\ ops' \in [Refs -> Nat] /\ seq' \in Nat
  BY DEF Crash
<1>6. writer' \in [pc : {"drain", "flush", "final", "last", "done"}, at : 1 .. Shards + 1,
                   any : BOOLEAN]
  BY JournalAssumption DEF Crash
<1> QED BY <1>1, <1>2, <1>3, <1>4, <1>5, <1>6 DEF Crash, JournalTypeOK

LEMMA ResultKnown ==
  ASSUME NEW o \in Order, NEW rep \in Reports, o.state # "unknown"
  PROVE  Result(o, rep).state # "unknown"
<1>1. rep.kind \in Kinds /\ rep.volume \in Nat
  BY ReportsTyped
<1>2. CASE rep.kind = "fill"
  <2> DEFINE b == AddFill(o, rep.volume)
  <2>1. b \in Order /\ b.state = o.state /\ FillTarget(b) # "unknown"
    BY <1>1, FillTyped DEF FillTarget
  <2>2. Result(o, rep) = o \/ Result(o, rep) = b \/ Result(o, rep) = [b EXCEPT !.state = FillTarget(b)]
    BY <1>2 DEF Result, AfterFill
  <2> HIDE DEF b
  <2> QED BY <2>1, <2>2 DEF Order
<1>3. CASE rep.kind = "replace_ack"
  BY <1>1, <1>3 DEF Result, Order
<1>4. CASE rep.kind \notin {"fill", "replace_ack"}
  <2>1. ReportTarget(rep.kind) # "unknown"
    BY <1>1, <1>4 DEF Kinds, ReportTarget
  <2>2. Result(o, rep) = o \/ Result(o, rep) = [o EXCEPT !.state = ReportTarget(rep.kind)]
    BY <1>1, <1>4 DEF Result
  <2> QED BY <2>1, <2>2 DEF Order
<1> QED BY <1>2, <1>3, <1>4

LEMMA SettleWorks ==
  ASSUME NEW r \in live, NEW n, Settle(r, n)
  PROVE  /\ live' = IF is_terminal(n.state) THEN live \ {r} ELSE live \cup {r}
         /\ order' = [order EXCEPT ![r] = IF is_terminal(n.state) THEN NoOrder ELSE n]
BY DEF Settle, Reclaims

LEMMA FreshNone == ASSUME NEW r PROVE Fresh(r, <<>>)
BY DEF Fresh

LEMMA CreateWorks ==
  ASSUME JournalTypeOK, UpInv, NEW r \in Refs, NEW v \in Volumes, Create(r, v)
  PROVE  \E b \in Record :
           /\ Works(r, <<b>>, NewOrder("pending_send", v, 0)) /\ OpensChain(b)
           /\ b.image = NewOrder("pending_send", v, 0)
           /\ ops[r] = 0 /\ miscounted' = miscounted /\ drained' = drained
<1> DEFINE n == NewOrder("pending_send", v, 0)
           b == Rec("command", r, NoState, NoState, 0, v, n)
<1>1. v \in Nat /\ n \in Order /\ seq \in Nat /\ n.state = "pending_send"
  BY OmsAssumption, OrderTyped DEF JournalTypeOK, NewOrder
<1>2. "command" \in RecordKinds /\ NoState \in OrderStates /\ 0 \in Nat
  BY DEF RecordKinds, NoState, OrderStates
<1>3. b \in Record /\ b.ref = r /\ b.ts = seq
  BY <1>1, <1>2, RecTyped
<1>4. b.kind = "command" /\ b.y = v /\ b.image = n
  BY DEF Rec
<1>5. OmsTypeOK'
  BY <1>1, CreateTyped DEF Create, JournalTypeOK
<1>6. live' = live \cup {r} /\ order' = [order EXCEPT ![r] = n] /\ Emits(r, <<b>>) /\ Free(r)
      /\ ops[r] = 0 /\ UNCHANGED <<dropped, miscounted, drained, resized>>
  BY DEF Create, create, Insert
<1> HIDE DEF n, b
<1>7. Fresh(r, <<b>>) /\ OpensChain(b)
  BY <1>3, <1>4, OneRecord DEF OpensChain, n
<1>8. Works(r, <<b>>, n)
  BY <1>1, <1>5, <1>6, <1>7 DEF Works, is_terminal, Terminal, JournalTypeOK
<1> QED BY <1>3, <1>4, <1>6, <1>7, <1>8 DEF n

LEMMA TransitionWorks ==
  ASSUME JournalTypeOK, UpInv, NEW r \in Refs, NEW t \in Requested, Transition(r, t)
  PROVE  \E q, n : /\ Works(r, q, n) /\ r \in live
                   /\ Told(order[r], q, n) /\ Checked(order[r], q)
                   /\ miscounted' = miscounted /\ drained' = drained
<1> DEFINE o == order[r]
           q == TransitionRecords(r, o, t)
           n == Moved(o, t)
<1>1. r \in live /\ legal(o.state, t) /\ Settle(r, n) /\ Free(r) /\ Emits(r, q)
      /\ UNCHANGED <<dropped, miscounted, drained, resized>>
  BY DEF Transition, transition, notes, Moved
<1>2. o \in Order /\ seq \in Nat /\ t \in OrderStates /\ t # "pending_send" /\ t # "unknown"
  BY <1>1 DEF JournalTypeOK, OmsTypeOK, Requested, OrderStates
<1>3. n \in Order /\ n.state = t
  BY <1>2, MovedTyped DEF Moved, Order
<1>4. Fresh(r, q) /\ Told(o, q, n) /\ Checked(o, q)
  BY <1>1, <1>2, TransitionTells
<1>5. OmsTypeOK'
  BY <1>1, <1>3, SettleTyped DEF JournalTypeOK
<1>6. /\ live' = IF is_terminal(n.state) THEN live \ {r} ELSE live \cup {r}
      /\ order' = [order EXCEPT ![r] = IF is_terminal(n.state) THEN NoOrder ELSE n]
  BY <1>1, SettleWorks
<1> HIDE DEF n, q
<1>7. Works(r, q, n)
  BY <1>1, <1>2, <1>3, <1>4, <1>5, <1>6 DEF Works, JournalTypeOK
<1> QED BY <1>1, <1>4, <1>7

LEMMA ApplyWorks ==
  ASSUME JournalTypeOK, UpInv, NEW r \in Refs, NEW rep \in Reports, Apply(r, rep)
  PROVE  \E q, n : /\ Works(r, q, n) /\ r \in live
                   /\ \/ r \in miscounted' /\ q = <<>>
                      \/ /\ miscounted' = miscounted /\ Told(order[r], q, n)
                         /\ r \notin resized' => Checked(order[r], q)
                   /\ miscounted \subseteq miscounted' /\ drained' = drained
                   /\ miscounted' \subseteq miscounted \cup {r}
<1> DEFINE o == order[r]
           n == Result(o, rep)
<1>1. Free(r) /\ r \in live /\ Settle(r, n) /\ UNCHANGED <<dropped, drained>>
  BY DEF Apply
<1>2. o \in Order /\ seq \in Nat /\ o.state # "unknown" /\ mode = "up"
  BY <1>1 DEF JournalTypeOK, OmsTypeOK, UpInv, Free
<1>3. n \in Order /\ n.state # "unknown"
  BY <1>2, ResultTyped, ResultKnown
<1>4. OmsTypeOK'
  BY <1>1, <1>3, SettleTyped DEF JournalTypeOK
<1>5. /\ live' = IF is_terminal(n.state) THEN live \ {r} ELSE live \cup {r}
      /\ order' = [order EXCEPT ![r] = IF is_terminal(n.state) THEN NoOrder ELSE n]
  BY <1>1, SettleWorks
<1>6. CASE Accepts(o, rep)
  <2> DEFINE q == ReportRecords(r, o, rep)
  <2>1. Emits(r, q) /\ miscounted' = miscounted
        /\ resized' = IF rep.kind = "replace_ack" /\ o.state # "acknowledged"
                      THEN resized \cup {r} ELSE resized
    BY <1>6 DEF Apply
  <2>2. /\ Fresh(r, q) /\ Told(o, q, n)
        /\ ~(rep.kind = "replace_ack" /\ o.state # "acknowledged") => Checked(o, q)
    BY <1>2, <1>6, ReportTells
  <2> HIDE DEF n, q
  <2>3. Works(r, q, n)
    BY <1>1, <1>3, <1>4, <1>5, <2>1, <2>2 DEF Works, JournalTypeOK
  <2> QED BY <1>1, <2>1, <2>2, <2>3
<1>7. CASE ~Accepts(o, rep)
  <2>1. Emits(r, <<>>) /\ miscounted' = miscounted \cup {r} /\ resized' = resized
    BY <1>7 DEF Apply
  <2>2. Fresh(r, <<>>)
    BY FreshNone
  <2> HIDE DEF n
  <2>3. Works(r, <<>>, n)
    BY <1>1, <1>3, <1>4, <1>5, <2>1, <2>2 DEF Works, JournalTypeOK
  <2> QED BY <1>1, <2>1, <2>3
<1> QED BY <1>6, <1>7

LEMMA DrainWorks ==
  ASSUME JournalTypeOK, UpInv, NEW r \in Refs, NEW rep \in Reports, NEW held \in Reports,
         ApplyAndDrain(r, rep, held)
  PROVE  \E q, n, p : /\ Works(r, q, n) /\ r \in live
                      /\ r \in drained' /\ Told(order[r], q, p)
                      /\ r \notin resized' => Checked(order[r], q)
                      /\ miscounted' = miscounted /\ drained' = drained \cup {r}
<1> DEFINE o == order[r]
           p == Result(o, rep)
           n == Result(p, held)
           q == ReportRecords(r, o, rep)
<1>1. Free(r) /\ r \in live /\ Settle(r, n) /\ UNCHANGED <<dropped, miscounted>> /\ Accepts(o, rep)
      /\ Emits(r, q) /\ drained' = drained \cup {r}
      /\ resized' = IF rep.kind = "replace_ack" /\ o.state # "acknowledged"
                    THEN resized \cup {r} ELSE resized
  BY DEF ApplyAndDrain
<1>2. o \in Order /\ seq \in Nat /\ o.state # "unknown" /\ mode = "up"
  BY <1>1 DEF JournalTypeOK, OmsTypeOK, UpInv, Free
<1>3. p \in Order /\ p.state # "unknown"
  BY <1>2, ResultTyped, ResultKnown
<1>4. n \in Order /\ n.state # "unknown"
  BY <1>3, ResultTyped, ResultKnown
<1>5. OmsTypeOK'
  BY <1>1, <1>4, SettleTyped DEF JournalTypeOK
<1>6. /\ live' = IF is_terminal(n.state) THEN live \ {r} ELSE live \cup {r}
      /\ order' = [order EXCEPT ![r] = IF is_terminal(n.state) THEN NoOrder ELSE n]
  BY <1>1, SettleWorks
<1>7. /\ Fresh(r, q) /\ Told(o, q, p)
      /\ ~(rep.kind = "replace_ack" /\ o.state # "acknowledged") => Checked(o, q)
  BY <1>1, <1>2, ReportTells
<1> HIDE DEF n, q, p
<1>8. Works(r, q, n)
  BY <1>1, <1>4, <1>5, <1>6, <1>7 DEF Works, JournalTypeOK
<1> QED BY <1>1, <1>7, <1>8

\* A worker's step on order r makes the records q and leaves the order as n. The records tell
\* of it, unless a fill was refused or a report drained behind the one that is journaled.
Worked(r, q, n) ==
  /\ Works(r, q, n)
  /\ \/ /\ r \notin live /\ ops[r] = 0 /\ r \notin miscounted' \cup drained'
        /\ \E b \in Record : q = <<b>> /\ OpensChain(b) /\ b.image = n
     \/ /\ r \in live
        /\ \E p : /\ Told(order[r], q, p)
                  /\ r \notin resized' => Checked(order[r], q)
                  /\ r \notin miscounted' \cup drained' => p = n

LEMMA WorkerWorks ==
  ASSUME JournalTypeOK, UpInv, NEW r \in Refs, Worker(r)
  PROVE  \E q, n : Worked(r, q, n)
<1>1. ASSUME NEW v \in Volumes, Create(r, v) PROVE \E q, n : Worked(r, q, n)
  <2> DEFINE n == NewOrder("pending_send", v, 0)
  <2>1. PICK b \in Record : /\ Works(r, <<b>>, n) /\ OpensChain(b) /\ b.image = n
                            /\ ops[r] = 0 /\ miscounted' = miscounted /\ drained' = drained
    BY <1>1, CreateWorks
  <2>2. r \notin live
    BY <1>1 DEF Create, create, Insert
  <2>3. r \notin miscounted \cup drained
    BY <1>1 DEF Create, Free, Unlogged
  <2> HIDE DEF n
  <2>4. Worked(r, <<b>>, n)
    BY <2>1, <2>2, <2>3 DEF Worked
  <2> QED BY <2>4
<1>2. ASSUME NEW t \in Requested, Transition(r, t) PROVE \E q, n : Worked(r, q, n)
  <2>1. PICK q, n : /\ Works(r, q, n) /\ r \in live
                    /\ Told(order[r], q, n) /\ Checked(order[r], q)
    BY <1>2, TransitionWorks
  <2>2. Worked(r, q, n)
    BY <2>1 DEF Worked
  <2> QED BY <2>2
<1>3. ASSUME NEW rep \in Reports, Apply(r, rep) PROVE \E q, n : Worked(r, q, n)
  <2>1. PICK q, n : /\ Works(r, q, n) /\ r \in live
                    /\ \/ r \in miscounted' /\ q = <<>>
                       \/ /\ miscounted' = miscounted /\ Told(order[r], q, n)
                          /\ r \notin resized' => Checked(order[r], q)
    BY <1>3, ApplyWorks
  <2>2. CASE r \in miscounted' /\ q = <<>>
    <3>1. Told(order[r], q, order[r]) /\ Checked(order[r], q)
      BY <2>2 DEF Told, Checked
    <3>2. Worked(r, q, n)
      BY <2>1, <2>2, <3>1 DEF Worked
    <3> QED BY <3>2
  <2>3. CASE Told(order[r], q, n) /\ (r \notin resized' => Checked(order[r], q))
    <3>1. Worked(r, q, n)
      BY <2>1, <2>3 DEF Worked
    <3> QED BY <3>1
  <2> QED BY <2>1, <2>2, <2>3
<1>4. ASSUME NEW rep \in Reports, NEW held \in Reports, ApplyAndDrain(r, rep, held)
      PROVE \E q, n : Worked(r, q, n)
  <2>1. PICK q, n, p : /\ Works(r, q, n) /\ r \in live
                       /\ r \in drained' /\ Told(order[r], q, p)
                       /\ r \notin resized' => Checked(order[r], q)
    BY <1>4, DrainWorks
  <2>2. Worked(r, q, n)
    BY <2>1 DEF Worked
  <2> QED BY <2>2
<1> QED BY <1>1, <1>2, <1>3, <1>4 DEF Worker
-----------------------------------------------------------------------------
(* Where the records are. *)

\* What a record's place is: written, in an outbox, or with its worker.
LEMMA InAll ==
  ASSUME NEW a
  PROVE  a \in All <=> \/ a \in Range(wal)
                       \/ \E s \in ShardSet : a \in Range(outbox[s]) \/ a \in Range(emitting[s])
BY Zenon DEF All, Boxed

LEMMA InAllNext ==
  ASSUME NEW a
  PROVE  a \in All' <=> \/ a \in Range(wal')
                        \/ \E s \in ShardSet : a \in Range(outbox'[s]) \/ a \in Range(emitting'[s])
BY Zenon DEF All, Boxed

LEMMA InRange ==
  ASSUME NEW S, NEW q \in Seq(S), NEW a
  PROVE  /\ a \in Range(q) <=> \E i \in 1 .. Len(q) : a = q[i]
         /\ a \in Range(q) => a \in S
BY DEF Range

LEMMA AllTyped ==
  ASSUME JournalTypeOK
  PROVE  \A a \in All : a \in Record /\ Pos(a) \in Nat /\ a.ts \in Nat /\ a.ref \in Refs
<1> SUFFICES ASSUME NEW a \in All PROVE a \in Record
  BY PosTyped
<1>1. wal \in Seq(Record) /\ \A s \in ShardSet : outbox[s] \in Seq(Record) /\ emitting[s] \in Seq(Record)
  BY DEF JournalTypeOK
<1>2. CASE a \in Range(wal)
  BY <1>1, <1>2, InRange
<1>3. ASSUME NEW s \in ShardSet, a \in Range(outbox[s]) \/ a \in Range(emitting[s]) PROVE a \in Record
  BY <1>1, <1>3, InRange
<1> QED BY <1>2, <1>3, InAll

LEMMA RangeEmpty == Range(<<>>) = {}
BY DEF Range

LEMMA RangeAppend ==
  ASSUME NEW S, NEW q \in Seq(S), NEW a \in S
  PROVE  Range(Append(q, a)) = Range(q) \cup {a}
<1> DEFINE t == Append(q, a)
<1>1. t \in Seq(S) /\ Len(t) = Len(q) + 1 /\ t[Len(q) + 1] = a /\ \A i \in 1 .. Len(q) : t[i] = q[i]
  OBVIOUS
<1> HIDE DEF t
<1>2. ASSUME NEW x \in Range(t) PROVE x \in Range(q) \cup {a}
  <2>1. PICK i \in 1 .. Len(q) + 1 : x = t[i]
    BY <1>1, <1>2, InRange
  <2>2. CASE i = Len(q) + 1
    BY <1>1, <2>1, <2>2
  <2>3. CASE i \in 1 .. Len(q)
    BY <1>1, <2>1, <2>3, InRange
  <2> QED BY <2>1, <2>2, <2>3
<1>3. ASSUME NEW x \in Range(q) \cup {a} PROVE x \in Range(t)
  <2>1. CASE x = a
    <3>1. Len(q) + 1 \in 1 .. Len(t)
      BY <1>1
    <3> QED BY <1>1, <2>1, <3>1, InRange
  <2>2. CASE x \in Range(q)
    <3>1. PICK i \in 1 .. Len(q) : x = q[i]
      BY <2>2, InRange
    <3>2. i \in 1 .. Len(t) /\ x = t[i]
      BY <1>1, <3>1
    <3> QED BY <1>1, <3>2, InRange
  <2> QED BY <1>3, <2>1, <2>2
<1> QED BY <1>2, <1>3 DEF t

LEMMA RangeTail ==
  ASSUME NEW S, NEW q \in Seq(S), q # <<>>
  PROVE  Range(q) = Range(Tail(q)) \cup {Head(q)} /\ Head(q) \in S /\ Tail(q) \in Seq(S)
<1> DEFINE t == Tail(q)
           h == Head(q)
<1>1. Len(q) >= 1 /\ h = q[1] /\ h \in S /\ t \in Seq(S) /\ Len(t) = Len(q) - 1
      /\ \A i \in 1 .. Len(q) - 1 : t[i] = q[i + 1]
  OBVIOUS
<1> HIDE DEF t, h
<1>2. ASSUME NEW x \in Range(q) PROVE x \in Range(t) \cup {h}
  <2>1. PICK i \in 1 .. Len(q) : x = q[i]
    BY <1>2, InRange
  <2>2. CASE i = 1
    BY <1>1, <2>1, <2>2
  <2>3. CASE i # 1
    <3>1. i - 1 \in 1 .. Len(t) /\ x = t[i - 1]
      BY <1>1, <2>1, <2>3
    <3> QED BY <1>1, <3>1, InRange
  <2> QED BY <2>2, <2>3
<1>3. ASSUME NEW x \in Range(t) \cup {h} PROVE x \in Range(q)
  <2>1. CASE x = h
    BY <1>1, <2>1, InRange, 1 \in 1 .. Len(q)
  <2>2. CASE x \in Range(t)
    <3>1. PICK i \in 1 .. Len(t) : x = t[i]
      BY <1>1, <2>2, InRange
    <3>2. i + 1 \in 1 .. Len(q) /\ x = q[i + 1]
      BY <1>1, <3>1
    <3> QED BY <3>2, InRange
  <2> QED BY <1>3, <2>1, <2>2
<1> QED BY <1>1, <1>2, <1>3 DEF t, h

LEMMA PosBefore ==
  ASSUME NEW a \in Record, NEW b \in Record, a.ts < b.ts
  PROVE  Pos(a) < Pos(b)
BY PosTyped

LEMMA RisingAppend ==
  ASSUME NEW q \in Seq(Record), NEW a \in Record, Rising(q), AllBefore(Range(q), {a})
  PROVE  Rising(Append(q, a))
<1> DEFINE t == Append(q, a)
<1>1. t \in Seq(Record) /\ Len(t) = Len(q) + 1 /\ t[Len(q) + 1] = a
      /\ \A i \in 1 .. Len(q) : t[i] = q[i] /\ q[i] \in Range(q)
  BY InRange
<1> HIDE DEF t
<1>2. ASSUME NEW i \in 1 .. Len(t), NEW j \in 1 .. Len(t), i < j, Of(t[i]) = Of(t[j])
      PROVE  Pos(t[i]) < Pos(t[j])
  <2>1. i \in 1 .. Len(q)
    BY <1>1, <1>2
  <2>2. CASE j \in 1 .. Len(q)
    BY <1>1, <1>2, <2>1, <2>2 DEF Rising
  <2>3. CASE j = Len(q) + 1
    BY <1>1, <1>2, <2>1, <2>3 DEF AllBefore
  <2> QED BY <1>1, <1>2, <2>2, <2>3
<1>3. Rising(t)
  BY <1>2 DEF Rising
<1> QED BY <1>3 DEF t

LEMMA RisingTail ==
  ASSUME NEW q \in Seq(Record), q # <<>>, Rising(q)
  PROVE  Rising(Tail(q)) /\ AllBefore({Head(q)}, Range(Tail(q)))
<1> DEFINE t == Tail(q)
           h == Head(q)
<1>1. Len(q) >= 1 /\ h = q[1] /\ t \in Seq(Record) /\ Len(t) = Len(q) - 1
      /\ \A i \in 1 .. Len(t) : t[i] = q[i + 1] /\ i + 1 \in 1 .. Len(q)
  OBVIOUS
<1> HIDE DEF t, h
<1>2. Rising(t)
  BY <1>1 DEF Rising
<1>3. ASSUME NEW b \in Range(t), Of(h) = Of(b) PROVE Pos(h) < Pos(b)
  <2>1. PICK i \in 1 .. Len(t) : b = t[i]
    BY <1>1, <1>3, InRange
  <2>2. 1 \in 1 .. Len(q) /\ i + 1 \in 1 .. Len(q) /\ 1 < i + 1 /\ b = q[i + 1] /\ h = q[1]
    BY <1>1, <2>1
  <2> QED BY <1>3, <2>2 DEF Rising
<1>4. AllBefore({h}, Range(t))
  BY <1>3 DEF AllBefore
<1> QED BY <1>2, <1>4 DEF t, h

LEMMA RisingPrefix ==
  ASSUME NEW q \in Seq(Record), NEW k \in 0 .. Len(q), Rising(q)
  PROVE  /\ Rising(SubSeq(q, 1, k)) /\ Range(SubSeq(q, 1, k)) \subseteq Range(q)
         /\ \A a \in Range(q), b \in Range(SubSeq(q, 1, k)) :
              Of(a) = Of(b) /\ Pos(a) < Pos(b) => a \in Range(SubSeq(q, 1, k))
<1> DEFINE t == SubSeq(q, 1, k)
<1>1. t \in Seq(Record) /\ Len(t) = k /\ \A i \in 1 .. k : t[i] = q[i] /\ i \in 1 .. Len(q)
  OBVIOUS
<1> HIDE DEF t
<1>2. Rising(t)
  BY <1>1 DEF Rising
<1>3. ASSUME NEW a \in Range(t) PROVE a \in Range(q)
  <2>1. PICK i \in 1 .. Len(t) : a = t[i]
    BY <1>1, <1>3, InRange
  <2> QED BY <1>1, <2>1, InRange
<1>4. ASSUME NEW a \in Range(q), NEW b \in Range(t), Of(a) = Of(b), Pos(a) < Pos(b)
      PROVE  a \in Range(t)
  <2>1. PICK i \in 1 .. Len(q) : a = q[i]
    BY <1>4, InRange
  <2>2. PICK j \in 1 .. Len(t) : b = t[j]
    BY <1>1, <1>4, InRange
  <2>3. j \in 1 .. Len(q) /\ b = q[j] /\ Pos(a) \in Nat /\ Pos(b) \in Nat
    <3>1. j \in 1 .. Len(q) /\ b = q[j]
      BY <1>1, <2>2
    <3> QED BY <2>1, <3>1, PosTyped
  <2>4. ~(j < i) /\ i # j
    BY <1>4, <2>1, <2>3 DEF Rising
  <2>5. i \in 1 .. Len(t) /\ a = t[i]
    BY <1>1, <2>1, <2>2, <2>4
  <2> QED BY <1>1, <2>5, InRange
<1> QED BY <1>2, <1>3, <1>4 DEF t

\* A worker's records come behind everything there is.
LEMMA PlaceEmits ==
  ASSUME JournalTypeOK, PlaceInv, NEW r \in Refs, NEW q, Free(r), Fresh(r, q), Emits(r, q)
  PROVE  /\ PlaceInv' /\ (\A a : a \in All' <=> a \in All \/ a \in Range(q))
         /\ \A a \in All, b \in Range(q) : Pos(a) < Pos(b)
<1> DEFINE s0 == ShardOf[r]
<1>1. s0 \in ShardSet /\ mode = "up" /\ emitting[s0] = <<>> /\ q \in Seq(Record) /\ seq \in Nat
  BY JournalAssumption DEF Free, Fresh, ShardSet, JournalTypeOK
<1>2. \A b \in Range(q) : b \in Record /\ b.ref = r /\ b.ts = seq /\ Of(b) = s0
  <2> TAKE b \in Range(q)
  <2>1. PICK i \in 1 .. Len(q) : b = q[i]
    BY <1>1, InRange
  <2> QED BY <1>1, <2>1 DEF Fresh, Of
<1>3. /\ wal' = wal /\ outbox' = outbox /\ mode' = mode /\ seq' = seq + 1
      /\ emitting'[s0] = q /\ \A s \in ShardSet : s # s0 => emitting'[s] = emitting[s]
  BY <1>1 DEF Emits, JournalTypeOK
<1> HIDE DEF s0
<1>4. ASSUME NEW a PROVE a \in All' <=> a \in All \/ a \in Range(q)
  <2>1. a \in All' <=> \/ a \in Range(wal)
                       \/ \E s \in ShardSet : a \in Range(outbox[s]) \/ a \in Range(emitting'[s])
    BY <1>3, InAllNext
  <2>2. a \notin Range(emitting[s0])
    BY <1>1, RangeEmpty
  <2> QED BY <1>1, <1>3, <2>1, <2>2, InAll
<1>5. \A a \in All, b \in Range(q) : a.ts < b.ts /\ Pos(a) < Pos(b)
  BY <1>1, <1>2, AllTyped, PosBefore DEF PlaceInv
<1>6. Rising(q)
  BY <1>1 DEF Fresh, Rising
<1>7. ASSUME NEW s \in ShardSet
      PROVE  /\ Rising(outbox'[s]) /\ Rising(emitting'[s])
             /\ AllBefore(Range(wal'), Range(outbox'[s]))
             /\ AllBefore(Range(wal'), Range(emitting'[s]))
             /\ AllBefore(Range(outbox'[s]), Range(emitting'[s]))
             /\ \A a \in Boxed(s)' : Of(a) = s
  <2>1. CASE s # s0
    BY <1>3, <2>1 DEF PlaceInv, Boxed
  <2>2. CASE s = s0
    <3>1. Range(wal) \subseteq All /\ Range(outbox[s]) \subseteq All
      BY InAll
    <3>2. AllBefore(Range(wal), Range(q)) /\ AllBefore(Range(outbox[s]), Range(q))
      BY <1>5, <3>1 DEF AllBefore
    <3>3. \A a \in Boxed(s)' : Of(a) = s
      BY <1>2, <1>3, <2>2 DEF Boxed, PlaceInv
    <3> QED BY <1>3, <1>6, <2>2, <3>2, <3>3 DEF PlaceInv
  <2> QED BY <2>1, <2>2
<1>8. \A a, b \in All' : a.ts = b.ts => a.ref = b.ref
  <2> SUFFICES ASSUME NEW a \in All', NEW b \in All', a.ts = b.ts PROVE a.ref = b.ref
    OBVIOUS
  <2>1. CASE a \in All /\ b \in All
    BY <2>1 DEF PlaceInv
  <2>2. CASE a \in All /\ b \in Range(q)
    BY <1>1, <1>2, <1>5, <2>2, AllTyped
  <2>3. CASE a \in Range(q) /\ b \in All
    BY <1>1, <1>2, <1>5, <2>3, AllTyped
  <2>4. CASE a \in Range(q) /\ b \in Range(q)
    BY <1>2, <2>4
  <2> QED BY <1>4, <2>1, <2>2, <2>3, <2>4
<1>9. \A a \in All' : a.ts < seq'
  <2> SUFFICES ASSUME NEW a \in All' PROVE a.ts < seq'
    OBVIOUS
  <2>1. CASE a \in All
    BY <1>1, <1>3, <2>1, AllTyped DEF PlaceInv
  <2>2. CASE a \in Range(q)
    BY <1>1, <1>2, <1>3, <2>2
  <2> QED BY <1>4, <2>1, <2>2
<1>10. PlaceInv'
  BY <1>1, <1>3, <1>7, <1>8, <1>9 DEF PlaceInv
<1> QED BY <1>4, <1>5, <1>10

LEMMA AllBeforeLess ==
  ASSUME NEW A, NEW B, AllBefore(A, B), NEW C \in SUBSET A, NEW D \in SUBSET B
  PROVE  AllBefore(C, D)
BY DEF AllBefore

\* A step of the journal moves records or loses them: no record is new, and an order that
\* lost one is known to have.
Moves ==
  /\ \A a : a \in All' => a \in All
  /\ \A a \in All : a \in All' \/ a.ref \in dropped'
  /\ dropped \subseteq dropped'

\* What is about All follows when All does not grow.
LEMMA PlaceFewer ==
  ASSUME PlaceInv, \A a : a \in All' => a \in All, mode' = mode, seq' = seq
  PROVE  /\ \A a, b \in All' : a.ts = b.ts => a.ref = b.ref
         /\ mode' = "up" => \A a \in All' : a.ts < seq'
BY DEF PlaceInv

LEMMA PlacePush ==
  ASSUME JournalTypeOK, PlaceInv, NEW s \in ShardSet, Push(s)
  PROVE  PlaceInv' /\ Moves /\ Range(wal') = Range(wal)
<1> DEFINE e == emitting[s]
           t == Tail(e)
           h == Head(e)
           u == outbox[s]
<1>1. e \in Seq(Record) /\ e # <<>> /\ u \in Seq(Record) /\ wal \in Seq(Record)
  BY DEF JournalTypeOK, Push
<1>2. Range(e) = Range(t) \cup {h} /\ h \in Record /\ t \in Seq(Record)
  BY <1>1, RangeTail
<1>3. Rising(t) /\ AllBefore({h}, Range(t))
  BY <1>1, RisingTail DEF PlaceInv
<1>4. /\ wal' = wal /\ mode' = mode /\ seq' = seq /\ mode = "up"
      /\ emitting'[s] = t /\ outbox' \in [ShardSet -> Seq(Record)]
      /\ \A x \in ShardSet : x # s => emitting'[x] = emitting[x] /\ outbox'[x] = outbox[x]
  BY PushTyped DEF Push, JournalTypeOK
<1>5. \/ outbox'[s] = Append(u, h) /\ dropped' = dropped
      \/ outbox'[s] = u /\ dropped' = dropped \cup {h.ref}
  BY DEF Push, JournalTypeOK
<1> HIDE DEF e, t, h, u
<1>6. Range(outbox'[s]) \subseteq Range(u) \cup {h} /\ Range(u) \subseteq Range(outbox'[s])
      /\ (h \in Range(outbox'[s]) \/ h.ref \in dropped') /\ dropped \subseteq dropped'
  <2>1. CASE outbox'[s] = Append(u, h) /\ dropped' = dropped
    BY <1>1, <1>2, <2>1, RangeAppend
  <2>2. CASE outbox'[s] = u /\ dropped' = dropped \cup {h.ref}
    BY <2>2
  <2> QED BY <1>5, <2>1, <2>2
<1>7. AllBefore(Range(u), {h})
  BY <1>2 DEF PlaceInv, AllBefore, e, u
<1>8. Rising(outbox'[s])
  <2>1. Rising(u)
    BY DEF PlaceInv, u
  <2> QED BY <1>1, <1>2, <1>5, <1>7, <2>1, RisingAppend
<1>9. /\ AllBefore(Range(wal), Range(outbox'[s])) /\ AllBefore(Range(wal), Range(t))
      /\ AllBefore(Range(outbox'[s]), Range(t))
  <2>1. AllBefore(Range(wal), Range(u)) /\ AllBefore(Range(wal), Range(e)) /\ AllBefore(Range(u), Range(e))
    BY DEF PlaceInv, e, u
  <2> QED BY <1>2, <1>3, <1>6, <2>1 DEF AllBefore
<1>10. \A a \in Boxed(s)' : Of(a) = s
  <2>1. \A a \in Range(u) \cup Range(e) : Of(a) = s
    BY DEF PlaceInv, Boxed, u, e
  <2> QED BY <1>2, <1>4, <1>6, <2>1 DEF Boxed
<1>11. ASSUME NEW x \in ShardSet
       PROVE  /\ Rising(outbox'[x]) /\ Rising(emitting'[x])
              /\ AllBefore(Range(wal'), Range(outbox'[x]))
              /\ AllBefore(Range(wal'), Range(emitting'[x]))
              /\ AllBefore(Range(outbox'[x]), Range(emitting'[x]))
              /\ \A a \in Boxed(x)' : Of(a) = x
  <2>1. CASE x = s
    BY <1>3, <1>4, <1>8, <1>9, <1>10, <2>1
  <2>2. CASE x # s
    BY <1>4, <2>2 DEF PlaceInv, Boxed
  <2> QED BY <2>1, <2>2
<1>12. ASSUME NEW a \in All' PROVE a \in All
  <2>1. ASSUME NEW x \in ShardSet, a \in Range(outbox'[x]) \/ a \in Range(emitting'[x]) PROVE a \in All
    <3>1. CASE x = s
      <4>1. a \in Range(u) \/ a \in Range(e)
        BY <1>2, <1>4, <1>6, <2>1, <3>1
      <4> QED BY <4>1, InAll DEF u, e
    <3>2. CASE x # s
      BY <1>4, <2>1, <3>2, InAll
    <3> QED BY <3>1, <3>2
  <2> QED BY <1>4, <1>12, <2>1, InAll, InAllNext
<1>13. ASSUME NEW a \in All PROVE a \in All' \/ a.ref \in dropped'
  <2>1. ASSUME NEW x \in ShardSet, a \in Range(outbox[x]) \/ a \in Range(emitting[x])
        PROVE  a \in All' \/ a.ref \in dropped'
    <3>1. CASE x = s
      <4>1. a \in Range(u) \/ a \in Range(t) \/ a = h
        BY <1>2, <2>1, <3>1 DEF u, e
      <4> QED BY <1>4, <1>6, <4>1, InAllNext
    <3>2. CASE x # s
      BY <1>4, <2>1, <3>2, InAllNext
    <3> QED BY <3>1, <3>2
  <2> QED BY <1>4, <1>13, <2>1, InAll, InAllNext
<1>14. PlaceInv'
  <2>1. Rising(wal')
    BY <1>4 DEF PlaceInv
  <2> QED BY <1>4, <1>11, <1>12, <2>1, PlaceFewer DEF PlaceInv
<1> QED BY <1>4, <1>6, <1>12, <1>13, <1>14 DEF Moves

LEMMA PlacePop ==
  ASSUME JournalTypeOK, PlaceInv, Pop
  PROVE  PlaceInv' /\ Moves
<1> DEFINE s == writer.at
           u == outbox[s]
           t == Tail(u)
           h == Head(u)
<1>1. s \in ShardSet /\ u \in Seq(Record) /\ u # <<>> /\ wal \in Seq(Record)
  BY PopTyped DEF JournalTypeOK, Pop
<1>2. Range(u) = Range(t) \cup {h} /\ h \in Record /\ t \in Seq(Record)
  BY <1>1, RangeTail
<1>3. Rising(t) /\ AllBefore({h}, Range(t))
  BY <1>1, RisingTail DEF PlaceInv
<1>4. /\ emitting' = emitting /\ mode' = mode /\ seq' = seq /\ mode = "up"
      /\ outbox'[s] = t /\ \A x \in ShardSet : x # s => outbox'[x] = outbox[x]
  BY <1>1 DEF Pop, JournalTypeOK, Draining
<1>5. \/ wal' = Append(wal, h) /\ dropped' = dropped
      \/ wal' = wal /\ dropped' = dropped \cup {h.ref}
  BY DEF Pop
<1> HIDE DEF s, u, t, h
<1>6. Range(wal') \subseteq Range(wal) \cup {h} /\ Range(wal) \subseteq Range(wal')
      /\ (h \in Range(wal') \/ h.ref \in dropped') /\ dropped \subseteq dropped'
  <2>1. CASE wal' = Append(wal, h) /\ dropped' = dropped
    BY <1>1, <1>2, <2>1, RangeAppend
  <2>2. CASE wal' = wal /\ dropped' = dropped \cup {h.ref}
    BY <2>2
  <2> QED BY <1>5, <2>1, <2>2
<1>7. Rising(wal')
  <2>1. Rising(wal) /\ AllBefore(Range(wal), Range(u))
    BY <1>1 DEF PlaceInv, u
  <2>2. AllBefore(Range(wal), {h})
    BY <1>2, <2>1 DEF AllBefore
  <2> QED BY <1>1, <1>2, <1>5, <2>1, <2>2, RisingAppend
<1>8. \A a \in Range(u) : Of(a) = s
  BY <1>1 DEF PlaceInv, Boxed, u
<1>9. ASSUME NEW x \in ShardSet
      PROVE  /\ Rising(outbox'[x]) /\ Rising(emitting'[x])
             /\ AllBefore(Range(wal'), Range(outbox'[x]))
             /\ AllBefore(Range(wal'), Range(emitting'[x]))
             /\ AllBefore(Range(outbox'[x]), Range(emitting'[x]))
             /\ \A a \in Boxed(x)' : Of(a) = x
  <2>1. /\ Rising(outbox[x]) /\ Rising(emitting[x])
        /\ AllBefore(Range(wal), Range(outbox[x])) /\ AllBefore(Range(wal), Range(emitting[x]))
        /\ AllBefore(Range(outbox[x]), Range(emitting[x]))
        /\ \A a \in Range(outbox[x]) \cup Range(emitting[x]) : Of(a) = x
    BY DEF PlaceInv, Boxed
  <2>2. Of(h) = s
    BY <1>2, <1>8
  <2>3. CASE x = s
    <3>1. AllBefore(Range(wal'), Range(t)) /\ AllBefore(Range(wal'), Range(emitting[x]))
          /\ AllBefore(Range(t), Range(emitting[x]))
      BY <1>2, <1>3, <1>6, <2>1, <2>3 DEF AllBefore, u
    <3>2. \A a \in Range(t) \cup Range(emitting[x]) : Of(a) = x
      BY <1>2, <2>1, <2>3 DEF u
    <3> QED BY <1>3, <1>4, <2>1, <2>3, <3>1, <3>2 DEF Boxed
  <2>4. CASE x # s
    <3>1. AllBefore(Range(wal'), Range(outbox[x])) /\ AllBefore(Range(wal'), Range(emitting[x]))
      BY <1>6, <2>1, <2>2, <2>4 DEF AllBefore
    <3> QED BY <1>4, <2>1, <2>4, <3>1 DEF Boxed
  <2> QED BY <2>3, <2>4
<1>10. ASSUME NEW a \in All' PROVE a \in All
  <2>1. CASE a \in Range(wal')
    <3>1. a \in Range(wal) \/ a \in Range(u)
      BY <1>2, <1>6, <2>1
    <3> QED BY <1>1, <3>1, InAll DEF u
  <2>2. ASSUME NEW x \in ShardSet, a \in Range(outbox'[x]) \/ a \in Range(emitting'[x]) PROVE a \in All
    <3>1. a \in Range(outbox[x]) \/ a \in Range(emitting[x])
      BY <1>2, <1>4, <2>2 DEF u
    <3> QED BY <3>1, InAll
  <2> QED BY <1>10, <2>1, <2>2, InAllNext
<1>11. ASSUME NEW a \in All PROVE a \in All' \/ a.ref \in dropped'
  <2>1. CASE a \in Range(wal)
    BY <1>6, <2>1, InAllNext
  <2>2. ASSUME NEW x \in ShardSet, a \in Range(outbox[x]) \/ a \in Range(emitting[x])
        PROVE  a \in All' \/ a.ref \in dropped'
    <3>1. CASE x = s /\ a \in Range(outbox[x])
      <4>1. a \in Range(t) \/ a = h
        BY <1>2, <3>1 DEF u
      <4> QED BY <1>1, <1>4, <1>6, <4>1, InAllNext
    <3>2. CASE ~(x = s /\ a \in Range(outbox[x]))
      BY <1>4, <2>2, <3>2, InAllNext
    <3> QED BY <3>1, <3>2
  <2> QED BY <1>11, <2>1, <2>2, InAll
<1>12. PlaceInv'
  BY <1>4, <1>7, <1>9, <1>10, PlaceFewer DEF PlaceInv
<1> QED BY <1>6, <1>10, <1>11, <1>12 DEF Moves

\* Nothing moves.
LEMMA AllSame ==
  ASSUME wal' = wal, outbox' = outbox, emitting' = emitting
  PROVE  \A a : a \in All' <=> a \in All
BY InAll, InAllNext

LEMMA PlaceSame ==
  ASSUME PlaceInv, wal' = wal, outbox' = outbox, emitting' = emitting, seq' = seq,
         mode' = mode \/ (mode # "up" /\ mode' # "up")
  PROVE  PlaceInv'
<1>1. \A a : a \in All' <=> a \in All
  BY AllSame
<1>2. ASSUME NEW s \in ShardSet PROVE Boxed(s)' = Boxed(s)
  BY DEF Boxed
<1> QED BY <1>1, <1>2 DEF PlaceInv

LEMMA PlaceCrash ==
  ASSUME JournalTypeOK, PlaceInv, NEW k \in 0 .. Len(wal), Crash(k)
  PROVE  /\ PlaceInv' /\ \A a : a \in All' <=> a \in Range(SubSeq(wal, 1, k))
         /\ \A a : a \in All' => a \in All
         /\ \A a \in All, b \in All' : Precedes(a, b) => a \in All'
<1> DEFINE t == SubSeq(wal, 1, k)
<1>1. wal \in Seq(Record)
  BY DEF JournalTypeOK
<1>2. /\ wal' = t /\ mode' = "down"
      /\ \A s \in ShardSet : outbox'[s] = <<>> /\ emitting'[s] = <<>>
  BY DEF Crash
<1>3. /\ Rising(t) /\ Range(t) \subseteq Range(wal)
      /\ \A a \in Range(wal), b \in Range(t) : Of(a) = Of(b) /\ Pos(a) < Pos(b) => a \in Range(t)
  BY <1>1, RisingPrefix DEF PlaceInv
<1> HIDE DEF t
<1>4. \A a : a \in All' <=> a \in Range(t)
  BY <1>2, InAllNext, RangeEmpty
<1>5. \A a : a \in All' => a \in All
  BY <1>3, <1>4, InAll
<1>6. ASSUME NEW s \in ShardSet
      PROVE  /\ Rising(outbox'[s]) /\ Rising(emitting'[s])
             /\ AllBefore(Range(wal'), Range(outbox'[s]))
             /\ AllBefore(Range(wal'), Range(emitting'[s]))
             /\ AllBefore(Range(outbox'[s]), Range(emitting'[s]))
             /\ \A a \in Boxed(s)' : Of(a) = s
  <2>1. Rising(<<>>)
    BY DEF Rising
  <2>2. Boxed(s)' = {}
    BY <1>2, RangeEmpty DEF Boxed
  <2> QED BY <1>2, <2>1, <2>2, RangeEmpty DEF AllBefore
<1>7. PlaceInv'
  <2>1. \A a, b \in All' : a.ts = b.ts => a.ref = b.ref
    BY <1>5 DEF PlaceInv
  <2> QED BY <1>2, <1>3, <1>6, <2>1 DEF PlaceInv
<1>8. ASSUME NEW a \in All, NEW b \in All', Precedes(a, b) PROVE a \in All'
  <2>1. b \in Range(t) /\ b \in Range(wal) /\ Of(a) = Of(b) /\ Pos(a) < Pos(b)
    BY <1>3, <1>4, <1>8 DEF Precedes, Of
  <2>2. a \in Record /\ b \in Record /\ Pos(a) \in Nat /\ Pos(b) \in Nat
    BY <1>5, AllTyped
  <2>3. a \in Range(wal)
    <3>1. ASSUME NEW s \in ShardSet, a \in Range(outbox[s]) \/ a \in Range(emitting[s]) PROVE FALSE
      <4>1. Pos(b) < Pos(a)
        BY <2>1, <3>1 DEF PlaceInv, AllBefore
      <4> QED BY <2>1, <2>2, <4>1
    <3> QED BY <3>1, InAll
  <2> QED BY <1>3, <1>4, <2>1, <2>3
<1> QED BY <1>4, <1>5, <1>7, <1>8 DEF t
-----------------------------------------------------------------------------
(* What the writer thread owes. *)

LEMMA InAcceptedNext ==
  ASSUME NEW a
  PROVE  a \in Accepted' <=> a \in Range(wal') \/ \E s \in ShardSet : a \in Range(outbox'[s])
BY Zenon DEF Accepted

\* Nothing about the writer or the log changes.
LEMMA StopSame ==
  ASSUME StopInv, wal' = wal, outbox' = outbox, owed' = owed, writer' = writer,
         running' = running, mode' = mode \/ (mode # "up" /\ mode' # "up")
  PROVE  StopInv'
<1>1. Accepted' = Accepted
  BY DEF Accepted
<1> QED BY <1>1 DEF StopInv

\* A record a worker has not pushed is not owed.
LEMMA HeldNotOwed ==
  ASSUME JournalTypeOK, PlaceInv, StopInv, mode = "up", NEW s \in ShardSet, NEW h \in Range(emitting[s])
  PROVE  h \notin owed
<1>1. h \in Record /\ Pos(h) \in Nat /\ Of(h) = s
  BY InAll, AllTyped DEF PlaceInv, Boxed
<1>2. h \notin Range(wal)
  BY <1>1 DEF PlaceInv, AllBefore
<1>3. ASSUME NEW x \in ShardSet, h \in Range(outbox[x]) PROVE FALSE
  <2>1. x = s
    BY <1>1, <1>3 DEF PlaceInv, Boxed
  <2> QED BY <1>1, <1>3, <2>1 DEF PlaceInv, AllBefore
<1> QED BY <1>2, <1>3, InAccepted DEF StopInv

LEMMA StopPush ==
  ASSUME JournalTypeOK, PlaceInv, StopInv, NEW s \in ShardSet, Push(s)
  PROVE  StopInv'
<1> DEFINE e == emitting[s]
           h == Head(e)
           u == outbox[s]
<1>1. e \in Seq(Record) /\ e # <<>> /\ u \in Seq(Record) /\ mode = "up"
  BY DEF JournalTypeOK, Push
<1>2. Range(e) = Range(Tail(e)) \cup {h} /\ h \in Record
  BY <1>1, RangeTail
<1>3. h \notin owed
  BY <1>1, <1>2, HeldNotOwed
<1>4. /\ wal' = wal /\ mode' = mode /\ writer' = writer /\ running' = running /\ owed' = owed
      /\ (outbox'[s] = Append(u, h) \/ outbox'[s] = u)
      /\ \A x \in ShardSet : x # s => outbox'[x] = outbox[x]
  BY DEF Push, JournalTypeOK
<1> HIDE DEF e, h, u
<1>5. Range(u) \subseteq Range(outbox'[s]) /\ Range(outbox'[s]) \subseteq Range(u) \cup {h}
  <2>1. Range(Append(u, h)) = Range(u) \cup {h}
    BY <1>1, <1>2, RangeAppend
  <2> QED BY <1>4, <2>1
<1>6. \A x \in ShardSet : owed \cap Range(outbox'[x]) = owed \cap Range(outbox[x])
  BY <1>3, <1>4, <1>5 DEF u
<1>7. owed \subseteq Accepted'
  BY <1>1, <1>4, <1>6, InAccepted, InAcceptedNext DEF StopInv
<1> QED BY <1>1, <1>4, <1>6, <1>7 DEF StopInv

LEMMA StopPop ==
  ASSUME JournalTypeOK, StopInv, Pop
  PROVE  StopInv'
<1> DEFINE s == writer.at
           u == outbox[s]
           h == Head(u)
<1>1. s \in ShardSet /\ u \in Seq(Record) /\ u # <<>> /\ wal \in Seq(Record) /\ mode = "up"
  BY PopTyped DEF JournalTypeOK, Pop, Draining
<1>2. Range(u) = Range(Tail(u)) \cup {h} /\ h \in Record
  BY <1>1, RangeTail
<1>3. /\ mode' = mode /\ running' = running /\ writer' = [writer EXCEPT !.any = TRUE]
      /\ writer.pc \in {"drain", "final"}
      /\ outbox'[s] = Tail(u) /\ \A x \in ShardSet : x # s => outbox'[x] = outbox[x]
  BY <1>1 DEF Pop, JournalTypeOK, Draining
<1>4. writer'.pc = writer.pc /\ writer'.any = TRUE
  BY <1>3 DEF JournalTypeOK
<1>5. \/ wal' = Append(wal, h) /\ owed' = owed
      \/ wal' = wal /\ owed' = owed \ {h}
  BY DEF Pop
<1> HIDE DEF s, u, h
<1>6. owed' \subseteq owed /\ Range(wal) \subseteq Range(wal') /\ (h \in Range(wal') \/ h \notin owed')
  <2>1. Range(Append(wal, h)) = Range(wal) \cup {h}
    BY <1>1, <1>2, RangeAppend
  <2> QED BY <1>5, <2>1
<1>7. ASSUME NEW a \in owed' PROVE a \in Accepted'
  <2>1. a \in Range(wal) \/ \E x \in ShardSet : a \in Range(outbox[x])
    BY <1>1, <1>6, <1>7, InAccepted DEF StopInv
  <2>2. ASSUME NEW x \in ShardSet, a \in Range(outbox[x]) PROVE a \in Accepted'
    <3>1. CASE x = s
      <4>1. a \in Range(Tail(u)) \/ a = h
        BY <1>2, <2>2, <3>1 DEF u
      <4> QED BY <1>1, <1>3, <1>6, <1>7, <4>1, InAcceptedNext
    <3>2. CASE x # s
      BY <1>3, <2>2, <3>2, InAcceptedNext
    <3> QED BY <3>1, <3>2
  <2> QED BY <1>6, <2>1, <2>2, InAcceptedNext
<1> QED BY <1>1, <1>3, <1>4, <1>6, <1>7 DEF StopInv

LEMMA StopWriter ==
  ASSUME JournalTypeOK, StopInv, NextShard \/ EndPass \/ Flush \/ Stop
  PROVE  StopInv'
<1>0. writer.pc \in {"drain", "flush", "final", "last", "done"} /\ writer.at \in 1 .. Shards + 1
      /\ writer.any \in BOOLEAN /\ Shards \in Nat
  BY JournalAssumption DEF JournalTypeOK
<1>1. CASE NextShard
  <2>1. /\ writer'.at = writer.at + 1 /\ writer'.pc = writer.pc /\ writer'.any = writer.any
        /\ writer.pc \in {"drain", "final"}
        /\ outbox[writer.at] = <<>> /\ writer.at <= Shards
        /\ UNCHANGED <<mode, outbox, wal, running, owed>>
    BY <1>1 DEF NextShard, JournalTypeOK, Draining
  <2>2. Accepted' = Accepted
    BY <2>1 DEF Accepted
  <2>3. \A s \in ShardSet : s < writer.at + 1 => s < writer.at \/ s = writer.at
    BY <1>0 DEF ShardSet
  <2> QED BY <1>0, <2>1, <2>2, <2>3, RangeEmpty DEF StopInv
<1>2. CASE EndPass
  <2>1. /\ writer'.pc = AfterPass /\ writer'.at = 1 /\ writer.at > Shards
        /\ writer.pc \in {"drain", "final"} /\ mode = "up"
        /\ UNCHANGED <<mode, outbox, wal, running, owed>>
    BY <1>2 DEF EndPass, Draining
  <2>2. Accepted' = Accepted
    BY <2>1 DEF Accepted
  <2>3. ~(\E s \in ShardSet : s < 1) /\ \A s \in ShardSet : s < writer.at
    BY <1>0, <2>1 DEF ShardSet
  <2>4. running => AfterPass \in {"drain", "flush"}
    BY <1>0, <2>1 DEF StopInv, AfterPass, LoopHead
  <2>5. AfterPass = "last" => writer.pc = "final" /\ ~writer.any
    BY <1>0, <2>1 DEF AfterPass, LoopHead
  <2>6. AfterPass # "done"
    BY <1>0, <2>1 DEF AfterPass, LoopHead
  <2>7. AfterPass = "last" => owed \subseteq Range(wal)
    BY <2>1, <2>3, <2>5, InAccepted DEF StopInv
  <2> QED BY <2>1, <2>2, <2>3, <2>4, <2>6, <2>7 DEF StopInv
<1>3. CASE Flush
  <2>1. /\ writer'.pc = (IF writer.pc = "flush" THEN LoopHead ELSE "done")
        /\ writer'.at = writer.at /\ writer.pc \in {"flush", "last"}
        /\ owed' = owed \ Range(wal) /\ mode = "up"
        /\ UNCHANGED <<mode, outbox, wal, running>>
    BY <1>3 DEF Flush, JournalTypeOK
  <2>2. Accepted' = Accepted
    BY <2>1 DEF Accepted
  <2>3. ~(\E s \in ShardSet : s < 1)
    BY <1>0 DEF ShardSet
  <2>4. CASE writer.pc = "flush"
    BY <2>1, <2>2, <2>3, <2>4 DEF StopInv, LoopHead
  <2>5. CASE writer.pc = "last"
    BY <2>1, <2>2, <2>5 DEF StopInv
  <2> QED BY <2>1, <2>4, <2>5
<1>4. CASE Stop
  <2>1. running /\ ~running' /\ owed' \subseteq Accepted /\ mode = "up"
        /\ UNCHANGED <<mode, outbox, wal, writer>>
    BY <1>4 DEF Stop
  <2>2. Accepted' = Accepted
    BY <2>1 DEF Accepted
  <2> QED BY <2>1, <2>2 DEF StopInv
<1> QED BY <1>1, <1>2, <1>3, <1>4

LEMMA StopCrash ==
  ASSUME NEW k, Crash(k)
  PROVE  StopInv'
<1>1. mode' = "down" /\ owed' = {} /\ running' = FALSE /\ writer'.pc = "drain"
  BY DEF Crash
<1> QED BY <1>1 DEF StopInv
-----------------------------------------------------------------------------
(* The chain of an order's records. *)

LEMMA ChainFewer ==
  ASSUME ChainInv, \A a : a \in All' => a \in All, dropped \subseteq dropped', resized \subseteq resized',
         \A a \in All, b \in All' : b.ref \notin dropped' /\ Precedes(a, b) => a \in All'
  PROVE  ChainInv'
<1>1. ASSUME NEW b \in All', b.ref \notin dropped', First(b)' PROVE OpensChain(b)
  <2>1. First(b)
    <3> SUFFICES ASSUME NEW a \in All, Precedes(a, b) PROVE FALSE
      BY DEF First
    <3>1. a \in All'
      BY <1>1
    <3> QED BY <1>1, <3>1 DEF First, Precedes
  <2> QED BY <1>1, <2>1 DEF ChainInv
<1>2. ASSUME NEW a \in All', NEW b \in All', b.ref \notin dropped', Next2(a, b)' PROVE Link(a, b)'
  <2>1. Precedes(a, b)
    BY <1>2 DEF Next2, Precedes
  <2>2. Next2(a, b)
    <3> SUFFICES ASSUME NEW c \in All, Precedes(a, c), Precedes(c, b) PROVE FALSE
      BY <2>1 DEF Next2
    <3>1. c \in All'
      BY <1>2
    <3> QED BY <1>2, <3>1 DEF Next2, Precedes
  <2>3. Link(a, b)
    BY <1>2, <2>2 DEF ChainInv
  <2> QED BY <2>3 DEF Link
<1> QED BY <1>1, <1>2 DEF ChainInv, OpensChain

LEMMA ChainMoves ==
  ASSUME ChainInv, Moves, resized' = resized
  PROVE  ChainInv'
BY ChainFewer DEF Moves, Precedes

\* An order that is not known to have lost a record keeps its records and their last.
LEMMA LatestMoves ==
  ASSUME LatestInv, Moves, UNCHANGED <<omsVars, ops, miscounted, drained>>, mode' = mode
  PROVE  LatestInv'
<1> SUFFICES ASSUME mode = "up", NEW r \in Refs PROVE LatestAt(r)'
  BY DEF LatestInv
<1>1. LatestAt(r)
  BY DEF LatestInv
<1>2. live' = live /\ order' = order /\ ops' = ops /\ Unlogged' = Unlogged
  BY DEF omsVars, Unlogged
<1>3. \A a \in All : a.ref = r /\ r \notin dropped' => a \in All'
  BY DEF Moves
<1>4. ASSUME NEW a \in All', a.ref = r, r \notin dropped' \cup Unlogged, Latest(a)'
      PROVE  IF r \in live THEN Seen(order[r]) = Seen(a.image) ELSE is_terminal(a.image.state)
  <2>1. Latest(a)
    BY <1>3, <1>4 DEF Latest, Precedes
  <2> QED BY <1>1, <1>4, <2>1 DEF LatestAt, Moves
<1>5. r \in live /\ r \notin dropped' \cup Unlogged => \E a \in All' : a.ref = r
  BY <1>1, <1>3 DEF LatestAt, Moves
<1>6. ops[r] = 0 => r \notin live /\ \A a \in All' : a.ref # r
  BY <1>1 DEF LatestAt, Moves
<1> QED BY <1>2, <1>4, <1>5, <1>6 DEF LatestAt, Seen

LEMMA SeenTwice ==
  ASSUME NEW o \in Order
  PROVE  Seen(Seen(o)) = Seen(o) /\ (is_terminal(Seen(o).state) <=> is_terminal(o.state))
BY DEF Seen, Order, is_terminal, Terminal

\* The records of a step, seen from the records there were.
Newest(r, q) ==
  /\ q \in Seq(Record) /\ (\A i \in 1 .. Len(q) : q[i].ref = r)
  /\ \A a : a \in All' <=> a \in All \/ \E i \in 1 .. Len(q) : a = q[i]
  /\ \A a \in All, i \in 1 .. Len(q) : Pos(a) < Pos(q[i])
  /\ \A i, j \in 1 .. Len(q) : i < j => Pos(q[i]) < Pos(q[j])
  /\ \A i \in 1 .. Len(q) : Pos(q[i]) \in Nat
  /\ \A a \in All : Pos(a) \in Nat

LEMMA WorkedNewest ==
  ASSUME JournalTypeOK, PlaceInv, NEW r \in Refs, NEW q, NEW n, Works(r, q, n)
  PROVE  PlaceInv' /\ Newest(r, q)
<1>1. Free(r) /\ Fresh(r, q) /\ Emits(r, q) /\ q \in Seq(Record)
  BY DEF Works, Fresh
<1>2. /\ PlaceInv' /\ (\A a : a \in All' <=> a \in All \/ a \in Range(q))
      /\ \A a \in All, b \in Range(q) : Pos(a) < Pos(b)
  BY <1>1, PlaceEmits
<1>3. \A a : a \in Range(q) <=> \E i \in 1 .. Len(q) : a = q[i]
  BY <1>1, InRange
<1>4. \A i \in 1 .. Len(q) : q[i] \in Record /\ Pos(q[i]) \in Nat
  BY <1>1, PosTyped
<1> QED BY <1>1, <1>2, <1>3, <1>4, AllTyped DEF Newest, Fresh

LEMMA ChainWorked ==
  ASSUME JournalTypeOK, ChainInv, LatestInv, UpInv, NEW r \in Refs, NEW q, NEW n,
         Worked(r, q, n), Newest(r, q)
  PROVE  ChainInv'
<1>1. Works(r, q, n) /\ mode = "up" /\ dropped' = dropped /\ resized \subseteq resized'
      /\ r \notin dropped \cup Unlogged
  BY DEF Worked, Works, Free
<1>2. LatestAt(r)
  BY <1>1 DEF LatestInv
<1>3. \A a \in All, i \in 1 .. Len(q) : ~Precedes(q[i], a) /\ (a.ref = r => Precedes(a, q[i]))
  BY DEF Newest, Precedes
<1>4. \A i, j \in 1 .. Len(q) : Precedes(q[i], q[j]) <=> i < j
  BY DEF Newest, Precedes
<1>5. \A a : a \in All' <=> a \in All \/ \E i \in 1 .. Len(q) : a = q[i]
  BY DEF Newest
<1>6. ASSUME NEW i \in 1 .. Len(q), First(q[i])' PROVE OpensChain(q[i])
  <2>1. CASE r \notin live
    <3>1. PICK b \in Record : q = <<b>> /\ OpensChain(b)
      BY <2>1 DEF Worked
    <3> QED BY <3>1
  <2>2. CASE r \in live
    <3>1. PICK a \in All : a.ref = r
      BY <1>1, <1>2, <2>2 DEF LatestAt
    <3>2. a \in All' /\ Precedes(a, q[i])
      BY <1>3, <1>5, <3>1
    <3> QED BY <1>6, <3>2 DEF First, Precedes
  <2> QED BY <2>1, <2>2
<1>7. ASSUME NEW a \in All', NEW i \in 1 .. Len(q), Next2(a, q[i])' PROVE Link(a, q[i])'
  <2>1. Precedes(a, q[i]) /\ ~\E c \in All' : Precedes(a, c) /\ Precedes(c, q[i])
    BY <1>7 DEF Next2, Precedes
  <2>2. CASE r \notin live
    <3>1. Len(q) = 1 /\ ops[r] = 0 /\ i = 1
      <4>1. PICK b \in Record : q = <<b>> /\ ops[r] = 0
        BY <2>2 DEF Worked
      <4> QED BY <4>1
    <3>2. a \notin All
      BY <1>2, <2>1, <3>1 DEF LatestAt, Newest, Precedes
    <3>3. a = q[1]
      BY <1>5, <3>1, <3>2
    <3> QED BY <1>4, <2>1, <3>1, <3>3
  <2>3. CASE r \in live
    <3>1. PICK p : /\ Told(order[r], q, p)
                   /\ r \notin resized' => Checked(order[r], q)
      BY <2>3 DEF Worked
    <3>2. q[i].ref = r
      BY DEF Newest
    <3>3. CASE a \in All
      <4>1. i = 1
        <5> SUFFICES ASSUME i # 1 PROVE FALSE
          OBVIOUS
        <5>1. 1 \in 1 .. Len(q) /\ 1 < i
          OBVIOUS
        <5>2. q[1] \in All' /\ Precedes(q[1], q[i])
          BY <1>4, <1>5, <5>1
        <5>3. a.ref = r /\ Precedes(a, q[1])
          BY <1>3, <2>1, <3>2, <3>3, <5>1 DEF Precedes
        <5> QED BY <2>1, <5>2, <5>3
      <4>2. Latest(a) /\ a.ref = r
        <5>1. a.ref = r
          BY <2>1, <3>2 DEF Precedes
        <5>2. ASSUME NEW c \in All, Precedes(a, c) PROVE FALSE
          <6>1. c.ref = r /\ c \in All'
            BY <1>5, <5>1, <5>2 DEF Precedes
          <6> QED BY <1>3, <2>1, <5>2, <6>1
        <5> QED BY <5>1, <5>2 DEF Latest
      <4>3. Seen(order[r]) = Seen(a.image)
        BY <1>1, <1>2, <2>3, <3>3, <4>2 DEF LatestAt
      <4>4. ~is_terminal(a.image.state)
        <5>1. order[r] \in Order /\ a.image \in Order
          BY <3>3, AllTyped DEF JournalTypeOK, OmsTypeOK, Record
        <5>2. ~is_terminal(order[r].state)
          BY <1>1, <2>3 DEF UpInv
        <5> QED BY <4>3, <5>1, <5>2, SeenTwice
      <4>5. Joins(order[r], q[i]) /\ (r \notin resized' => Fits(order[r], q[i]))
        BY <3>1, <4>1 DEF Told, Checked, Before
      <4>6. Joins(a.image, q[i]) /\ (r \notin resized' => Fits(a.image, q[i]))
        BY <4>3, <4>5 DEF Joins, Fits
      <4> QED BY <3>2, <4>4, <4>6 DEF Link
    <3>4. ASSUME NEW j \in 1 .. Len(q), a = q[j] PROVE Link(a, q[i])'
      <4>1. j < i
        BY <1>4, <2>1, <3>4
      <4>2. j = i - 1
        <5> SUFFICES ASSUME j # i - 1 PROVE FALSE
          OBVIOUS
        <5>1. i - 1 \in 1 .. Len(q) /\ j < i - 1 /\ i - 1 < i
          BY <4>1
        <5>2. q[i-1] \in All' /\ Precedes(a, q[i-1]) /\ Precedes(q[i-1], q[i])
          BY <1>4, <1>5, <3>4, <5>1
        <5> QED BY <2>1, <5>2
      <4>3. i # 1 /\ j < Len(q)
        BY <4>1, <4>2
      <4>4. Before(order[r], q, i) = a.image
        BY <3>4, <4>2, <4>3 DEF Before
      <4>5. Joins(a.image, q[i]) /\ (r \notin resized' => Fits(a.image, q[i]))
        BY <3>1, <4>4 DEF Told, Checked
      <4>6. ~is_terminal(a.image.state)
        BY <3>1, <3>4, <4>3 DEF Told
      <4> QED BY <3>2, <4>5, <4>6 DEF Link
    <3> QED BY <1>5, <3>3, <3>4
  <2> QED BY <2>2, <2>3
<1>8. ASSUME NEW b \in All, b.ref \notin dropped, First(b)' PROVE OpensChain(b)
  <2>1. First(b)
    BY <1>5, <1>8 DEF First, Precedes
  <2> QED BY <1>8, <2>1 DEF ChainInv
<1>9. ASSUME NEW a \in All', NEW b \in All, b.ref \notin dropped, Next2(a, b)' PROVE Link(a, b)'
  <2>1. Precedes(a, b) /\ ~\E c \in All' : Precedes(a, c) /\ Precedes(c, b)
    BY <1>9 DEF Next2, Precedes
  <2>2. a \in All
    BY <1>3, <1>5, <2>1
  <2>3. Next2(a, b)
    BY <1>5, <2>1 DEF Next2
  <2>4. Link(a, b)
    BY <1>9, <2>2, <2>3 DEF ChainInv
  <2> QED BY <1>1, <2>4 DEF Link
<1> QED BY <1>1, <1>5, <1>6, <1>7, <1>8, <1>9 DEF ChainInv, OpensChain

LEMMA LatestWorked ==
  ASSUME JournalTypeOK, LatestInv, UpInv, NEW r \in Refs, NEW q, NEW n,
         Worked(r, q, n), Newest(r, q)
  PROVE  LatestInv' /\ UpInv'
<1>1. /\ Works(r, q, n) /\ mode = "up" /\ mode' = mode /\ dropped' = dropped
      /\ miscounted \subseteq miscounted' /\ drained \subseteq drained'
      /\ r \notin dropped \cup Unlogged /\ n.state # "unknown"
      /\ live' = (IF is_terminal(n.state) THEN live \ {r} ELSE live \cup {r})
      /\ order' = [order EXCEPT ![r] = IF is_terminal(n.state) THEN NoOrder ELSE n]
      /\ ops' = [ops EXCEPT ![r] = @ + 1]
  BY DEF Worked, Works, Free, Emits
<1>2. order \in [Refs -> Order] /\ live \subseteq Refs /\ ops \in [Refs -> Nat]
  BY DEF JournalTypeOK, OmsTypeOK
<1>3. UpInv'
  BY <1>1, <1>2 DEF UpInv
<1>4. \A a : a \in All' <=> a \in All \/ \E i \in 1 .. Len(q) : a = q[i]
  BY DEF Newest
<1>5. \A x : x \notin dropped' \cup Unlogged' => x \notin dropped \cup Unlogged
  BY <1>1 DEF Unlogged
<1>6. ASSUME NEW x \in Refs, x # r PROVE LatestAt(x)'
  <2>1. LatestAt(x)
    BY <1>1 DEF LatestInv
  <2>2. \A a : a.ref = x => (a \in All' <=> a \in All)
    BY <1>4, <1>6 DEF Newest
  <2>3. ops'[x] = ops[x] /\ (x \in live' <=> x \in live) /\ order'[x] = order[x]
    BY <1>1, <1>2, <1>6
  <2>4. \A a : a.ref = x => (Latest(a)' <=> Latest(a))
    BY <2>2 DEF Latest, Precedes
  <2> QED BY <1>5, <2>1, <2>2, <2>3, <2>4 DEF LatestAt, Seen
<1>7. ops'[r] # 0
  BY <1>1, <1>2
<1>8. LatestAt(r)
  BY <1>1 DEF LatestInv
<1>9. ASSUME NEW a \in All', a.ref = r, r \notin dropped' \cup Unlogged', Latest(a)'
      PROVE  IF r \in live' THEN Seen(order'[r]) = Seen(a.image) ELSE is_terminal(a.image.state)
  <2>1. r \notin miscounted' \cup drained'
    BY <1>9 DEF Unlogged
  <2>2. CASE q = <<>>
    <3>1. r \in live /\ Seen(n) = Seen(order[r])
      <4>1. r \in live
        <5> SUFFICES ASSUME r \notin live PROVE FALSE
          OBVIOUS
        <5>1. PICK b \in Record : q = <<b>>
          BY DEF Worked
        <5> QED BY <2>2, <5>1
      <4>2. PICK p : Told(order[r], q, p) /\ p = n
        BY <2>1, <4>1 DEF Worked
      <4> QED BY <2>2, <4>1, <4>2 DEF Told
    <3>2. a \in All /\ Latest(a)
      BY <1>4, <1>9, <2>2 DEF Latest, Precedes
    <3>3. Seen(order[r]) = Seen(a.image)
      BY <1>5, <1>8, <1>9, <3>1, <3>2 DEF LatestAt
    <3>4. ~is_terminal(order[r].state)
      BY <1>1, <3>1 DEF UpInv
    <3>5. ~is_terminal(n.state)
      BY <1>1, <1>2, <3>1, <3>4, SeenTwice DEF Works
    <3> QED BY <1>1, <1>2, <3>1, <3>3, <3>5
  <2>3. CASE q # <<>>
    <3> DEFINE m == Len(q)
    <3>1. m \in 1 .. Len(q) /\ m \in Nat /\ q[m] \in All'
      BY <1>4, <2>3 DEF Newest
    <3>2. q[m].image = n
      <4>1. CASE r \notin live
        <5>1. PICK b \in Record : q = <<b>> /\ b.image = n
          BY <4>1 DEF Worked
        <5> QED BY <5>1
      <4>2. CASE r \in live
        <5>1. PICK p : Told(order[r], q, p) /\ p = n
          BY <2>1, <4>2 DEF Worked
        <5> QED BY <2>3, <5>1 DEF Told
      <4> QED BY <4>1, <4>2
    <3>3. a = q[m]
      <4>1. ~Precedes(a, q[m])
        BY <1>9, <3>1 DEF Latest, Precedes
      <4>2. Pos(a) >= Pos(q[m])
        <5>1. q[m].ref = r /\ Pos(q[m]) \in Nat /\ Pos(a) \in Nat
          BY <1>4, <3>1 DEF Newest
        <5> QED BY <1>9, <4>1, <5>1 DEF Precedes
      <4>3. CASE a \in All
        BY <3>1, <4>2, <4>3 DEF Newest
      <4>4. ASSUME NEW i \in 1 .. Len(q), a = q[i] PROVE a = q[m]
        <5>1. ~(i < m)
          BY <3>1, <4>2, <4>4 DEF Newest
        <5> QED BY <3>1, <4>4, <5>1
      <4> QED BY <1>4, <4>3, <4>4
    <3> HIDE DEF m
    <3> QED BY <1>1, <1>2, <3>2, <3>3
  <2> QED BY <2>2, <2>3
<1>10. ASSUME r \in live', r \notin dropped' \cup Unlogged' PROVE \E a \in All' : a.ref = r
  <2>1. CASE r \in live
    BY <1>4, <1>5, <1>8, <1>10, <2>1 DEF LatestAt
  <2>2. CASE r \notin live
    <3>1. PICK b \in Record : q = <<b>>
      BY <2>2 DEF Worked
    <3>2. Len(q) = 1 /\ q[1].ref = r
      BY <3>1 DEF Newest
    <3> QED BY <1>4, <3>2
  <2> QED BY <2>1, <2>2
<1>11. LatestAt(r)'
  BY <1>7, <1>9, <1>10 DEF LatestAt, Seen
<1>12. LatestInv'
  BY <1>6, <1>11 DEF LatestInv
<1> QED BY <1>3, <1>12
-----------------------------------------------------------------------------
(* read_and_order_wal: the log in the order of its timestamps. *)

\* As many numbers as places fill the places.
LEMMA RankOnto ==
  ASSUME NEW n \in Nat, NEW f \in [1 .. n -> 1 .. n], \A i, j \in 1 .. n : f[i] = f[j] => i = j
  PROVE  \A k \in 1 .. n : \E i \in 1 .. n : f[i] = k
<1>1. IsFiniteSet(1 .. n)
  BY FS_Interval
<1>2. f \in Injection(1 .. n, 1 .. n)
  BY DEF Injection, IsInjective
<1>3. f \in Surjection(1 .. n, 1 .. n)
  BY <1>1, <1>2, FS_Injection
<1> QED BY <1>3 DEF Surjection

\* The order of a stable sort by ts: by ts, and by place for equal ones.
Ahead(log, j, i) == log[j].ts < log[i].ts \/ (log[j].ts = log[i].ts /\ j <= i)
RankOf(log, i) == Cardinality({j \in DOMAIN log : Ahead(log, j, i)})

LEMMA OrderedIs ==
  ASSUME NEW log
  PROVE  Ordered(log) = [n \in DOMAIN log |-> log[CHOOSE i \in DOMAIN log : RankOf(log, i) = n]]
BY DEF Ordered, RankOf, Ahead

LEMMA RankBelow ==
  ASSUME NEW log \in Seq(Record), NEW i \in 1 .. Len(log), NEW j \in 1 .. Len(log)
  PROVE  /\ RankOf(log, i) \in 1 .. Len(log)
         /\ Ahead(log, j, i) /\ i # j => RankOf(log, j) < RankOf(log, i)
<1> DEFINE A(x) == {y \in DOMAIN log : Ahead(log, y, x)}
<1>1. DOMAIN log = 1 .. Len(log) /\ Len(log) \in Nat /\ \A x \in 1 .. Len(log) : log[x].ts \in Nat
  <2>1. DOMAIN log = 1 .. Len(log) /\ Len(log) \in Nat
    BY LenProperties
  <2>2. \A x \in 1 .. Len(log) : log[x] \in Record
    BY ElementOfSeq
  <2> QED BY <2>1, <2>2, PosTyped
<1>2. IsFiniteSet(1 .. Len(log)) /\ Cardinality(1 .. Len(log)) = Len(log)
  <2>1. 1 \in Int /\ Len(log) \in Int
    BY <1>1
  <2>2. IsFiniteSet(1 .. Len(log)) /\ Cardinality(1 .. Len(log)) = IF 1 > Len(log) THEN 0 ELSE Len(log) - 1 + 1
    BY <2>1, FS_Interval
  <2> QED BY <1>1, <2>2
<1>3. \A x \in 1 .. Len(log) : A(x) \in SUBSET (1 .. Len(log)) /\ x \in A(x)
  BY <1>1 DEF Ahead
<1>4. \A x \in 1 .. Len(log) : /\ IsFiniteSet(A(x)) /\ Cardinality(A(x)) \in Nat
                               /\ Cardinality(A(x)) <= Len(log)
  <2> TAKE x \in 1 .. Len(log)
  <2>1. A(x) \in SUBSET (1 .. Len(log))
    BY <1>3
  <2> HIDE DEF A
  <2> QED BY <1>2, <2>1, FS_Subset, FS_CardinalityType
<1>5. Cardinality(A(i)) \in 1 .. Len(log)
  <2>1. A(i) # {}
    BY <1>3
  <2> HIDE DEF A
  <2>2. Cardinality(A(i)) # 0
    BY <1>4, <2>1, FS_EmptySet
  <2> QED BY <1>1, <1>4, <2>2
<1>6. ASSUME Ahead(log, j, i), i # j PROVE Cardinality(A(j)) < Cardinality(A(i))
  <2>1. A(j) \subseteq A(i)
    <3> SUFFICES ASSUME NEW y \in 1 .. Len(log), Ahead(log, y, j) PROVE Ahead(log, y, i)
      BY <1>1
    <3>1. log[y].ts \in Nat /\ log[j].ts \in Nat /\ log[i].ts \in Nat
      BY <1>1
    <3> QED BY <1>6, <3>1 DEF Ahead
  <2>2. i \in A(i) /\ i \notin A(j)
    BY <1>1, <1>3, <1>6 DEF Ahead
  <2>3. A(j) \in SUBSET A(i) /\ A(i) # A(j)
    BY <2>1, <2>2
  <2> HIDE DEF A
  <2>4. Cardinality(A(j)) <= Cardinality(A(i)) /\ Cardinality(A(i)) # Cardinality(A(j))
    BY <1>4, <2>3, FS_Subset
  <2> QED BY <1>4, <2>4
<1> QED BY <1>5, <1>6 DEF RankOf

\* The ordered log holds the records of the log, each at the place of its rank.
LEMMA OrderedPlaces ==
  ASSUME NEW log \in Seq(Record)
  PROVE  \E p \in [1 .. Len(log) -> 1 .. Len(log)] :
           /\ Ordered(log) = [n \in 1 .. Len(log) |-> log[p[n]]]
           /\ \A k \in 1 .. Len(log) : \E n \in 1 .. Len(log) : p[n] = k
           /\ \A m, n \in 1 .. Len(log) : m < n => Ahead(log, p[m], p[n]) /\ p[m] # p[n]
<1> DEFINE N == Len(log)
           f == [i \in 1 .. N |-> RankOf(log, i)]
           p == [n \in DOMAIN log |-> CHOOSE i \in DOMAIN log : RankOf(log, i) = n]
<1>1. N \in Nat /\ DOMAIN log = 1 .. N /\ \A i \in 1 .. N : log[i].ts \in Nat
  <2>1. DOMAIN log = 1 .. N /\ N \in Nat
    BY LenProperties
  <2>2. \A x \in 1 .. N : log[x] \in Record
    BY ElementOfSeq
  <2> QED BY <2>1, <2>2, PosTyped
<1>2. \A i, j \in 1 .. N : i # j => Ahead(log, i, j) \/ Ahead(log, j, i)
  BY <1>1 DEF Ahead
<1>3. \A i, j \in 1 .. N : /\ RankOf(log, i) \in 1 .. N
                           /\ Ahead(log, j, i) /\ i # j => RankOf(log, j) < RankOf(log, i)
  BY RankBelow
<1> HIDE DEF N
<1>4. f \in [1 .. N -> 1 .. N] /\ \A i, j \in 1 .. N : f[i] = f[j] => i = j
  BY <1>1, <1>2, <1>3
<1>5. \A k \in 1 .. N : \E i \in 1 .. N : RankOf(log, i) = k
  <2> HIDE DEF f
  <2>1. \A k \in 1 .. N : \E i \in 1 .. N : f[i] = k
    BY <1>1, <1>4, RankOnto
  <2> QED BY <2>1 DEF f
<1>6. p \in [1 .. N -> 1 .. N] /\ \A n \in 1 .. N : RankOf(log, p[n]) = n
  BY <1>1, <1>5
<1>7. Ordered(log) = [n \in 1 .. N |-> log[p[n]]]
  <2>1. Ordered(log) = [n \in DOMAIN log |-> log[CHOOSE i \in DOMAIN log : RankOf(log, i) = n]]
    BY OrderedIs
  <2>2. \A n \in DOMAIN log : p[n] = CHOOSE i \in DOMAIN log : RankOf(log, i) = n
    BY Zenon
  <2> HIDE DEF p
  <2>3. Ordered(log) = [n \in DOMAIN log |-> log[p[n]]]
    BY <2>1, <2>2, Zenon
  <2> QED BY <1>1, <2>3
<1> HIDE DEF p
<1>8. \A k \in 1 .. N : \E n \in 1 .. N : p[n] = k
  <2> TAKE k \in 1 .. N
  <2>1. RankOf(log, k) \in 1 .. N /\ p[RankOf(log, k)] \in 1 .. N
        /\ RankOf(log, p[RankOf(log, k)]) = RankOf(log, k)
    BY <1>3, <1>6
  <2>2. p[RankOf(log, k)] = k
    BY <1>1, <1>2, <1>3, <2>1
  <2> QED BY <2>1, <2>2
<1>9. ASSUME NEW m \in 1 .. N, NEW n \in 1 .. N, m < n PROVE Ahead(log, p[m], p[n]) /\ p[m] # p[n]
  <2>1. p[m] \in 1 .. N /\ p[n] \in 1 .. N /\ RankOf(log, p[m]) = m /\ RankOf(log, p[n]) = n
    BY <1>6
  <2>2. p[m] # p[n]
    BY <1>9, <2>1
  <2>3. ~Ahead(log, p[n], p[m])
    BY <1>3, <1>9, <2>1, <2>2
  <2> QED BY <1>2, <2>1, <2>2, <2>3
<1> QED BY <1>6, <1>7, <1>8, <1>9 DEF N

\* The records of the log, each once, in the order in which they were made.
Sorted(q) ==
  /\ q \in Seq(Record) /\ Len(q) = Len(wal) /\ Range(q) = Range(wal)
  /\ \A i, j \in 1 .. Len(q) : i < j => Pos(q[i]) < Pos(q[j]) /\ q[i].ts <= q[j].ts

LEMMA OrderedSorted ==
  ASSUME JournalTypeOK, PlaceInv
  PROVE  Sorted(Ordered(wal))
<1> DEFINE N == Len(wal)
           q == Ordered(wal)
<1>1. wal \in Seq(Record) /\ N \in Nat
  BY DEF JournalTypeOK
<1>2. PICK p \in [1 .. N -> 1 .. N] :
        /\ Ordered(wal) = [n \in 1 .. N |-> wal[p[n]]]
        /\ \A k \in 1 .. N : \E n \in 1 .. N : p[n] = k
        /\ \A m, n \in 1 .. N : m < n => Ahead(wal, p[m], p[n]) /\ p[m] # p[n]
  BY <1>1, OrderedPlaces
<1>3. \A i \in 1 .. N : wal[i] \in Record /\ wal[i] \in Range(wal)
  BY <1>1, InRange
<1>4. q = [n \in 1 .. N |-> wal[p[n]]] /\ \A n \in 1 .. N : q[n] = wal[p[n]] /\ p[n] \in 1 .. N
  BY <1>2
<1> HIDE DEF N, q
<1>5. q \in Seq(Record) /\ Len(q) = N
  <2>1. q \in [1 .. N -> Record]
    BY <1>3, <1>4
  <2> QED BY <1>1, <2>1, SeqDef, LenProperties
<1>6. ASSUME NEW a PROVE a \in Range(q) <=> a \in Range(wal)
  <2>1. a \in Range(q) <=> \E n \in 1 .. N : a = q[n]
    BY <1>5, InRange
  <2>2. a \in Range(wal) <=> \E k \in 1 .. N : a = wal[k]
    BY <1>1, InRange DEF N
  <2> QED BY <1>2, <1>4, <2>1, <2>2
<1>7. ASSUME NEW i \in 1 .. N, NEW j \in 1 .. N, i < j
      PROVE  Pos(q[i]) < Pos(q[j]) /\ q[i].ts <= q[j].ts
  <2> DEFINE a == wal[p[i]]
             b == wal[p[j]]
  <2>1. p[i] \in 1 .. N /\ p[j] \in 1 .. N /\ Ahead(wal, p[i], p[j]) /\ p[i] # p[j]
    BY <1>2, <1>7
  <2>2. a \in Record /\ b \in Record /\ a.ts \in Nat /\ b.ts \in Nat /\ a \in All /\ b \in All
    BY <1>3, <2>1, PosTyped, InAll
  <2>3. a.ts < b.ts \/ (a.ts = b.ts /\ p[i] < p[j])
    BY <1>1, <2>1 DEF Ahead
  <2>4. CASE a.ts < b.ts
    <3> HIDE DEF a, b
    <3>1. Pos(a) < Pos(b)
      BY <2>2, <2>4, PosBefore
    <3> QED BY <1>4, <2>2, <2>4, <3>1 DEF a, b
  <2>5. CASE a.ts = b.ts /\ p[i] < p[j]
    <3>1. Of(a) = Of(b)
      BY <2>2, <2>5 DEF PlaceInv, Of
    <3>2. Pos(a) < Pos(b)
      BY <2>1, <2>5, <3>1 DEF PlaceInv, Rising, N
    <3> QED BY <1>4, <2>2, <2>5, <3>2
  <2> QED BY <2>3, <2>4, <2>5
<1> QED BY <1>5, <1>6, <1>7 DEF Sorted, q, N
-----------------------------------------------------------------------------
(* recover_streaming: replaying the records one by one. *)

\* An order as replay makes it, and the books it goes through.
Plain == {o \in Order : o.last_applied_seq = 0}
Books == [ok : BOOLEAN, ts : Nat, live : SUBSET Refs, order : [Refs -> Plain]]

LEMMA ReplayedTyped ==
  ASSUME NEW item \in Record, NEW o \in Plain
  PROVE  Replayed(item, o) \in Plain
<1>1. o \in Order /\ o.last_applied_seq = 0 /\ item.x \in Nat /\ item.y \in Nat /\ item.to \in OrderStates
  BY DEF Plain, Record
<1>2. NewOrder("sent", item.y, 0) \in Plain
  BY <1>1, OrderTyped DEF Plain, NewOrder
<1>3. [o EXCEPT !.state = item.to] \in Plain /\ [o EXCEPT !.requested_volume = item.y] \in Plain
  BY <1>1 DEF Plain, Order
<1>4. AddFill(o, item.x) \in Plain
  BY <1>1 DEF Plain, AddFill, Order
<1> QED BY <1>2, <1>3, <1>4 DEF Replayed

LEMMA PlainNone == NoOrder \in Plain
BY OrderTyped DEF Plain, NoOrder, NewOrder

LEMMA ReplayTyped ==
  ASSUME NEW b \in Books, NEW item \in Record
  PROVE  Replay(b, item) \in Books
<1> DEFINE r == item.ref
           o == Replayed(item, b.order[r])
<1>1. b.ok \in BOOLEAN /\ b.ts \in Nat /\ b.live \in SUBSET Refs /\ b.order \in [Refs -> Plain]
      /\ r \in Refs /\ item.ts \in Nat
  BY DEF Books, Record
<1>2. o \in Plain
  BY <1>1, ReplayedTyped
<1>3. [b EXCEPT !.ok = FALSE] \in Books
  BY DEF Books
<1>4. [b.order EXCEPT ![r] = IF Reclaims(o.state) THEN NoOrder ELSE o] \in [Refs -> Plain]
      /\ (IF Reclaims(o.state) THEN b.live \ {r} ELSE b.live \cup {r}) \in SUBSET Refs
  <2> HIDE DEF o, r
  <2> QED BY <1>1, <1>2, PlainNone
<1>5. [ok |-> TRUE, ts |-> item.ts,
       live |-> IF Reclaims(o.state) THEN b.live \ {r} ELSE b.live \cup {r},
       order |-> [b.order EXCEPT ![r] = IF Reclaims(o.state) THEN NoOrder ELSE o]] \in Books
  <2> HIDE DEF o, r
  <2> QED BY <1>1, <1>4 DEF Books
<1> QED BY <1>3, <1>5 DEF Replay

LEMMA NextTyped == Next0 \in Books
BY PlainNone DEF Next0, Books

\* The books of a replay, one per record.
Replaying(log, c) ==
  /\ c \in [0 .. Len(log) -> Books]
  /\ c[0] = Next0 /\ \A i \in 1 .. Len(log) : c[i] = Replay(c[i-1], log[i])
  /\ Replays(log) = c[Len(log)]

LEMMA ReplaySteps ==
  ASSUME NEW log \in Seq(Record)
  PROVE  \E c : Replaying(log, c)
<1> DEFINE m == Len(log)
           P(f) == f = [n \in 0 .. m |-> IF n = 0 THEN Next0 ELSE Replay(f[n-1], log[n])]
           step == [i \in Nat |-> [b \in Books |-> IF i \in 1 .. m THEN Replay(b, log[i]) ELSE b]]
           c == CHOOSE f : P(f)
<1>0. m \in Nat /\ \A i \in 1 .. m : log[i] \in Record
  BY ElementOfSeq
<1>1. \A i \in 1 .. m, b \in Books : Replay(b, log[i]) \in Books
  BY <1>0, ReplayTyped
<1>2. Replays(log) = c[m]
  BY DEF Replays
<1> HIDE DEF m
<1>3. step \in [Nat -> [Books -> Books]] /\ \A i \in 1 .. m, b \in Books : step[i][b] = Replay(b, log[i])
  BY <1>0, <1>1
<1>4. \E f : P(f)
  <2> HIDE DEF step
  <2>1. PICK f \in [0 .. m -> Books] : Steps(f, m, Next0, step)
    BY <1>0, <1>3, NextTyped, StepsExist
  <2>2. ASSUME NEW i \in 0 .. m, i # 0 PROVE step[i][f[i-1]] = Replay(f[i-1], log[i])
    <3>1. i \in 1 .. m /\ i - 1 \in 0 .. m /\ f[i-1] \in Books
      BY <1>0, <2>1, <2>2
    <3> QED BY <1>3, <3>1
  <2>3. P(f)
    BY <2>1, <2>2 DEF Steps
  <2> QED BY <2>3
<1>5. P(c)
  BY <1>4
<1> HIDE DEF c
<1>6. c[0] = Next0 /\ \A i \in 1 .. m : c[i] = Replay(c[i-1], log[i])
  BY <1>0, <1>5
<1> DEFINE B == {i \in 0 .. m : c[i] \in Books}
<1>7. 0 \in B
  BY <1>0, <1>6, NextTyped
<1>8. ASSUME NEW i \in 0 .. m, i < m /\ i \in B PROVE i + 1 \in B
  <2>1. i + 1 \in 1 .. m /\ (i + 1) - 1 = i /\ c[i] \in Books
    BY <1>0, <1>8
  <2>2. c[i + 1] = Replay(c[i], log[i + 1])
    BY <1>6, <2>1
  <2> QED BY <1>0, <1>1, <2>1, <2>2
<1>9. 0 .. m \subseteq B
  <2> HIDE DEF B
  <2> QED BY <1>0, <1>7, <1>8, InductUpTo
<1>10. c \in [0 .. m -> Books]
  BY <1>5, <1>9
<1> QED BY <1>2, <1>6, <1>10 DEF Replaying, m

LEMMA LastIndex ==
  ASSUME NEW n \in Nat, NEW A \in SUBSET (1 .. n), A # {}
  PROVE  \E m \in A : \A x \in A : x <= m
<1> DEFINE D == {k \in Nat : n - k \in A}
<1>1. D \in SUBSET Nat /\ D # {}
  <2>1. PICK x \in A : TRUE
    OBVIOUS
  <2>2. n - x \in Nat /\ n - (n - x) = x
    BY <2>1
  <2> QED BY <2>1, <2>2
<1> HIDE DEF D
<1>2. PICK k \in D : \A j \in D : k <= j
  BY <1>1, LeastNat
<1>3. n - k \in A /\ k \in Nat
  BY <1>2 DEF D
<1>4. ASSUME NEW x \in A PROVE x <= n - k
  <2>1. n - x \in D
    BY <1>4 DEF D
  <2> QED BY <1>2, <1>3, <1>4, <2>1
<1> QED BY <1>3, <1>4

\* What a book b that replay has after n records says: of an order that lost none of them, what
\* the last of its records shows.
LastAt(q, n, i) == i \in 1 .. n /\ \A j \in 1 .. n : i < j => q[j].ref # q[i].ref
ShownAt(q, n, b, r) ==
  /\ (\A i \in 1 .. n : q[i].ref # r) => r \notin b.live
  /\ \A i \in 1 .. n : q[i].ref = r /\ LastAt(q, n, i) =>
       IF is_terminal(q[i].image.state) THEN r \notin b.live
       ELSE r \in b.live /\ b.order[r] = Seen(q[i].image)
Shown(q, n, b) ==
  /\ \A j \in 1 .. Len(q) : n < j => b.ts <= q[j].ts
  /\ \A r \in Refs \ dropped : ShownAt(q, n, b, r)

\* Recovery looks at the log alone.
LEMMA AllIsLog ==
  ASSUME PlaceInv, mode # "up"
  PROVE  \A a : a \in All <=> a \in Range(wal)
BY InAll, RangeEmpty DEF PlaceInv

\* In the sorted log, the record before b among those of its order.
LEMMA SortedPrecedes ==
  ASSUME JournalTypeOK, PlaceInv, mode # "up", NEW q, Sorted(q)
  PROVE  /\ \A i \in 1 .. Len(q) : q[i] \in All /\ q[i] \in Record
         /\ \A a \in All : \E i \in 1 .. Len(q) : a = q[i]
         /\ \A i, j \in 1 .. Len(q) : Precedes(q[i], q[j]) <=> (q[i].ref = q[j].ref /\ i < j)
<1>1. q \in Seq(Record) /\ Len(q) \in Nat
  BY DEF Sorted
<1>2. \A a : a \in All <=> \E i \in 1 .. Len(q) : a = q[i]
  BY <1>1, AllIsLog, InRange DEF Sorted
<1>3. \A i \in 1 .. Len(q) : q[i] \in Record /\ Pos(q[i]) \in Nat
  BY <1>1, PosTyped, ElementOfSeq
<1>4. ASSUME NEW i \in 1 .. Len(q), NEW j \in 1 .. Len(q)
      PROVE  Precedes(q[i], q[j]) <=> (q[i].ref = q[j].ref /\ i < j)
  <2>1. i < j => Pos(q[i]) < Pos(q[j])
    BY DEF Sorted
  <2>2. j < i => Pos(q[j]) < Pos(q[i])
    BY DEF Sorted
  <2>3. Pos(q[i]) \in Nat /\ Pos(q[j]) \in Nat /\ i \in Nat /\ j \in Nat
    BY <1>1, <1>3
  <2> QED BY <2>1, <2>2, <2>3 DEF Precedes
<1> QED BY <1>2, <1>3, <1>4

\* One record of an order that lost none: it opens the order, or follows the last one.
LEMMA RecordFollows ==
  ASSUME JournalTypeOK, PlaceInv, ChainInv, mode # "up", NEW q, Sorted(q),
         NEW n \in Nat, n < Len(q), q[n+1].ref \notin dropped
  PROVE  \/ OpensChain(q[n+1]) /\ \A i \in 1 .. n : q[i].ref # q[n+1].ref
         \/ \E i \in 1 .. n : LastAt(q, n, i) /\ q[i].ref = q[n+1].ref /\ Link(q[i], q[n+1])
<1> DEFINE b == q[n+1]
           A == {i \in 1 .. n : q[i].ref = b.ref}
<1>1. n + 1 \in 1 .. Len(q) /\ Len(q) \in Nat
  BY DEF Sorted
<1>2. /\ \A i \in 1 .. Len(q) : q[i] \in All /\ q[i] \in Record
      /\ \A a \in All : \E i \in 1 .. Len(q) : a = q[i]
      /\ \A i, j \in 1 .. Len(q) : Precedes(q[i], q[j]) <=> (q[i].ref = q[j].ref /\ i < j)
  BY SortedPrecedes
<1>3. b \in All
  BY <1>1, <1>2
<1>4. CASE A = {}
  <2>1. First(b)
    <3> SUFFICES ASSUME NEW a \in All, Precedes(a, b) PROVE FALSE
      BY DEF First
    <3>1. PICK i \in 1 .. Len(q) : a = q[i]
      BY <1>2
    <3>2. i < n + 1 /\ q[i].ref = b.ref
      BY <1>1, <1>2, <3>1
    <3>3. i \in A
      BY <1>1, <3>2
    <3> QED BY <1>4, <3>3
  <2>2. OpensChain(b)
    BY <1>3, <2>1 DEF ChainInv
  <2> QED BY <1>4, <2>2
<1>5. CASE A # {}
  <2>1. PICK i \in A : \A x \in A : x <= i
    <3>1. A \in SUBSET (1 .. n)
      OBVIOUS
    <3> HIDE DEF A
    <3> QED BY <1>5, <3>1, LastIndex
  <2>2. i \in 1 .. n /\ i \in 1 .. Len(q) /\ q[i].ref = b.ref /\ i < n + 1
    BY <1>1, <2>1
  <2>3. LastAt(q, n, i)
    <3> SUFFICES ASSUME NEW j \in 1 .. n, i < j, q[j].ref = q[i].ref PROVE FALSE
      BY <2>2 DEF LastAt
    <3>1. j \in A /\ i \in Nat /\ j \in Nat
      BY <2>2
    <3> QED BY <2>1, <3>1
  <2>4. Next2(q[i], b)
    <3>1. Precedes(q[i], b)
      BY <1>1, <1>2, <2>2
    <3>2. ASSUME NEW c \in All, Precedes(q[i], c), Precedes(c, b) PROVE FALSE
      <4>1. PICK j \in 1 .. Len(q) : c = q[j]
        BY <1>2
      <4>2. i < j /\ j < n + 1 /\ q[j].ref = q[i].ref
        BY <1>1, <1>2, <2>2, <3>2, <4>1
      <4>3. j \in 1 .. n
        BY <1>1, <4>2
      <4> QED BY <2>3, <4>2, <4>3 DEF LastAt
    <3> QED BY <3>1, <3>2 DEF Next2
  <2>5. Link(q[i], b)
    BY <1>2, <1>3, <2>2, <2>4 DEF ChainInv
  <2> QED BY <2>2, <2>3, <2>5
<1> QED BY <1>4, <1>5

\* What one turn of the loop does with a record it accepts.
LEMMA ReplayOk ==
  ASSUME NEW b \in Books, NEW item \in Record, b.ok, ~Skipped(item, item.ref \in b.live)
  PROVE  LET n == Replay(b, item)
             o == Replayed(item, b.order[item.ref])
         IN /\ n.ok <=> ~(item.ts < b.ts) /\ Valid(item, item.ref \in b.live, b.order[item.ref])
            /\ n.ok => /\ n.ts = item.ts
                       /\ n.live = IF is_terminal(o.state) THEN b.live \ {item.ref}
                                   ELSE b.live \cup {item.ref}
                       /\ n.order = [b.order EXCEPT ![item.ref] =
                                       IF is_terminal(o.state) THEN NoOrder ELSE o]
<1> DEFINE n == Replay(b, item)
           o == Replayed(item, b.order[item.ref])
           V == Valid(item, item.ref \in b.live, b.order[item.ref])
<1>1. n = IF item.ts < b.ts \/ ~V THEN [b EXCEPT !.ok = FALSE]
          ELSE [ok |-> TRUE, ts |-> item.ts,
                live |-> IF Reclaims(o.state) THEN b.live \ {item.ref} ELSE b.live \cup {item.ref},
                order |-> [b.order EXCEPT ![item.ref] = IF Reclaims(o.state) THEN NoOrder ELSE o]]
  BY DEF Replay
<1>2. [b EXCEPT !.ok = FALSE].ok = FALSE
  BY DEF Books
<1> HIDE DEF o, V, n
<1> QED BY <1>1, <1>2 DEF n, o, V, Reclaims

LEMMA ShownOthers ==
  ASSUME NEW q, NEW n \in Nat, NEW b, NEW c, NEW r, ShownAt(q, n, b, r), q[n+1].ref # r,
         r \in c.live <=> r \in b.live, c.order[r] = b.order[r]
  PROVE  ShownAt(q, n + 1, c, r)
<1>1. \A i \in 1 .. n + 1 : i \in 1 .. n \/ i = n + 1
  OBVIOUS
<1>2. \A i \in 1 .. n : i \in 1 .. n + 1
  OBVIOUS
<1>3. \A i \in 1 .. n : LastAt(q, n + 1, i) => LastAt(q, n, i)
  BY <1>2 DEF LastAt
<1> QED BY <1>1, <1>2, <1>3 DEF ShownAt

LEMMA ShownNew ==
  ASSUME NEW q, NEW n \in Nat, NEW c, NEW r, q[n+1].ref = r,
         IF is_terminal(q[n+1].image.state) THEN r \notin c.live
         ELSE r \in c.live /\ c.order[r] = Seen(q[n+1].image)
  PROVE  ShownAt(q, n + 1, c, r)
<1>1. n + 1 \in 1 .. n + 1
  OBVIOUS
<1>2. ASSUME NEW i \in 1 .. n + 1, q[i].ref = r, LastAt(q, n + 1, i) PROVE i = n + 1
  BY <1>1, <1>2 DEF LastAt
<1> QED BY <1>1, <1>2 DEF ShownAt

LEMMA ReplayShown ==
  ASSUME JournalTypeOK, PlaceInv, ChainInv, mode # "up", NEW q, Sorted(q),
         NEW n \in Nat, n < Len(q), NEW b \in Books, b.ok, Shown(q, n, b)
  PROVE  /\ Replay(b, q[n+1]).ok => Shown(q, n + 1, Replay(b, q[n+1]))
         /\ dropped = {} /\ resized = {} => Replay(b, q[n+1]).ok
<1> DEFINE item == q[n+1]
           r == item.ref
           c == Replay(b, item)
           o == Replayed(item, b.order[r])
<1>1. n + 1 \in 1 .. Len(q) /\ Len(q) \in Nat /\ item \in Record /\ item.ts \in Nat /\ r \in Refs
      /\ \A i \in 1 .. Len(q) : q[i] \in Record /\ q[i].ts \in Nat
  <2>1. n + 1 \in 1 .. Len(q) /\ Len(q) \in Nat /\ \A i \in 1 .. Len(q) : q[i] \in Record
    BY SortedPrecedes DEF Sorted
  <2> QED BY <2>1, PosTyped
<1>2. b.ts \in Nat /\ b.live \in SUBSET Refs /\ b.order \in [Refs -> Plain] /\ b.order[r] \in Plain
  BY <1>1 DEF Books
<1>3. ~(item.ts < b.ts)
  <2>1. b.ts <= item.ts
    BY <1>1 DEF Shown
  <2> QED BY <1>1, <1>2, <2>1
<1>4. CASE Skipped(item, r \in b.live)
  <2>1. c = b
    BY <1>4 DEF Replay
  <2>2. item.kind = "order_state" /\ r \notin b.live
    BY <1>4 DEF Skipped
  <2>3. r \in dropped
    <3> SUFFICES ASSUME r \notin dropped PROVE FALSE
      OBVIOUS
    <3>1. ShownAt(q, n, b, r)
      BY <1>1 DEF Shown
    <3>2. CASE OpensChain(item)
      BY <2>2, <3>2 DEF OpensChain
    <3>3. ASSUME NEW i \in 1 .. n, LastAt(q, n, i), q[i].ref = r, Link(q[i], item) PROVE FALSE
      <4>1. ~is_terminal(q[i].image.state)
        BY <3>3 DEF Link
      <4> QED BY <2>2, <3>1, <3>3, <4>1 DEF ShownAt
    <3> QED BY <1>1, <3>2, <3>3, RecordFollows
  <2>4. Shown(q, n + 1, b)
    <3>1. ASSUME NEW x \in Refs \ dropped PROVE ShownAt(q, n + 1, b, x)
      BY <2>3, <3>1, ShownOthers DEF Shown
    <3>2. \A j \in 1 .. Len(q) : n + 1 < j => b.ts <= q[j].ts
      BY <1>1 DEF Shown
    <3> QED BY <3>1, <3>2 DEF Shown
  <2> QED BY <2>1, <2>3, <2>4
<1>5. CASE ~Skipped(item, r \in b.live)
  <2>1. /\ c.ok <=> ~(item.ts < b.ts) /\ Valid(item, r \in b.live, b.order[r])
        /\ c.ok => /\ c.ts = item.ts
                   /\ c.live = IF is_terminal(o.state) THEN b.live \ {r} ELSE b.live \cup {r}
                   /\ c.order = [b.order EXCEPT ![r] = IF is_terminal(o.state) THEN NoOrder ELSE o]
    BY <1>1, <1>5, ReplayOk
  <2> HIDE DEF c
  <2>2. ASSUME r \notin dropped
        PROVE  /\ o = Seen(item.image)
               /\ r \notin resized => Valid(item, r \in b.live, b.order[r])
    <3>1. ShownAt(q, n, b, r)
      BY <1>1, <2>2 DEF Shown
    <3>2. CASE OpensChain(item) /\ \A i \in 1 .. n : q[i].ref # r
      <4>1. r \notin b.live /\ item.kind = "command" /\ item.image = NewOrder("pending_send", item.y, 0)
        BY <3>1, <3>2 DEF ShownAt, OpensChain
      <4>2. o = NewOrder("sent", item.y, 0)
        BY <4>1 DEF Replayed
      <4>3. Seen(item.image) = NewOrder("sent", item.y, 0)
        BY <4>1 DEF Seen, NewOrder
      <4>4. Valid(item, r \in b.live, b.order[r])
        BY <4>1 DEF Valid
      <4> QED BY <4>1, <4>2, <4>3, <4>4
    <3>3. ASSUME NEW i \in 1 .. n, LastAt(q, n, i), q[i].ref = r, Link(q[i], item)
          PROVE  /\ o = Seen(item.image)
                 /\ r \notin resized => Valid(item, r \in b.live, b.order[r])
      <4>1. r \in b.live /\ b.order[r] = Seen(q[i].image)
        BY <3>1, <3>3 DEF ShownAt, Link
      <4>2. Replayed(item, Seen(q[i].image)) = Seen(item.image)
        BY <3>3 DEF Link, Joins
      <4>3. r \notin resized => Valid(item, TRUE, Seen(q[i].image))
        BY <3>3 DEF Link, Fits
      <4> QED BY <4>1, <4>2, <4>3
    <3> QED BY <1>1, <2>2, <3>2, <3>3, RecordFollows
  <2>3. ASSUME c.ok PROVE Shown(q, n + 1, c)
    <3>1. ASSUME NEW x \in Refs \ dropped PROVE ShownAt(q, n + 1, c, x)
      <4>1. CASE x # r
        <5>1. (x \in c.live <=> x \in b.live) /\ c.order[x] = b.order[x] /\ ShownAt(q, n, b, x)
          BY <1>2, <2>1, <2>3, <3>1, <4>1 DEF Shown
        <5> QED BY <4>1, <5>1, ShownOthers
      <4>2. CASE x = r
        <5>1. o = Seen(item.image) /\ item.image \in Order
          BY <1>1, <2>2, <3>1, <4>2 DEF Record
        <5>2. is_terminal(o.state) <=> is_terminal(item.image.state)
          BY <5>1, SeenTwice
        <5>3. IF is_terminal(item.image.state) THEN r \notin c.live
              ELSE r \in c.live /\ c.order[r] = Seen(item.image)
          <6> HIDE DEF o
          <6> QED BY <1>1, <1>2, <2>1, <2>3, <5>1, <5>2
        <5> QED BY <4>2, <5>3, ShownNew
      <4> QED BY <4>1, <4>2
    <3>2. \A j \in 1 .. Len(q) : n + 1 < j => c.ts <= q[j].ts
      BY <1>1, <2>1, <2>3 DEF Sorted
    <3> QED BY <3>1, <3>2 DEF Shown
  <2>4. dropped = {} /\ resized = {} => c.ok
    BY <1>3, <2>1, <2>2
  <2> QED BY <2>3, <2>4 DEF c
<1> QED BY <1>4, <1>5

LEMMA ShownFirst == ASSUME NEW q \in Seq(Record) PROVE Shown(q, 0, Next0)
<1>1. \A i \in 1 .. Len(q) : q[i].ts \in Nat
  BY ElementOfSeq, PosTyped
<1> QED BY <1>1 DEF Shown, ShownAt, Next0

\* What recovery rebuilds from the log.
LEMMA RebuiltShown ==
  ASSUME JournalTypeOK, PlaceInv, ChainInv, mode # "up"
  PROVE  LET q == Ordered(wal)
             b == Rebuilt(wal)
         IN /\ Sorted(q) /\ b \in Books
            /\ b.ok => Shown(q, Len(q), b)
            /\ dropped = {} /\ resized = {} => b.ok
<1> DEFINE q == Ordered(wal)
           N == Len(q)
           b == Rebuilt(wal)
<1>1. Sorted(q)
  BY OrderedSorted
<1>2. b = Replays(q)
  BY DEF Rebuilt
<1> HIDE DEF q, b
<1>3. q \in Seq(Record) /\ N \in Nat
  BY <1>1 DEF Sorted
<1>4. PICK c : Replaying(q, c)
  BY <1>3, ReplaySteps
<1>5. /\ c \in [0 .. N -> Books] /\ b = c[N] /\ c[0] = Next0
      /\ \A i \in 1 .. N : c[i] = Replay(c[i-1], q[i])
  BY <1>2, <1>4 DEF Replaying
<1> DEFINE G(i) == /\ c[i].ok => Shown(q, i, c[i])
                   /\ dropped = {} /\ resized = {} => c[i].ok
           B == {i \in 0 .. N : G(i)}
<1>6. 0 \in B
  <2>1. Next0.ok
    BY DEF Next0
  <2> QED BY <1>3, <1>5, <2>1, ShownFirst
<1>7. ASSUME NEW i \in 0 .. N, i < N /\ i \in B PROVE i + 1 \in B
  <2>1. i + 1 \in 1 .. N /\ i + 1 \in 0 .. N /\ (i + 1) - 1 = i /\ i \in Nat /\ c[i] \in Books
    BY <1>3, <1>5, <1>7
  <2>2. c[i+1] = Replay(c[i], q[i+1])
    BY <1>5, <2>1
  <2>3. CASE ~c[i].ok
    <3>1. c[i+1] = c[i]
      BY <2>2, <2>3 DEF Replay
    <3>2. G(i + 1)
      BY <1>7, <2>3, <3>1
    <3> QED BY <2>1, <3>2
  <2>4. CASE c[i].ok
    <3>1. /\ Replay(c[i], q[i+1]).ok => Shown(q, i + 1, Replay(c[i], q[i+1]))
          /\ dropped = {} /\ resized = {} => Replay(c[i], q[i+1]).ok
      BY <1>1, <1>7, <2>1, <2>4, ReplayShown
    <3>2. G(i + 1)
      BY <2>2, <3>1
    <3> QED BY <2>1, <3>2
  <2> QED BY <2>3, <2>4
<1>8. N \in B
  <2> HIDE DEF B
  <2>1. 0 .. N \subseteq B
    BY <1>3, <1>6, <1>7, InductUpTo
  <2> QED BY <1>3, <2>1
<1>9. b \in Books
  BY <1>3, <1>5
<1> QED BY <1>1, <1>5, <1>8, <1>9 DEF q, b
-----------------------------------------------------------------------------
(* The invariant of the journal, and the theorems. *)

\* What a finished recovery has left, in terms of the log.
RecInv ==
  mode \in {"recovered", "failed"} =>
    LET b == Rebuilt(wal)
    IN /\ mode = "recovered" <=> b.ok
       /\ live = IF b.ok THEN b.live ELSE {}
       /\ \A r \in live : order[r] = NewOrder("unknown", b.order[r].requested_volume,
                                              b.order[r].filled_volume)

JournalInv == /\ JournalTypeOK /\ PlaceInv /\ StopInv /\ ChainInv
              /\ UpInv /\ LatestInv /\ RecInv

LEMMA RecoverSafe ==
  ASSUME JournalInv, Recover
  PROVE  JournalInv'
<1> DEFINE b == Rebuilt(wal)
           Back == IF b.ok THEN b.live ELSE {}
           f == [r \in Refs |-> b.order[r].requested_volume]
<1>1. JournalTypeOK /\ PlaceInv /\ StopInv /\ ChainInv /\ mode = "down"
  BY DEF JournalInv, Recover
<1>2. b \in Books
  BY <1>1, RebuiltShown
<1>3. b.live \in SUBSET Refs /\ b.ok \in BOOLEAN /\ b.order \in [Refs -> Plain]
  BY <1>2 DEF Books
<1>4. /\ mode' = (IF b.ok THEN "recovered" ELSE "failed") /\ live' = Back
      /\ order' = [r \in Refs |-> IF r \in Back
                                  THEN NewOrder("unknown", b.order[r].requested_volume,
                                                b.order[r].filled_volume)
                                  ELSE NoOrder]
      /\ reserved' = SumFunctionOnSet(f, Back)
      /\ UNCHANGED <<seq, ops, emitting, outbox, wal, flushed, writer, running, owed,
                     dropped, miscounted, drained, resized>>
  BY DEF Recover, notes
<1>5. Rebuilt(wal)' = b
  BY <1>4
<1> HIDE DEF b
<1>6. Back \in SUBSET Refs
  BY <1>3
<1>7. \A r \in Refs : b.order[r] \in Order /\ b.order[r].requested_volume \in Nat
                      /\ b.order[r].filled_volume \in Nat
  BY <1>3 DEF Plain, Order
<1>8. OmsTypeOK'
  <2>1. reserved' \in Int
    <3>1. IsFiniteSet(Back)
      <4> HIDE DEF Back
      <4> QED BY <1>6, JournalAssumption, FS_Subset
    <3>2. \A x \in Back : f[x] \in Int
      BY <1>6, <1>7
    <3> HIDE DEF f, Back
    <3> QED BY <1>4, <3>1, <3>2, SumInt
  <2>2. order' \in [Refs -> Order]
    BY <1>4, <1>7, OrderTyped
  <2> QED BY <1>4, <1>6, <2>1, <2>2 DEF OmsTypeOK
<1>9. JournalTypeOK'
  BY <1>1, <1>4, <1>8 DEF JournalTypeOK
<1>10. mode # "up" /\ mode' # "up" /\ mode' \in {"recovered", "failed"}
  BY <1>1, <1>4
<1>11. PlaceInv'
  BY <1>1, <1>4, <1>10, PlaceSame
<1>12. StopInv'
  BY <1>1, <1>4, <1>10, StopSame
<1>13. ChainInv'
  <2>1. \A a : a \in All' <=> a \in All
    BY <1>4, AllSame
  <2> QED BY <1>1, <1>4, <2>1, ChainFewer
<1>14. UpInv' /\ LatestInv'
  BY <1>10 DEF UpInv, LatestInv
<1>15. RecInv'
  BY <1>4, <1>5, <1>6, <1>10 DEF RecInv
<1> QED BY <1>9, <1>11, <1>12, <1>13, <1>14, <1>15 DEF JournalInv

\* Until it recovers, the process has nothing to say about recovery.
LEMMA NotRecovered ==
  ASSUME mode' \in {"up", "down"}
  PROVE  RecInv'
BY DEF RecInv

LEMMA WorkerSafe ==
  ASSUME JournalInv, NEW r \in Refs, Worker(r)
  PROVE  JournalInv'
<1>1. JournalTypeOK /\ PlaceInv /\ StopInv /\ ChainInv /\ UpInv /\ LatestInv
  BY DEF JournalInv
<1>2. PICK q, n : Worked(r, q, n)
  BY <1>1, WorkerWorks
<1>3. Works(r, q, n) /\ mode = "up" /\ mode' = mode
      /\ UNCHANGED <<outbox, wal, writer, running, owed>>
  BY <1>2 DEF Worked, Works, Free, Emits
<1>4. JournalTypeOK'
  BY <1>1, <1>3, WorksTyped
<1>5. PlaceInv' /\ Newest(r, q)
  BY <1>1, <1>3, WorkedNewest
<1>6. ChainInv' /\ LatestInv' /\ UpInv'
  BY <1>1, <1>2, <1>5, ChainWorked, LatestWorked
<1>7. StopInv'
  BY <1>1, <1>3, StopSame
<1> QED BY <1>3, <1>4, <1>5, <1>6, <1>7, NotRecovered DEF JournalInv

LEMMA UpSame ==
  ASSUME UpInv, mode' = mode, UNCHANGED omsVars
  PROVE  UpInv'
BY DEF UpInv, omsVars

LEMMA PushSafe ==
  ASSUME JournalInv, NEW s \in ShardSet, Push(s)
  PROVE  JournalInv'
<1>1. JournalTypeOK /\ PlaceInv /\ StopInv /\ ChainInv /\ UpInv /\ LatestInv
  BY DEF JournalInv
<1>2. mode = "up" /\ mode' = mode /\ UNCHANGED <<omsVars, ops, miscounted, drained>> /\ resized' = resized
  BY DEF Push, omsVars
<1>3. JournalTypeOK' /\ PlaceInv' /\ Moves /\ StopInv'
  BY <1>1, PushTyped, PlacePush, StopPush
<1>4. ChainInv' /\ LatestInv' /\ UpInv'
  BY <1>1, <1>2, <1>3, ChainMoves, LatestMoves, UpSame
<1> QED BY <1>2, <1>3, <1>4, NotRecovered DEF JournalInv

LEMMA PopSafe ==
  ASSUME JournalInv, Pop
  PROVE  JournalInv'
<1>1. JournalTypeOK /\ PlaceInv /\ StopInv /\ ChainInv /\ UpInv /\ LatestInv
  BY DEF JournalInv
<1>2. mode = "up" /\ mode' = mode /\ UNCHANGED <<omsVars, ops, miscounted, drained>> /\ resized' = resized
  BY DEF Pop, omsVars, Draining
<1>3. JournalTypeOK' /\ PlaceInv' /\ Moves /\ StopInv'
  BY <1>1, PopTyped, PlacePop, StopPop
<1>4. ChainInv' /\ LatestInv' /\ UpInv'
  BY <1>1, <1>2, <1>3, ChainMoves, LatestMoves, UpSame
<1> QED BY <1>2, <1>3, <1>4, NotRecovered DEF JournalInv

LEMMA WriterSafe ==
  ASSUME JournalInv, NextShard \/ EndPass \/ Flush \/ Stop
  PROVE  JournalInv'
<1>1. JournalTypeOK /\ PlaceInv /\ StopInv /\ ChainInv /\ UpInv /\ LatestInv
  BY DEF JournalInv
<1>2. /\ mode = "up" /\ mode' = mode /\ UNCHANGED <<omsVars, ops, miscounted, drained>>
      /\ resized' = resized /\ dropped' = dropped /\ seq' = seq
      /\ wal' = wal /\ outbox' = outbox /\ emitting' = emitting
  BY DEF NextShard, EndPass, Flush, Stop, omsVars, Draining, notes
<1>3. Moves
  BY <1>2, AllSame DEF Moves
<1>4. JournalTypeOK' /\ PlaceInv' /\ StopInv'
  BY <1>1, <1>2, WriterTyped, PlaceSame, StopWriter
<1>5. ChainInv' /\ LatestInv' /\ UpInv'
  BY <1>1, <1>2, <1>3, ChainMoves, LatestMoves, UpSame
<1> QED BY <1>2, <1>4, <1>5, NotRecovered DEF JournalInv

LEMMA CrashSafe ==
  ASSUME JournalInv, NEW k \in 0 .. Len(wal), Crash(k)
  PROVE  JournalInv'
<1>1. JournalTypeOK /\ PlaceInv /\ ChainInv
  BY DEF JournalInv
<1>2. mode' = "down" /\ UNCHANGED <<dropped, resized>>
  BY DEF Crash
<1>3. JournalTypeOK' /\ StopInv'
  BY <1>1, CrashTyped, StopCrash
<1>4. /\ PlaceInv' /\ \A a : a \in All' => a \in All
      /\ \A a \in All, b \in All' : Precedes(a, b) => a \in All'
  BY <1>1, PlaceCrash
<1>5. ChainInv'
  BY <1>1, <1>2, <1>4, ChainFewer
<1>6. UpInv' /\ LatestInv'
  BY <1>2 DEF UpInv, LatestInv
<1> QED BY <1>2, <1>3, <1>4, <1>5, <1>6, NotRecovered DEF JournalInv

LEMMA JournalInitSafe ==
  ASSUME JournalInit
  PROVE  JournalInv
<1>1. JournalTypeOK
  <2>1. OmsTypeOK
    BY OrderTyped DEF JournalInit, OmsInit, OmsTypeOK
  <2>2. \A s \in ShardSet : Len(outbox[s]) <= OutboxCapacity
    BY JournalAssumption DEF JournalInit
  <2>3. writer \in [pc : {"drain", "flush", "final", "last", "done"}, at : 1 .. Shards + 1,
                    any : BOOLEAN]
    BY JournalAssumption DEF JournalInit
  <2> QED BY <2>1, <2>2, <2>3 DEF JournalInit, JournalTypeOK
<1>2. \A a : a \notin All
  BY InAll, RangeEmpty DEF JournalInit
<1>3. PlaceInv
  <2>1. Rising(<<>>)
    BY DEF Rising
  <2>2. \A s \in ShardSet : outbox[s] = <<>> /\ emitting[s] = <<>>
    BY DEF JournalInit
  <2>3. \A s \in ShardSet : Boxed(s) = {}
    BY <2>2, RangeEmpty DEF Boxed
  <2> QED BY <1>2, <2>1, <2>2, <2>3, RangeEmpty DEF PlaceInv, AllBefore, JournalInit
<1>4. StopInv
  BY DEF JournalInit, StopInv
<1>5. ChainInv
  BY <1>2 DEF ChainInv
<1>6. UpInv /\ LatestInv /\ RecInv
  BY <1>2 DEF UpInv, LatestInv, LatestAt, RecInv, JournalInit, OmsInit
<1> QED BY <1>1, <1>3, <1>4, <1>5, <1>6 DEF JournalInv

LEMMA JournalStutters ==
  ASSUME JournalInv, UNCHANGED journalVars
  PROVE  JournalInv'
<1>1. /\ UNCHANGED <<live, order, reserved, mode, seq, ops, emitting, outbox, wal, flushed, writer,
                     running, owed, dropped, miscounted, drained, resized>>
  BY DEF journalVars, omsVars, notes
<1>2. JournalTypeOK' /\ PlaceInv' /\ StopInv' /\ UpInv'
  BY <1>1, PlaceSame, StopSame
     DEF JournalInv, JournalTypeOK, OmsTypeOK, UpInv
<1>3. Moves
  BY <1>1, AllSame DEF Moves
<1>4. ChainInv' /\ LatestInv'
  BY <1>1, <1>3, ChainMoves, LatestMoves DEF JournalInv, omsVars
<1>5. RecInv'
  BY <1>1 DEF JournalInv, RecInv
<1> QED BY <1>2, <1>4, <1>5 DEF JournalInv

LEMMA JournalStep ==
  ASSUME JournalInv, [JournalNext]_journalVars
  PROVE  JournalInv'
BY WorkerSafe, PushSafe, PopSafe, WriterSafe, CrashSafe, RecoverSafe, JournalStutters
   DEF JournalNext, Writer

LEMMA JournalHolds == JournalSpec => []JournalInv
BY JournalInitSafe, JournalStep, PTL DEF JournalSpec

\* In every state of the workers, the outboxes, the writer thread and the recovery, the book's
\* state, the records and the writer's state are of the shapes the code gives them.
THEOREM JournalTypes == JournalSpec => []JournalTypeOK
<1>1. JournalInv => JournalTypeOK
  BY DEF JournalInv
<1> QED BY <1>1, JournalHolds, PTL

\* run(): when the writer thread ends, every record the outboxes had accepted when stop() was
\* called is flushed or its append failed, for any number of shards and outboxes of any size.
THEOREM StopDrains == JournalSpec => []StopKeepsAccepted
<1>1. JournalInv => StopKeepsAccepted
  BY DEF JournalInv, StopInv, StopKeepsAccepted
<1> QED BY <1>1, JournalHolds, PTL

\* The last of an order's records in the log is the last in the order of replay.
LEMMA LastRecord ==
  ASSUME JournalTypeOK, PlaceInv, NEW r \in Refs, NEW q, Sorted(q), Mine(r) # {}
  PROVE  \E i \in 1 .. Len(q) : /\ q[i] = wal[Max(Mine(r))] /\ q[i].ref = r
                                /\ LastAt(q, Len(q), i)
<1> DEFINE k == Max(Mine(r))
<1>1. wal \in Seq(Record) /\ Len(wal) \in Nat /\ DOMAIN wal = 1 .. Len(wal)
      /\ q \in Seq(Record) /\ Len(q) \in Nat /\ Range(q) = Range(wal)
  BY LenProperties DEF JournalTypeOK, Sorted
<1>2. Mine(r) \in SUBSET (1 .. Len(wal))
  BY <1>1 DEF Mine
<1>3. \E x \in Mine(r) : \A y \in Mine(r) : x >= y
  <2>1. PICK x \in Mine(r) : \A y \in Mine(r) : y <= x
    BY <1>1, <1>2, LastIndex
  <2> QED BY <1>2, <2>1
<1>4. k \in Mine(r) /\ \A y \in Mine(r) : k >= y
  BY <1>3 DEF Max
<1> HIDE DEF k
<1>5. k \in 1 .. Len(wal) /\ wal[k].ref = r
  BY <1>1, <1>4 DEF Mine
<1>6. PICK i \in 1 .. Len(q) : wal[k] = q[i]
  BY <1>1, <1>5, InRange
<1>7. ASSUME NEW j \in 1 .. Len(q), i < j, q[j].ref = r PROVE FALSE
  <2>1. PICK m \in 1 .. Len(wal) : q[j] = wal[m]
    BY <1>1, InRange
  <2>2. m \in Mine(r)
    BY <1>1, <1>7, <2>1 DEF Mine
  <2>3. Pos(wal[k]) < Pos(wal[m]) /\ Pos(wal[k]) \in Nat /\ Pos(wal[m]) \in Nat
    <3>1. wal[k] \in Record /\ wal[m] \in Record
      BY <1>1, <1>5, ElementOfSeq
    <3> QED BY <1>6, <1>7, <2>1, <3>1, PosTyped DEF Sorted
  <2>4. m < k
    BY <1>1, <1>4, <1>5, <2>2, <2>3
  <2>5. Of(wal[m]) = Of(wal[k])
    BY <1>5, <1>7, <2>1 DEF Of
  <2>6. Pos(wal[m]) < Pos(wal[k])
    BY <1>5, <2>4, <2>5 DEF PlaceInv, Rising
  <2> QED BY <2>3, <2>6
<1> QED BY <1>5, <1>6, <1>7 DEF LastAt, k

LEMMA FaithfulBook ==
  ASSUME JournalInv
  PROVE  RecoveryFaithful
<1> SUFFICES ASSUME mode = "recovered", NEW r \in Refs \ (dropped \cup Unlogged)
             PROVE  LET Open == Mine(r) # {} /\ ~is_terminal(LastImage(r).state)
                    IN /\ r \in live <=> Open
                       /\ Open => order[r] = [LastImage(r) EXCEPT !.state = "unknown"]
  BY DEF RecoveryFaithful
<1> DEFINE q == Ordered(wal)
           N == Len(q)
           b == Rebuilt(wal)
<1>1. JournalTypeOK /\ PlaceInv /\ ChainInv /\ RecInv /\ mode # "up"
  BY DEF JournalInv
<1>2. Sorted(q) /\ b \in Books /\ (b.ok => Shown(q, N, b))
  BY <1>1, RebuiltShown
<1>3. /\ b.ok /\ live = b.live
      /\ \A x \in live : order[x] = NewOrder("unknown", b.order[x].requested_volume,
                                             b.order[x].filled_volume)
  BY <1>1 DEF RecInv
<1> HIDE DEF q, b
<1>4. ShownAt(q, N, b, r)
  BY <1>2, <1>3 DEF Shown
<1>5. CASE Mine(r) = {}
  <2>1. \A i \in 1 .. N : q[i].ref # r
    <3> SUFFICES ASSUME NEW i \in 1 .. N, q[i].ref = r PROVE FALSE
      OBVIOUS
    <3>1. q \in Seq(Record) /\ wal \in Seq(Record) /\ Range(q) = Range(wal)
          /\ DOMAIN wal = 1 .. Len(wal)
      BY <1>1, <1>2, LenProperties DEF Sorted, JournalTypeOK
    <3>2. PICK m \in 1 .. Len(wal) : q[i] = wal[m]
      BY <3>1, InRange
    <3>3. m \in Mine(r)
      BY <3>1, <3>2 DEF Mine
    <3> QED BY <1>5, <3>3
  <2> QED BY <1>3, <1>4, <1>5, <2>1 DEF ShownAt
<1>6. CASE Mine(r) # {}
  <2>1. PICK i \in 1 .. N : /\ q[i] = wal[Max(Mine(r))] /\ q[i].ref = r /\ LastAt(q, N, i)
    BY <1>1, <1>2, <1>6, LastRecord
  <2> DEFINE a == LastImage(r)
  <2>2. a = q[i].image
    BY <2>1 DEF LastImage
  <2> HIDE DEF a
  <2>3. IF is_terminal(a.state) THEN r \notin b.live ELSE r \in b.live /\ b.order[r] = Seen(a)
    BY <1>4, <2>1, <2>2 DEF ShownAt
  <2>4. ASSUME ~is_terminal(a.state) PROVE order[r] = [a EXCEPT !.state = "unknown"]
    <3>1. a \in Order
      <4>1. q[i] \in Record
        BY <1>2, ElementOfSeq DEF Sorted
      <4> QED BY <2>2, <4>1 DEF Record
    <3>2. r \in live /\ b.order[r] = Seen(a) /\ b.order[r] \in Plain
      BY <1>2, <1>3, <2>3, <2>4 DEF Books
    <3>3. /\ Seen(a).requested_volume = a.requested_volume /\ Seen(a).filled_volume = a.filled_volume
          /\ Seen(a).last_applied_seq = a.last_applied_seq
      BY <3>1 DEF Seen, Order
    <3>4. a.last_applied_seq = 0
      BY <3>2, <3>3 DEF Plain
    <3>5. order[r] = NewOrder("unknown", a.requested_volume, a.filled_volume)
      BY <1>3, <3>2, <3>3
    <3>6. [a EXCEPT !.state = "unknown"] = NewOrder("unknown", a.requested_volume, a.filled_volume)
      BY <3>1, <3>4 DEF Order, NewOrder
    <3> QED BY <3>5, <3>6
  <2> QED BY <1>3, <1>6, <2>3, <2>4 DEF a
<1> QED BY <1>5, <1>6

\* recover_streaming: a recovery that succeeds brings back exactly the orders the surviving log
\* shows open, each with the volumes the book had at its last record, wherever the crash cut the
\* log and however the shards' records interleave in it.
THEOREM RecoveryIsFaithful == JournalSpec => []RecoveryFaithful
BY FaithfulBook, JournalHolds, PTL

\* The two ways back agree: no two records of the log are alike.
LEMMA RecoverAgrees ==
  ASSUME JournalInv, Len(wal) <= MaxRecords
  PROVE  recover(Ordered(wal)) = Rebuilt(wal)
<1> DEFINE q == Ordered(wal)
<1>1. Sorted(q)
  BY OrderedSorted DEF JournalInv
<1>2. Rebuilt(wal) = Replays(q)
  BY DEF Rebuilt
<1> HIDE DEF q
<1>3. q \in Seq(Record) /\ Len(q) = Len(wal) /\ Len(q) \in Nat /\ DOMAIN q = 1 .. Len(q)
  BY <1>1, LenProperties DEF Sorted
<1>4. ASSUME NEW i \in DOMAIN q, NEW k \in DOMAIN q, k < i, same_payload(q[i], q[k]) PROVE FALSE
  <2>1. q[i] \in Record /\ q[k] \in Record /\ i \in 1 .. Len(q) /\ k \in 1 .. Len(q)
    BY <1>3, ElementOfSeq
  <2> DEFINE a == q[i]
             c == q[k]
  <2>2. [a EXCEPT !.image = NoOrder] = [c EXCEPT !.image = NoOrder]
    BY <1>4 DEF same_payload
  <2>3. a.ts = c.ts /\ a.kind = c.kind
    <3> DEFINE u == [a EXCEPT !.image = NoOrder]
               w == [c EXCEPT !.image = NoOrder]
    <3>1. u.ts = a.ts /\ u.kind = a.kind /\ w.ts = c.ts /\ w.kind = c.kind
      BY <2>1 DEF Record
    <3>2. u = w
      BY <2>2
    <3> HIDE DEF u, w
    <3> QED BY <3>1, <3>2
  <2>4. Pos(a) = Pos(c) /\ Pos(a) \in Nat
    BY <2>1, <2>3, PosTyped DEF Pos
  <2>5. Pos(c) < Pos(a)
    BY <1>1, <1>4, <2>1 DEF Sorted
  <2> QED BY <2>4, <2>5
<1>5. recover(q) = Replays(q)
  <2>1. ~(Len(q) > MaxRecords)
    BY <1>3, JournalAssumption
  <2> QED BY <1>4, <2>1 DEF recover
<1> QED BY <1>2, <1>5 DEF q

LEMMA AcceptsLog ==
  ASSUME JournalInv
  PROVE  RecoveryAccepts
<1>1. JournalTypeOK /\ PlaceInv /\ ChainInv /\ RecInv
  BY DEF JournalInv
<1>2. ASSUME mode = "failed" PROVE dropped \cup Unlogged \cup resized # {}
  <2> SUFFICES ASSUME dropped = {}, resized = {} PROVE FALSE
    OBVIOUS
  <2>1. Rebuilt(wal).ok
    BY <1>1, <1>2, RebuiltShown
  <2> QED BY <1>1, <1>2, <2>1 DEF RecInv
<1>3. ASSUME mode \in {"recovered", "failed"}, Len(wal) <= MaxRecords
      PROVE  LET b == recover(Ordered(wal))
             IN  IF b.ok THEN mode = "recovered" /\ live = b.live ELSE mode = "failed"
  <2>1. recover(Ordered(wal)) = Rebuilt(wal)
    BY <1>3, RecoverAgrees
  <2> QED BY <1>1, <1>3, <2>1 DEF RecInv
<1> QED BY <1>2, <1>3 DEF RecoveryAccepts

\* recover_streaming and recover: with no record lost, no change left out of the journal and no
\* order replaced while it was not acknowledged, the log a crash leaves is always accepted, and
\* a log that fits into a Journal gives the same book both ways.
THEOREM RecoveryIsAccepted == JournalSpec => []RecoveryAccepts
BY AcceptsLog, JournalHolds, PTL
==============================================================================
