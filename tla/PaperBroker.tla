----------------------------- MODULE PaperBroker -----------------------------
(***************************************************************************)
(* The simulated broker: orders in reusable slots, latency, partial fills, *)
(* queue position, tickets (hedging) or one signed position (netting), and *)
(* the account with reserved margin and stop-out. One symbol; times are    *)
(* abstracted to what they decide (an order has reached the venue or not,  *)
(* has expired or not, a quote is too old or not), random draws are        *)
(* choices, and the journal is left out.                                   *)
(*                                                                         *)
(* Every operation is one call on one thread and is written as operators   *)
(* on the record b of the broker's state; a quote processes the orders in  *)
(* slot order.                                                             *)
(***************************************************************************)
EXTENDS Integers, SequencesExt

CONSTANTS Hedging,        \* the account modes examined, a set of booleans
          Refs,           \* logical order ids
          Requests,       \* what strategies submit; the ref is part of it
          Amends,         \* the pairs <<price, volume>> they replace with
          Quotes,         \* the top of book: records of bid, ask and size
          Slips,          \* ticks of slippage the model may draw
          MaxLive,        \* max_live_orders
          MaxTickets,     \* max_positions
          Placement,      \* queue_placement in halves: 0 front, 1 middle, 2 back
          InitialBalance, MarginRateBp, StopOutBp, Commission,
          SeenSlots, SeenProbe, Home,  \* the table of known ids and its hash
          MaxSubmits, MaxReplaces, MaxQuotes, \* bounds on what happens
          Clients,        \* who uses the broker: "strategies" or "sim_replay"
          SimIds, OrderEvery, OrderVolume, SimQuotes  \* the schedule of the replay, and its bound

ASSUME BrokerAssumption ==
  /\ Hedging \subseteq BOOLEAN /\ Slips \subseteq Nat
  /\ \A q \in Quotes : q.bid \in Nat /\ q.ask \in Nat /\ q.size \in Nat
  /\ MaxLive \in Nat \ {0} /\ MaxTickets \in Nat \ {0} /\ Placement \in 0 .. 2
  /\ InitialBalance \in Int /\ MarginRateBp \in Nat /\ StopOutBp \in Nat /\ Commission \in Nat
  /\ SeenSlots \in Nat \ {0} /\ SeenProbe \in 1 .. SeenSlots
  /\ Home \in [Refs -> 0 .. SeenSlots - 1]
  /\ Clients \subseteq {"strategies", "sim_replay"}
  /\ SimIds \in Seq(Refs) /\ OrderEvery \in Nat \ {0} /\ OrderVolume \in Nat \ {0}
  /\ SimQuotes \in Nat /\ Len(SimIds) >= SimQuotes \div OrderEvery

VARIABLES hedging,  \* the account mode
          client,   \* who uses the broker
          b,        \* the broker
          asked     \* how many submits, replaces and quotes there have been

vars == <<hedging, client, b, asked>>

Terminal == {"risk_rejected", "filled", "cancelled", "rejected", "expired"}
is_terminal(o) == o.state \in Terminal
Against(side) == IF side = "buy" THEN "sell" ELSE "buy"
Signed(side, n) == IF side = "buy" THEN n ELSE -n

EmptyOrder == [ref |-> "none", side |-> "buy", type |-> "market", volume |-> 0, limit |-> 0,
               state |-> "new_order", filled |-> 0, avg |-> 0, reduce |-> FALSE,
               expires |-> FALSE, queue |-> 0, ticket |-> 0]
remaining(o) == o.volume - o.filled

NoMarket == [bid |-> 0, ask |-> 0, size |-> 0]
valid(m) == m.bid > 0 /\ m.ask > 0 /\ m.ask > m.bid

\* traded, cash and odd are history: the volume filled per side, the money that changed
\* hands, and what reduce-only fills did that a reduction cannot.
Init == /\ hedging \in Hedging
        /\ client \in Clients
        /\ b = [orders |-> <<>>, tickets |-> <<>>, ticket_seq |-> 0, market |-> NoMarket,
                balance |-> InitialBalance, reserved |-> 0, open_orders |-> 0, halted |-> FALSE,
                seen |-> [i \in 0 .. SeenSlots - 1 |-> "none"],
                traded |-> [buy |-> 0, sell |-> 0], cash |-> 0, odd |-> {}]
        /\ asked = [submits |-> 0, replaces |-> 0, quotes |-> 0]
-----------------------------------------------------------------------------
(* The account. *)

required_minor(volume, price) ==
  IF volume <= 0 \/ price <= 0 THEN 0 ELSE (volume * price * MarginRateBp + 9999) \div 10000

charge_minor(volume) == volume * Commission

open(t) == t.state = "open"
Indices(s) == 1 .. Len(s)
OpenTickets(r) == {i \in Indices(r.tickets) : open(r.tickets[i])}

\* Marked at the price the position could be closed at; no mark before the first quote.
position_pnl_minor(t, m) ==
  LET mark == IF t.side = "buy" THEN m.bid ELSE m.ask
  IN  IF mark > 0 THEN Signed(t.side, mark - t.avg) * t.volume ELSE 0

equity(r) == r.balance + MapThenSumSet(LAMBDA i : position_pnl_minor(r.tickets[i], r.market), OpenTickets(r))
margin_used(r) ==
  r.reserved + MapThenSumSet(LAMBDA i : required_minor(r.tickets[i].volume, r.tickets[i].avg), OpenTickets(r))
free_margin(r) == equity(r) - margin_used(r)
net_volume(r) == MapThenSumSet(LAMBDA i : Signed(r.tickets[i].side, r.tickets[i].volume), OpenTickets(r))

stop_out(r) == margin_used(r) > 0 /\ (equity(r) * 10000) \div margin_used(r) < StopOutBp

halt(r) == [r EXCEPT !.halted = TRUE]
\* The account's other figures are recomputed at every change, so they are operators here.
recompute_account(r) == IF stop_out(r) THEN halt(r) ELSE r
-----------------------------------------------------------------------------
(* Tickets. *)

book_full(r) == Len(r.tickets) = MaxTickets /\ \A i \in Indices(r.tickets) : open(r.tickets[i])

\* A closed ticket's slot is used again; a full book refuses.
PositionBook_open(r, side, volume, price) ==
  LET t    == [ticket |-> r.ticket_seq + 1, side |-> side, state |-> "open",
               volume |-> volume, avg |-> price]
      next == [r EXCEPT !.ticket_seq = @ + 1]
      slot == SelectInSeq(r.tickets, LAMBDA x : ~open(x))
  IN  IF book_full(r) THEN halt(next)
      ELSE IF slot # 0 THEN [next EXCEPT !.tickets[slot] = t]
      ELSE [next EXCEPT !.tickets = Append(@, t)]

PositionBook_add(t, volume, price) ==
  LET total == t.volume + volume
  IN  [t EXCEPT !.volume = total,
                !.avg = (t.avg * t.volume + price * volume + total \div 2) \div total]

PositionBook_find(r, ticket) == SelectInSeq(r.tickets, LAMBDA t : t.ticket = ticket /\ open(t))

find_symbol_position(r, side) == SelectInSeq(r.tickets, open)

find_reducible(r, side) ==
  SelectInSeq(r.tickets, LAMBDA t : open(t) /\ t.side = Against(side) /\ t.volume > 0)
reducible_volume(r, side) ==
  MapThenSumSet(LAMBDA i : r.tickets[i].volume, {i \in OpenTickets(r) : r.tickets[i].side = Against(side)})

\* Mutant: the profit of a closed short has the sign of a long's.
Reduce_LongPnl(r, i, volume, price) ==
  LET t == r.tickets[i]
      closing == IF volume < t.volume THEN volume ELSE t.volume
  IN  [r EXCEPT !.balance = @ + (price - t.avg) * closing,
                !.tickets[i] = [t EXCEPT !.volume = @ - closing,
                                         !.state = IF t.volume = closing THEN "closed" ELSE @]]

\* Closing at most what the ticket holds, at a realised profit.
Reduce(r, i, volume, price) ==
  LET t == r.tickets[i]
      closing == IF volume < t.volume THEN volume ELSE t.volume
  IN  [r EXCEPT !.balance = @ + Signed(t.side, price - t.avg) * closing,
                !.tickets[i] = [t EXCEPT !.volume = @ - closing,
                                         !.state = IF t.volume = closing THEN "closed" ELSE @]]

Odd(r, what, happened) == IF happened THEN [r EXCEPT !.odd = @ \cup {what}] ELSE r

ReduceOnlyFill(r, o, volume, price) ==
  LET i == find_reducible(r, o.side)
  IN  IF i = 0 THEN halt(r)
      ELSE Odd(Reduce(r, i, volume, price), "clipped", volume > r.tickets[i].volume)

\* Fills of one order accumulate in that order's own ticket.
HedgingFill(r, slot, o, volume, price) ==
  LET i == IF o.ticket = 0 THEN 0 ELSE PositionBook_find(r, o.ticket)
      n == PositionBook_open(r, o.side, volume, price)
  IN  IF i # 0 THEN [r EXCEPT !.tickets[i] = PositionBook_add(@, volume, price)]
      ELSE IF book_full(r) THEN n
      ELSE [n EXCEPT !.orders[slot].ticket = n.ticket_seq]

\* Mutant: what is left of a fill that closes the position is dropped.
NettingFill_NoResidual(r, o, volume, price) ==
  LET i == find_symbol_position(r, o.side)
  IN  IF i = 0 THEN PositionBook_open(r, o.side, volume, price)
      ELSE IF r.tickets[i].side = o.side
      THEN [r EXCEPT !.tickets[i] = PositionBook_add(@, volume, price)]
      ELSE Reduce(r, i, volume, price)

\* One signed position: what is left of a fill that closes it opens the other side.
NettingFill(r, o, volume, price) ==
  LET i == find_symbol_position(r, o.side)
      t == r.tickets[i]
      residual == volume - t.volume
  IN  IF i = 0 THEN Odd(PositionBook_open(r, o.side, volume, price), "opened", o.reduce)
      ELSE IF t.side = o.side
      THEN Odd([r EXCEPT !.tickets[i] = PositionBook_add(@, volume, price)], "opened", o.reduce)
      ELSE IF residual <= 0 THEN Reduce(r, i, volume, price)
      ELSE Odd(PositionBook_open(Reduce(r, i, volume, price), o.side, residual, price),
               "opened", o.reduce)

apply_to_position(r, slot, volume, price) ==
  LET o == r.orders[slot]
  IN  CASE hedging /\ o.reduce  -> ReduceOnlyFill(r, o, volume, price)
        [] hedging /\ ~o.reduce -> HedgingFill(r, slot, o, volume, price)
        [] ~hedging             -> NettingFill(r, o, volume, price)
-----------------------------------------------------------------------------
(* The life of an order. *)

\* Released at the limit or average fill price, which need not be the price reserved at.
release_reservation(r, o) ==
  LET reference == CASE o.type = "limit" -> o.limit
                     [] o.type = "market" /\ o.avg > 0 -> o.avg
                     [] OTHER -> r.market.ask
      margin == required_minor(o.volume, reference)
  IN  [r EXCEPT !.reserved = IF @ > margin THEN @ - margin ELSE 0]

finish(r, slot, state) ==
  LET done == [r EXCEPT !.orders[slot].state = state,
                        !.open_orders = IF @ > 0 THEN @ - 1 ELSE 0]
  IN  recompute_account(release_reservation(done, r.orders[slot]))

apply_fill(r, slot, volume, price) ==
  LET o       == r.orders[slot]
      filled  == o.filled + volume
      booked  == [r EXCEPT !.orders[slot] =
                             [o EXCEPT !.filled = filled,
                                       !.avg = (o.avg * o.filled + price * volume + filled \div 2)
                                                 \div filled],
                           !.balance = @ - charge_minor(volume),
                           !.traded[o.side] = @ + volume,
                           !.cash = @ - Signed(o.side, price) * volume - charge_minor(volume)]
      placed  == apply_to_position(booked, slot, volume, price)
  IN  IF filled = o.volume
      THEN finish(placed, slot, "filled")
      ELSE recompute_account([placed EXCEPT !.orders[slot].state = "partially_filled"])

limit_through(o, m) == IF o.side = "buy" THEN m.ask < o.limit ELSE m.bid > o.limit

\* A market order pays the touch and the slippage, a limit order its own price. Without
\* displayed size the whole remainder fills. (The guards against impossible fills behind
\* these computations cannot fire.)
attempt_fill(r, slot, slip) ==
  LET o      == r.orders[slot]
      m      == r.market
      price  == CASE o.type = "limit" -> o.limit
                  [] o.type = "market" /\ o.side = "buy"  -> m.ask + slip
                  [] o.type = "market" /\ o.side = "sell" -> m.bid - slip
      volume == IF m.size > 0 /\ m.size < remaining(o) THEN m.size ELSE remaining(o)
  IN  IF \/ ~valid(m) \/ remaining(o) <= 0
         \/ o.state \notin {"acknowledged", "partially_filled"}
         \/ o.type = "limit" /\ (~limit_through(o, m) \/ o.queue > 0)
      THEN r
      ELSE IF price <= 0 THEN halt(r)
      ELSE apply_fill(r, slot, volume, price)

\* What time and the random models decide about an order at a quote. An order in flight
\* waits, is refused or arrives; its expiry is looked at first.
Fates(o) ==
  (IF is_terminal(o) THEN {} ELSE
     (IF o.expires THEN {"expire"} ELSE {}) \cup
     (IF o.state = "sent" THEN {"wait", "reject"} ELSE {}))
  \cup (IF is_terminal(o) THEN {"wait"} ELSE {"work"})
Draws(o) == [fate : Fates(o),
             slip : IF o.type = "market" /\ ~is_terminal(o) THEN Slips ELSE {0},
             share : IF o.queue > 0 /\ ~is_terminal(o) THEN {0, o.queue} ELSE {0}]

process_order(r, slot, draw) ==
  CASE draw.fate = "expire" -> finish(r, slot, "expired")
    [] draw.fate = "reject" -> finish(r, slot, "rejected")
    [] draw.fate = "wait"   -> r
    [] draw.fate = "work"   ->
         attempt_fill([r EXCEPT !.orders[slot].state = IF @ = "sent" THEN "acknowledged" ELSE @],
                      slot, draw.slip)

\* A broker that has halted processes nothing; one that halts half-way finishes the round.
process(r, draws) ==
  IF r.halted THEN r
  ELSE FoldLeft(LAMBDA acc, slot : process_order(acc, slot, draws[slot]),
                r, [i \in Indices(r.orders) |-> i])

queue_at_placement(m) == (m.size * Placement) \div 2

\* A share of the size that left our level counts as traded ahead of us.
credit_queue(r, q, draws) ==
  IF ~valid(r.market) THEN r ELSE
  [r EXCEPT !.orders = [i \in Indices(@) |->
     LET o     == @[i]
         level == IF o.side = "buy" THEN q.bid ELSE q.ask
         same  == level = (IF o.side = "buy" THEN r.market.bid ELSE r.market.ask)
     IN  IF /\ o.type = "limit" /\ ~is_terminal(o) /\ o.queue > 0
            /\ same /\ o.limit = level /\ q.size < r.market.size
         THEN [o EXCEPT !.queue = IF @ > draws[i].share THEN @ - draws[i].share ELSE 0]
         ELSE o]]
-----------------------------------------------------------------------------
(* The table of known ids: open addressing, a bounded probe, the head evicted when full. *)

ProbeRun(ref) == [step \in 1 .. SeenProbe |-> (Home[ref] + step - 1) % SeenSlots]

has_seen(r, ref) ==
  LET i == SelectInSeq(ProbeRun(ref), LAMBDA slot : r.seen[slot] \in {"none", ref})
  IN  i # 0 /\ r.seen[ProbeRun(ref)[i]] = ref

remember(r, ref) ==
  LET i == SelectInSeq(ProbeRun(ref), LAMBDA slot : r.seen[slot] \in {"none", ref})
  IN  [r EXCEPT !.seen[IF i = 0 THEN Home[ref] ELSE ProbeRun(ref)[i]] = ref]
-----------------------------------------------------------------------------
(* The operations. *)

reserve_margin(r, q) ==
  required_minor(q.volume, CASE q.type = "limit" -> q.limit
                             [] q.type = "market" /\ q.side = "buy"  -> r.market.ask
                             [] q.type = "market" /\ q.side = "sell" -> r.market.bid)

reduce_only_ok(r, q) == q.reduce => q.volume <= reducible_volume(r, q.side)

NewOrder(r, q) ==
  [EmptyOrder EXCEPT !.ref = q.ref, !.side = q.side, !.type = q.type, !.volume = q.volume,
                     !.limit = q.limit, !.reduce = q.reduce, !.expires = q.expires,
                     !.queue = IF q.type = "limit" THEN queue_at_placement(r.market) ELSE 0,
                     !.state = "sent"]

\* The slot is taken before the quote and the margin are looked at: a refusal for either
\* leaves a slot of a new book that is never used. A refused request changes nothing else.
Submitted(r, q, stale) ==
  LET free   == SelectInSeq(r.orders, is_terminal)
      full   == free = 0 /\ Len(r.orders) = MaxLive
      slot   == IF free # 0 THEN free ELSE Len(r.orders) + 1
      taken  == IF free # 0 THEN r ELSE [r EXCEPT !.orders = Append(@, EmptyOrder)]
      margin == reserve_margin(r, q)
  IN  IF ~reduce_only_ok(r, q) \/ has_seen(r, q.ref) \/ full THEN r
      ELSE IF ~valid(r.market) \/ stale \/ margin > free_margin(r) THEN taken
      ELSE recompute_account(
             remember([taken EXCEPT !.orders[slot] = NewOrder(r, q),
                                    !.reserved = @ + margin,
                                    !.open_orders = @ + 1], q.ref))

submit(q, stale) ==
  /\ client = "strategies" /\ asked.submits < MaxSubmits
  /\ asked' = [asked EXCEPT !.submits = @ + 1]
  /\ b' = Submitted(b, q, stale)
  /\ UNCHANGED <<hedging, client>>

find_live(r, ref) == SelectInSeq(r.orders, LAMBDA o : o.ref = ref /\ ~is_terminal(o))

cancel(ref) ==
  LET slot == find_live(b, ref)
  IN  /\ client = "strategies" /\ slot # 0
      /\ b' = finish(b, slot, "cancelled")
      /\ UNCHANGED <<hedging, client, asked>>

\* Mutant: the new volume is not compared with what is filled already.
replace_Unchecked(ref, price, volume) ==
  LET slot == find_live(b, ref)
      o    == b.orders[slot]
  IN  /\ client = "strategies" /\ slot # 0
      /\ asked.replaces < MaxReplaces
      /\ asked' = [asked EXCEPT !.replaces = @ + 1]
      /\ b' = [b EXCEPT !.orders[slot].limit = price, !.orders[slot].volume = volume]
      /\ UNCHANGED <<hedging, client>>

\* Neither the reservation nor the limit on reduce-only volume is looked at again.
replace(ref, price, volume) ==
  LET slot == find_live(b, ref)
      o    == b.orders[slot]
  IN  /\ client = "strategies" /\ slot # 0
      /\ volume > o.filled /\ (o.type = "limit" => price > 0)
      /\ asked.replaces < MaxReplaces
      /\ asked' = [asked EXCEPT !.replaces = @ + 1]
      /\ b' = [b EXCEPT !.orders[slot] =
                 [o EXCEPT !.limit = price, !.volume = volume,
                           !.queue = IF o.type = "limit" THEN queue_at_placement(b.market) ELSE @]]
      /\ UNCHANGED <<hedging, client>>

Quoted(r, q, draws) ==
  recompute_account(process([credit_queue(r, q, draws) EXCEPT !.market = q], draws))

AllDraws == {f \in [Indices(b.orders) -> UNION {Draws(b.orders[i]) : i \in Indices(b.orders)}] :
               \A i \in Indices(b.orders) : f[i] \in Draws(b.orders[i])}

on_quote(q) ==
  /\ client = "strategies" /\ asked.quotes < MaxQuotes
  /\ asked' = [asked EXCEPT !.quotes = @ + 1]
  /\ \E draws \in AllDraws : b' = Quoted(b, q, draws)
  /\ UNCHANGED <<hedging, client>>

\* SimReplayEngine::run: every so many quotes a market order, the sides alternating.
SimRequest(n) == [ref |-> SimIds[n + 1], side |-> IF n % 2 = 0 THEN "buy" ELSE "sell",
                  type |-> "market", volume |-> OrderVolume, limit |-> 0,
                  reduce |-> FALSE, expires |-> FALSE]

\* The order is submitted at the time of the quote, so the quote is never stale.
SimQuote(q) ==
  LET due == (asked.quotes + 1) % OrderEvery = 0
  IN  /\ client = "sim_replay" /\ asked.quotes < SimQuotes
      /\ asked' = [asked EXCEPT !.quotes = @ + 1, !.submits = IF due THEN @ + 1 ELSE @]
      /\ \E draws \in AllDraws :
           b' = IF due THEN Submitted(Quoted(b, q, draws), SimRequest(asked.submits), FALSE)
                ELSE Quoted(b, q, draws)
      /\ UNCHANGED <<hedging, client>>

Next == \/ \E q \in Requests, stale \in BOOLEAN : submit(q, stale)
        \/ \E ref \in Refs : cancel(ref)
        \/ \E ref \in Refs, a \in Amends : replace(ref, a[1], a[2])
        \/ \E q \in Quotes : on_quote(q) \/ SimQuote(q)

Spec == Init /\ [][Next]_vars
-----------------------------------------------------------------------------
TypeOK ==
  /\ hedging \in BOOLEAN /\ client \in Clients
  /\ Len(b.orders) <= MaxLive /\ Len(b.tickets) <= MaxTickets
  /\ \A i \in Indices(b.orders) :
       b.orders[i].state \in Terminal \cup {"new_order", "sent", "acknowledged", "partially_filled"}
  /\ \A i \in OpenTickets(b) : b.tickets[i].volume > 0 /\ b.tickets[i].avg > 0
  /\ b.reserved >= 0

\* An order is filled exactly when its fills add up to its volume, whatever replaces happen
\* between two partial fills.
FilledExactly ==
  \A i \in Indices(b.orders) : LET o == b.orders[i] IN
    /\ o.filled <= o.volume
    /\ o.state = "filled" <=> (o.filled = o.volume /\ o.volume > 0)

\* The positions are what the fills add up to, over all tickets. (Except after a halt, when a
\* fill may have found no ticket, and after a reduce-only fill in a hedging account that was
\* larger than the one ticket it reduced.)
Regular == ~b.halted /\ "clipped" \notin b.odd
PositionConserved == Regular => net_volume(b) = b.traded.buy - b.traded.sell

\* No money appears or is lost: the balance is the initial balance and the money that changed
\* hands, less what the open positions cost. The average prices are rounded, by at most half
\* a tick for each unit held at each fill.
MoneyConserved ==
  LET cost  == MapThenSumSet(LAMBDA i : Signed(b.tickets[i].side, b.tickets[i].volume * b.tickets[i].avg), OpenTickets(b))
      drift == b.balance - InitialBalance - b.cash - cost
      units == b.traded.buy + b.traded.sell
  IN  Regular => 2 * drift \in -(units * units) .. units * units

\* The comment of OrderRequest::reduce_only: "reduce/close only, never open".
ReduceOnlyNeverOpens == "opened" \notin b.odd
=============================================================================
