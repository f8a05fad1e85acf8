----------------------------- MODULE OrderBook -----------------------------
(***************************************************************************)
(* The market order book of one symbol: two ladders of bounded depth, fed  *)
(* by quotes (L1, the quote is the book) or by deltas (L2), the tolerance  *)
(* for a crossed book, and the rebase when a delta does not fit. The venue *)
(* and its feed, which may lose a delta, are the environment.              *)
(*                                                                         *)
(* Time is kept as the age of the crossing; beyond the tolerance all ages  *)
(* and all counts of crossed updates are alike. Statistics and the prices  *)
(* a rebase event names are left out.                                      *)
(***************************************************************************)
EXTENDS Integers, SequencesExt

CONSTANTS Sources,       \* the feeds examined, of {"l1", "l2"}
          Quotes,        \* quotes of an l1 feed: records of bid, ask and size
          Deltas,        \* deltas of an l2 feed: records of side, price, size and action
          MaxDepth,      \* max_book_depth
          MinPrice, MaxPrice, MaxSpread, MaxSize,  \* SymbolLimits
          MaxUpdates, MaxDuration,                 \* CrossedTolerance
          Elapses        \* how much time may pass between two updates

Sides == {"bid", "ask"}
Prices == MinPrice .. MaxPrice

ASSUME BookAssumption ==
  /\ Sources \subseteq {"l1", "l2"}
  /\ MinPrice \in Nat \ {0} /\ MaxPrice \in Nat /\ MaxSpread \in Nat /\ MaxSize \in Nat
  /\ MaxDepth \in Nat \ {0} /\ MaxUpdates \in Nat \ {0} /\ MaxDuration \in Nat
  /\ Elapses \subseteq Nat
  /\ \A q \in Quotes : q.bid \in Nat /\ q.ask \in Nat /\ q.size \in Nat
  /\ \A d \in Deltas : /\ d.side \in Sides /\ d.price \in Nat /\ d.size \in Nat
                       /\ d.action \in {"add", "modify", "remove"}

VARIABLES source,   \* which of the two paths drives this book
          book,     \* the ladders, the crossing and the pending rebase
          status,   \* what the last update returned
          venue,    \* the venue's own ladders: the size at each price, 0 for none
          seen,     \* history: the prices whose last change has reached the book since it was cleared
          thinned,  \* history: the sides that lost a level while others were beyond the window
          odd       \* history: a delta that did not fit although the book had been told everything

vars == <<source, book, status, venue, seen, thinned, odd>>

Level(price, size) == [price |-> price, size |-> size]

Init == /\ source \in Sources
        /\ book = [levels |-> [s \in Sides |-> <<>>], crossed_updates |-> 0, crossed_age |-> 0,
                   rebase_pending |-> FALSE]
        /\ status = "ok"
        /\ venue = [s \in Sides |-> [p \in Prices |-> 0]]
        /\ seen = [s \in Sides |-> Prices]
        /\ thinned = {}
        /\ odd = FALSE
-----------------------------------------------------------------------------
(* The ladders: the best level first. *)

price_in_range(p) == p \in MinPrice .. MaxPrice
size_in_range(n) == n \in 0 .. MaxSize

Better(side, p, q) == IF side = "bid" THEN p > q ELSE p < q

\* The index of a price, or 0.
find(levels, price) ==
  LET I == {i \in DOMAIN levels : levels[i].price = price} IN IF I = {} THEN 0 ELSE Min(I)

erase_at(levels, i) == RemoveAt(levels, i)

\* Mutant: a full ladder takes no level, not even a better one.
insert_sorted_NoEvict(levels, side, entry) ==
  LET worse == {i \in DOMAIN levels : Better(side, entry.price, levels[i].price)}
      at    == IF worse = {} THEN Len(levels) + 1 ELSE Min(worse)
  IN  IF Len(levels) = MaxDepth THEN levels ELSE InsertAt(levels, at, entry)

\* Into a full ladder only a better price, which evicts the worst.
insert_sorted(levels, side, entry) ==
  LET worse == {i \in DOMAIN levels : Better(side, entry.price, levels[i].price)}
      at    == IF worse = {} THEN Len(levels) + 1 ELSE Min(worse)
  IN  IF at > MaxDepth THEN levels
      ELSE InsertAt(IF Len(levels) = MaxDepth THEN Front(levels) ELSE levels, at, entry)

has_both_sides(b) == \A s \in Sides : b.levels[s] # <<>>
is_crossed(b) == has_both_sides(b) /\ b.levels["bid"][1].price >= b.levels["ask"][1].price
-----------------------------------------------------------------------------
(* Crossing and rebase. *)

AtMost(n, bound) == IF n < bound THEN n ELSE bound

\* The time that passes counts once the book is crossed.
Aged(b, elapsed) ==
  IF b.crossed_updates = 0 THEN b
  ELSE [b EXCEPT !.crossed_age = AtMost(@ + elapsed, MaxDuration + 1)]

Uncrossed(b) == [b EXCEPT !.crossed_updates = 0, !.crossed_age = 0]

\* Mutant: an uncrossed book is fine, but what the crossing has used up stays.
evaluate_crossed_NoReset(b) ==
  LET counted == [b EXCEPT !.crossed_updates = AtMost(@ + 1, MaxUpdates + 1)]
  IN  IF ~is_crossed(b) THEN [book |-> b, status |-> "ok"]
      ELSE [book   |-> counted,
            status |-> IF counted.crossed_updates > MaxUpdates \/ counted.crossed_age > MaxDuration
                       THEN "crossed_halt" ELSE "crossed_tolerated"]

evaluate_crossed(b) ==
  LET counted == [b EXCEPT !.crossed_updates = AtMost(@ + 1, MaxUpdates + 1)]
  IN  IF ~is_crossed(b) THEN [book |-> Uncrossed(b), status |-> "ok"]
      ELSE [book   |-> counted,
            status |-> IF counted.crossed_updates > MaxUpdates \/ counted.crossed_age > MaxDuration
                       THEN "crossed_halt" ELSE "crossed_tolerated"]

clear(b) == Uncrossed([b EXCEPT !.levels = [s \in Sides |-> <<>>]])

request_rebase(b) == [clear(b) EXCEPT !.rebase_pending = TRUE]
-----------------------------------------------------------------------------
(* Ingestion: the book and the status an update leaves. *)

apply_quote(b, q) ==
  IF \/ ~price_in_range(q.bid) \/ ~price_in_range(q.ask) \/ ~size_in_range(q.size)
     \/ q.ask - q.bid > MaxSpread
  THEN [book |-> b, status |-> "rejected"]
  ELSE evaluate_crossed([b EXCEPT !.levels = [bid |-> <<Level(q.bid, q.size)>>,
                                              ask |-> <<Level(q.ask, q.size)>>]])

\* A size of zero is a removal, however it is labelled.
Removes(d) == d.size = 0 \/ d.action = "remove"

apply_delta(b, d) ==
  LET levels == b.levels[d.side]
      i      == find(levels, d.price)
      held   == IF Removes(d) THEN erase_at(levels, i)
                ELSE IF i # 0 THEN [levels EXCEPT ![i].size = d.size]
                ELSE insert_sorted(levels, d.side, Level(d.price, d.size))
  IN  IF ~price_in_range(d.price) \/ ~size_in_range(d.size)
      THEN [book |-> b, status |-> "rejected"]
      ELSE IF Removes(d) /\ i = 0
      THEN [book |-> request_rebase(b), status |-> "rebase_required"]
      ELSE evaluate_crossed([b EXCEPT !.levels[d.side] = held])

\* The venue's side of a delta: it only takes away what it has.
Tells(d) == price_in_range(d.price) /\ size_in_range(d.size)
At(d) == IF Removes(d) THEN 0 ELSE d.size
Honest(d) == Tells(d) /\ Removes(d) => venue[d.side][d.price] > 0
Changed(d) == IF Tells(d) THEN [venue EXCEPT ![d.side][d.price] = At(d)] ELSE venue

Known(side) == {p \in seen[side] : venue[side][p] > 0}
Held(side) == {book.levels[side][i].price : i \in DOMAIN book.levels[side]}
BeyondWindow(side) == Known(side) \ Held(side)

Quote(q, elapsed) ==
  LET r == apply_quote(Aged(book, elapsed), q)
  IN  /\ source = "l1"
      /\ book' = r.book /\ status' = r.status
      /\ UNCHANGED <<source, venue, seen, thinned, odd>>

Delta(d, elapsed) ==
  LET r       == apply_delta(Aged(book, elapsed), d)
      rebased == r.status = "rebase_required"
  IN  /\ source = "l2" /\ Honest(d)
      /\ book' = r.book /\ status' = r.status
      /\ venue' = Changed(d)
      /\ seen' = IF rebased THEN [s \in Sides |-> {}]
                 ELSE IF Tells(d) THEN [seen EXCEPT ![d.side] = @ \cup {d.price}] ELSE seen
      /\ thinned' = IF rebased THEN {}
                    ELSE IF Tells(d) /\ Removes(d) /\ BeyondWindow(d.side) # {} THEN thinned \cup {d.side}
                    ELSE thinned
      /\ odd' = (odd \/ (rebased /\ d.price \in seen[d.side]))
      /\ UNCHANGED source

\* A delta that never arrives.
Lose(d) == /\ source = "l2" /\ Honest(d) /\ Changed(d) # venue
           /\ venue' = Changed(d)
           /\ seen' = [seen EXCEPT ![d.side] = @ \ {d.price}]
           /\ UNCHANGED <<source, book, status, thinned, odd>>

consume_rebase == /\ book.rebase_pending
                  /\ book' = [book EXCEPT !.rebase_pending = FALSE]
                  /\ UNCHANGED <<source, status, venue, seen, thinned, odd>>

Next == \/ \E q \in Quotes, elapsed \in Elapses : Quote(q, elapsed)
        \/ \E d \in Deltas, elapsed \in Elapses : Delta(d, elapsed)
        \/ \E d \in Deltas : Lose(d)
        \/ consume_rebase

Spec == Init /\ [][Next]_vars
-----------------------------------------------------------------------------
TypeOK ==
  /\ source \in Sources
  /\ \A s \in Sides : \A i \in DOMAIN book.levels[s] :
       book.levels[s][i] \in [price : Prices, size : 0 .. MaxSize]
  /\ book.crossed_updates \in 0 .. MaxUpdates + 1 /\ book.crossed_age \in 0 .. MaxDuration + 1
  /\ status \in {"ok", "crossed_tolerated", "crossed_halt", "rebase_required", "rejected"}
  /\ venue \in [Sides -> [Prices -> 0 .. MaxSize]]
  /\ seen \in [Sides -> SUBSET Prices] /\ thinned \subseteq Sides /\ odd \in BOOLEAN

Best(side, S) == {p \in S : Cardinality({q \in S : Better(side, q, p)}) < MaxDepth}

\* The ladders stay ladders, whatever is inserted, evicted, erased and lost: strictly sorted,
\* the best price first, and no deeper than the window. Where every change has reached the
\* book, a level has the venue's size, and as long as no level was taken out while others were
\* beyond the window, the book holds exactly the best of the levels it has been told of.
LaddersExact ==
  source = "l2" => \A s \in Sides : LET levels == book.levels[s] IN
    /\ Len(levels) <= MaxDepth
    /\ \A i, j \in DOMAIN levels : i < j => Better(s, levels[i].price, levels[j].price)
    /\ \A i \in DOMAIN levels : levels[i].price \in seen[s] => levels[i].size = venue[s][levels[i].price]
    /\ (s \notin thinned /\ Held(s) \subseteq seen[s]) => Held(s) = Best(s, Known(s))

\* "Halting on the first occurrence is a false positive": only a book that was crossed before
\* the update can exhaust the tolerance. What an earlier crossing used up is forgotten, also
\* when a rebase ended it.
NeverHaltsAtOnce == [][status' = "crossed_halt" => is_crossed(book)]_vars

\* apply_delta's comment: "Removing a level we never had means our view diverged from the
\* venue's." A book that was told every change of a price is not rebased by its removal.
RebaseMeansDiverged == ~odd
=============================================================================
