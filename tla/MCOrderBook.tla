---------------------------- MODULE MCOrderBook ----------------------------
(* Three bid prices for a window of two, and an ask that crosses the best of them. *)
EXTENDS OrderBook

D(side, price, size, action) == [side |-> side, price |-> price, size |-> size, action |-> action]

MCDeltas == {D("bid", p, 1, "add") : p \in 1 .. 3} \cup {D("bid", 2, 2, "modify")}
              \cup {D("bid", p, 0, "modify") : p \in 1 .. 3}
              \cup {D("ask", 2, 1, "add"), D("ask", 2, 1, "remove"), D("bid", 0, 1, "add")}
MCQuotes == {[bid |-> b, ask |-> a, size |-> 0] : b, a \in 0 .. 3}
=============================================================================
