------------------------------ MODULE MCRouter ------------------------------
(* Two strategies, the first with two orders; one scenario per kind of trouble. *)
EXTENDS Router, TLC

CONSTANTS r1, r2, r3

MCRefs == {r1, r2, r3}
MCQuantum == 0 :> 2 @@ 1 :> 1
MCOwner == r1 :> 0 @@ r2 :> 1 @@ r3 :> 0
MCSign == r1 :> 1 @@ r2 :> 1 @@ r3 :> -1
MCBurst == [order |-> 1, cancel |-> 1, replace |-> 1]

Ask(kind, r, v) == [kind |-> kind, ref |-> r, volume |-> v]
Scenario(requests, session, faults) == [requests |-> requests, session |-> session, faults |-> faults]

First == {Ask("order", r1, 2)}
Small(S) == {Ask("order", r, 1) : r \in S}
Cancel == {Ask("cancel", r1, 0)}
Replace == {Ask("replace", r1, 1), Ask("replace", r1, 3)}

Trading == {Scenario(First \cup Cancel \cup Replace, "open", {}),
            Scenario(Small({r1, r2}) \cup Cancel, "open", {"halt"}),
            Scenario(Small(MCRefs), "open", {"session"})}
Reconnecting == {Scenario(First \cup Cancel, "open", {f, "down"}) : f \in {"lost", "crash"}}
                \cup {Scenario(Small({r1, r2}), "open", {"down"})}
Flooding == {Scenario({Ask("cancel", r, 0) : r \in MCRefs}, "disabled", {"flood"})}

Reusing == {Scenario(Small({r2}) \cup {Ask("order", r1, 3)}, "open", {"reuse"})}

\* Buffers with room for everything, for one of each, and for one difference only.
Ample == [reports |-> 9, local |-> 3, remote |-> 4, results |-> 6]
MCRooms == {Ample, [reports |-> 1, local |-> 1, remote |-> 1, results |-> 1], [Ample EXCEPT !.results = 1]}

\* An order ends in a reconciliation and is replaced afterwards.
Orphaned == {Scenario(First \cup {Ask("replace", r1, 3)}, "open", {"down"})}

All == Trading \cup Reconnecting \cup Flooding \cup Reusing
=============================================================================
