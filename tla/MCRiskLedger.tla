---------------------------- MODULE MCRiskLedger ----------------------------
(* Two threads; orders of two strategies that compete for one global limit. *)
EXTENDS RiskLedger, TLC

CONSTANTS a, b, c, s1, s2, g

MCPath == [r \in Refs |-> IF r = b THEN <<s2, g>> ELSE <<s1, g>>]
MCOpenLimit == s1 :> 2 @@ s2 :> 1 @@ g :> 2
MCLimitOfThree == [d \in Dims |-> 3]
MCBudget == s1 :> 3 @@ s2 :> 2 @@ g :> 3
MCSign == [r \in Refs |-> IF r = b THEN -1 ELSE 1]
MCHome == [r \in Refs |-> CASE r = a -> 0 [] r = b -> 1 [] r = c -> 2]

\* Two orders that start probing at the same slot, in a table that is nearly empty.
MCSharedHome == [r \in Refs |-> IF r = b THEN 1 ELSE 0]

Threads == Permutations(Callers)
=============================================================================
