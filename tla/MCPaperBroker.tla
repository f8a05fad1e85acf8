---------------------------- MODULE MCPaperBroker ----------------------------
(* Two prices far apart, displayed size that fills an order in parts, and a balance that *)
(* one bad trade can exhaust. An order of 2 that has filled 1 can be replaced to 3, so   *)
(* that a replacement is accepted between two partial fills, and to 1, which is refused. *)
EXTENDS PaperBroker

Request(ref, side, type, volume, limit, reduce, expires) ==
  [ref |-> ref, side |-> side, type |-> type, volume |-> volume, limit |-> limit,
   reduce |-> reduce, expires |-> expires]

MCRefs == {"r1", "r2", "r3", "r4"}
MCHome == "r1" :> 0 @@ "r2" :> 0 @@ "r3" :> 1 @@ "r4" :> 2
MCSimIds == <<"r1", "r2", "r3", "r4">>
MCRequests == {Request("r1", "buy",  "market", 2, 0, FALSE, FALSE),
               Request("r2", "sell", "limit",  2, 3, FALSE, TRUE),
               Request("r3", "sell", "market", 1, 0, TRUE,  FALSE)}
MCAmends == {<<3, 1>>, <<3, 3>>}
MCQuotes == {[bid |-> 2, ask |-> 3, size |-> 1], [bid |-> 20, ask |-> 21, size |-> 0],
             [bid |-> 2, ask |-> 3, size |-> 0]}
Reducers == {Request("r1", "buy",  "market", 1, 0, FALSE, FALSE),
             Request("r2", "sell", "market", 1, 0, TRUE,  FALSE),
             Request("r3", "sell", "market", 1, 0, TRUE,  FALSE)}
==============================================================================
