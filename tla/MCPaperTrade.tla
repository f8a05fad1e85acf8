---------------------------- MODULE MCPaperTrade ----------------------------
(* The ways the runtime is started, and how often each fault happens. *)
EXTENDS PaperTrade, TLC

AllSetups == {<<"wal", "baseline">>, <<"wal", "l1">>, <<"wal", "flip">>,
              <<"replay", "baseline">>, <<"bridge", "flip">>}
WalFlip == {<<"wal", "flip">>}
Bridge == {<<"bridge", "flip">>}

\* Over recorded quotes three trades and three faults; in bridge mode one trade and any two faults.
MCFaults ==
  [m \in Modes |-> [f \in FaultKinds |->
     CASE m # "bridge" /\ f \in {"entry", "any"} -> 3
       [] m = "bridge" /\ f \in {"slow", "any"}  -> 2
       [] OTHER -> 1]]

\* Two restarts, a late answer and three entries: enough for an old answer to pass for a new one.
BlindFaults ==
  [m \in Modes |-> [f \in FaultKinds |->
     CASE f \in {"entry", "any"} -> 3
       [] f = "restart" -> 2
       [] f = "slow" -> 1
       [] OTHER -> 0]]
=============================================================================
