----------------------------- MODULE MCCapture -----------------------------
(* A small capture for TLC: segments of two frames, a queue of one job, two or three        *)
(* segments. With a tailer there is one fault, without one there are faults that may meet,  *)
(* or the machine fails twice.                                                              *)
EXTENDS Capture

Scenario(log, tailed, faults, n, segments) ==
  [stream |-> log, tailed |-> tailed,
   faults |-> [f \in FaultKinds |-> CASE f = "segment" -> segments
                                      [] f # "segment" /\ f \in faults -> n
                                      [] OTHER -> 0]]

Tailed == {Scenario("market", TRUE, {"crash"}, 1, 2)}
          \cup {Scenario("execution", TRUE, {f}, 1, 3) : f \in {"power", "timed", "tailer"}}
Untailed == {Scenario("market", FALSE, faults, 1, 3) :
               faults \in {{"crash", "compress"}, {"power", "timed"}, {"wire", "compress", "timed"}}}
            \cup {Scenario("market", FALSE, {"power"}, 2, 2)}

All == Tailed \cup Untailed
OneCrash == {Scenario("market", FALSE, {"crash"}, 1, 3)}
NoFault == {Scenario("market", TRUE, {}, 0, 1)}
=============================================================================
